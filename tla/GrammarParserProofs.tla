------------------------- MODULE GrammarParserProofs -------------------------
(***************************************************************************)
(* Proofs about GrammarParser, for any files, names and lists of programs:   *)
(* the tables of the grammar parser are those of the scopes around the token *)
(* it reads, its stack of nodes is the constructs under way, and a name in   *)
(* an expression is bound to the declaration that it should mean.            *)
(*                                                                          *)
(* The inductive invariant IInv adds to the properties:                      *)
(*   - how frames nest (FramesOK): one function's header, or its body with   *)
(*     controls and blocks inside of it, and the flags that say which;       *)
(*   - scopes are numbered from the outside, and no declaration has the      *)
(*     number of a scope that is still to come (ScopesOK): a new scope's     *)
(*     table is empty, and a declaration changes the table of the innermost  *)
(*     scope alone;                                                          *)
(*   - the tables of global names hold declarations of their own program,    *)
(*     the first of each function, nothing for programs that are still to    *)
(*     be parsed, and every function whose header is behind the parser is    *)
(*     found from its program (TablesOK).                                    *)
(* A lookup follows the imports recursively.  The imports are acyclic, so    *)
(* its results exist and are the only ones (FindInFacts); they are nonzero   *)
(* exactly when a program in sight has the name.                             *)
(*                                                                          *)
(* About ExprParser, for any expressions: each means what the README's table *)
(* of priorities says.  There is one step from every configuration of        *)
(* tokens, position, call stack and value (After), and Leads is the steps in *)
(* a row.  By induction on the length of an expression's text, the function  *)
(* of each level is led from the start of the text to its end, with the tree *)
(* it was written for (Parsed).  The invariant ExprInv says that the present *)
(* configuration leads to the end of the file with the right tree.           *)
(***************************************************************************)
EXTENDS GrammarParser, ExprParser, Induction, SequenceTheorems, FiniteSetTheorems

-----------------------------------------------------------------------------
(* Least and greatest numbers, and joined sequences.                        *)

\* A least number is the minimum.
LEMMA MinIs ==
    ASSUME NEW S \in SUBSET Nat, NEW m \in S, \A k \in S : m <= k
    PROVE  Min(S) = m
  <1>1. \E x \in S : \A y \in S : x <= y  OBVIOUS
  <1>2. Min(S) \in S /\ \A y \in S : Min(S) <= y
    BY <1>1 DEF Min
  <1>3. Min(S) \in Nat /\ m \in Nat /\ Min(S) <= m /\ m <= Min(S)
    BY <1>2
  <1>4. QED  BY <1>3

\* Every set of numbers has a minimum.
LEMMA MinExists ==
    ASSUME NEW S \in SUBSET Nat, S # {}
    PROVE  Min(S) \in S /\ \A y \in S : Min(S) <= y
  <1> DEFINE R == OpToRel(<, Nat)
  <1>1. \A x, y \in Nat : x < y => <<x, y>> \in R
    BY DEF OpToRel
  <1>2. IsWellFoundedOn(R, Nat)  BY NatLessThanWellFounded
  <1> HIDE DEF R
  <1>3. PICK x \in S : \A y \in S : <<y, x>> \notin R
    BY <1>2, WFMin
  <1>4. ASSUME NEW y \in S PROVE x <= y
    <2>1. x \in Nat /\ y \in Nat /\ ~(y < x)  BY <1>1, <1>3
    <2>2. QED  BY <2>1
  <1>5. QED  BY <1>4 DEF Min

\* ... and every bounded one that is not empty a maximum.
LEMMA MaxExists ==
    ASSUME NEW n \in Nat, NEW S \in SUBSET (0 .. n), S # {}
    PROVE  Max(S) \in S /\ \A y \in S : y <= Max(S)
  <1> DEFINE T == {n - s : s \in S}
  <1>1. T \in SUBSET Nat /\ T # {}
    <2>1. \A s \in 0 .. n : n - s \in Nat  OBVIOUS
    <2>2. QED  BY <2>1
  <1>2. Min(T) \in T /\ \A y \in T : Min(T) <= y
    <2> HIDE DEF T
    <2>1. QED  BY <1>1, MinExists
  <1>3. PICK s \in S : Min(T) = n - s  BY <1>2
  <1>4. ASSUME NEW y \in S PROVE y <= s
    <2>1. n - y \in T  OBVIOUS
    <2>2. n - s <= n - y  BY <1>2, <1>3, <2>1
    <2>3. QED  BY <2>2
  <1>5. \E x \in S : \A y \in S : x >= y
    BY <1>4
  <1>6. Max(S) \in S /\ \A y \in S : Max(S) >= y
    BY <1>5 DEF Max
  <1>7. QED  BY <1>6

\* What a search of a sequence returns.
LEMMA FirstFoundFacts ==
    ASSUME NEW s \in Seq(Nat)
    PROVE  \/ FirstFound(s) = None /\ \A i \in DOMAIN s : s[i] = None
           \/ \E i \in DOMAIN s : /\ FirstFound(s) = s[i] /\ s[i] # None
                                  /\ \A j \in DOMAIN s : j < i => s[j] = None
  <1> DEFINE I == {i \in 1 .. Len(s) : s[i] # None}
             k == SelectInSeq(s, LAMBDA n : n # None)
  <1>1. k = IF I # {} THEN Min(I) ELSE 0
    BY DEF SelectInSeq
  <1>2. FirstFound(s) = IF k = 0 THEN None ELSE s[k]
    BY DEF FirstFound
  <1>3. DOMAIN s = 1 .. Len(s) /\ Len(s) \in Nat  OBVIOUS
  <1> HIDE DEF k
  <1>4. CASE I = {}
    BY <1>1, <1>2, <1>3, <1>4
  <1>5. CASE I # {}
    <2>1. I \in SUBSET Nat  OBVIOUS
    <2>2. Min(I) \in I /\ \A y \in I : Min(I) <= y
      <3> HIDE DEF I
      <3>1. QED  BY <1>5, <2>1, MinExists
    <2>3. k \in I /\ \A y \in I : k <= y  BY <1>1, <1>5, <2>2
    <2>4. k \in DOMAIN s /\ FirstFound(s) = s[k] /\ s[k] # None
      BY <1>2, <1>3, <2>3
    <2>5. \A j \in DOMAIN s : j < k => s[j] = None
      BY <1>3, <2>3
    <2>6. QED  BY <2>4, <2>5
  <1>6. QED  BY <1>4, <1>5

\* The partial concatenations of a sequence of sequences.
Joins(g, V, ss) ==
    /\ g \in [0 .. Len(ss) -> Seq(V)] /\ g[0] = <<>>
    /\ \A i \in 1 .. Len(ss) : g[i] = g[i - 1] \o ss[i]

\* FlattenSeq is the last of them.
LEMMA FlattenJoins ==
    ASSUME NEW V, NEW ss \in Seq(Seq(V))
    PROVE  \E g : Joins(g, V, ss) /\ FlattenSeq(ss) = g[Len(ss)]
  <1> DEFINE n == Len(ss)
             step == [a \in Seq(V) \X (1 .. n) |-> a[1] \o ss[a[2]]]
             rule(h) == [i \in 1 .. n |-> IF i = 1 THEN ss[i] ELSE h[i - 1] \o ss[i]]
             flatten == CHOOSE h : h = rule(h)
  <1>1. n \in Nat /\ \A i \in 1 .. n : ss[i] \in Seq(V)  OBVIOUS
  <1>2. step \in Steps(Seq(V), n)
    <2>1. \A a \in Seq(V) \X (1 .. n) : a[1] \o ss[a[2]] \in Seq(V)
      <3> SUFFICES ASSUME NEW a \in Seq(V) \X (1 .. n)
                   PROVE  a[1] \o ss[a[2]] \in Seq(V)
        OBVIOUS
      <3>1. a[1] \in Seq(V) /\ ss[a[2]] \in Seq(V)  BY <1>1
      <3>2. QED  BY <3>1
    <2>2. QED  BY <2>1 DEF Steps
  <1>3. <<>> \in Seq(V)  OBVIOUS
  <1>3a. n # 0 => FlattenSeq(ss) = flatten[n]
    BY DEF FlattenSeq
  <1> HIDE DEF n, step, flatten
  <1>4. PICK g : Computes(g, Seq(V), <<>>, n, step)
    BY <1>1, <1>2, <1>3, RecursiveFunction
  <1>5. g \in [0 .. n -> Seq(V)] /\ g[0] = <<>>
    BY <1>4 DEF Computes
  <1>6. ASSUME NEW i \in 1 .. n PROVE g[i] = g[i - 1] \o ss[i]
    <2>1. i - 1 \in 0 .. n  BY <1>1
    <2>2. <<g[i - 1], i>> \in Seq(V) \X (1 .. n)  BY <1>5, <2>1
    <2>3. g[i] = step[<<g[i - 1], i>>]  BY <1>4 DEF Computes
    <2>4. QED  BY <2>2, <2>3 DEF step
  <1>7. Joins(g, V, ss)
    BY <1>5, <1>6 DEF Joins, n
  <1> DEFINE f == [i \in 1 .. n |-> g[i]]
  <1>8. f = rule(f)
    <2> SUFFICES ASSUME NEW i \in 1 .. n
                 PROVE  g[i] = IF i = 1 THEN ss[i] ELSE f[i - 1] \o ss[i]
      OBVIOUS
    <2>1. CASE i = 1
      <3>1. ss[1] \in Seq(V) /\ g[1] = g[0] \o ss[1]
        <4>1. 1 - 1 = 0 /\ 1 \in 1 .. n  BY <2>1
        <4>2. QED  BY <1>1, <1>6, <4>1
      <3>2. <<>> \o ss[1] = ss[1]  BY <3>1
      <3>3. QED  BY <1>5, <2>1, <3>1, <3>2
    <2>2. CASE i # 1
      <3>1. i - 1 \in 1 .. n  BY <1>1, <2>2
      <3>2. f[i - 1] = g[i - 1]  BY <3>1
      <3> HIDE DEF f
      <3>3. QED  BY <1>6, <2>2, <3>2
    <2>3. QED  BY <2>1, <2>2
  <1>10. flatten = rule(flatten)
    <2> HIDE DEF f, rule
    <2>1. QED  BY <1>8 DEF flatten
  <1>11. \A i \in 1 .. n : flatten[i] = IF i = 1 THEN ss[i] ELSE flatten[i - 1] \o ss[i]
    BY <1>10
  <1>12. \A i \in 1 .. n : flatten[i] = g[i]
    <2> DEFINE h == [i \in 0 .. n |-> IF i = 0 THEN <<>> ELSE flatten[i]]
    <2>1. h[0] = <<>> /\ \A i \in 1 .. n : h[i] = flatten[i]
      BY <1>1
    <2>2. ASSUME NEW i \in 1 .. n, h[i - 1] = g[i - 1] PROVE h[i] = g[i]
      <3>1. CASE i = 1
        <4>1. ss[1] \in Seq(V) /\ g[1] = g[0] \o ss[1]
          <5>1. 1 - 1 = 0 /\ 1 \in 1 .. n  BY <3>1
          <5>2. QED  BY <1>1, <1>6, <5>1
        <4>2. <<>> \o ss[1] = ss[1]  BY <4>1
        <4>3. h[1] = ss[1]  BY <1>11, <2>1, <3>1
        <4>4. QED  BY <1>5, <3>1, <4>1, <4>2, <4>3
      <3>2. CASE i # 1
        <4>1. i - 1 \in 1 .. n  BY <1>1, <3>2
        <4>2. h[i] = flatten[i - 1] \o ss[i] /\ h[i - 1] = flatten[i - 1]
          BY <1>11, <2>1, <3>2, <4>1
        <4>3. QED  BY <1>6, <2>2, <4>2
      <3>3. QED  BY <3>1, <3>2
    <2> HIDE DEF h
    <2>3. Alike(h, g, n)  BY <1>5, <2>1, <2>2 DEF Alike
    <2>4. \A i \in 0 .. n : h[i] = g[i]  BY <1>1, <2>3, SameSteps
    <2>5. \A i \in 1 .. n : i \in 0 .. n  BY <1>1
    <2>6. QED  BY <2>1, <2>4, <2>5
  <1>13. FlattenSeq(ss) = g[n]
    <2>1. CASE n = 0
      <3>1. ss = <<>>  BY <2>1 DEF n
      <3>2. FlattenSeq(ss) = <<>>  BY <3>1 DEF FlattenSeq
      <3>3. QED  BY <1>5, <2>1, <3>2
    <2>2. CASE n # 0
      <3>1. n \in 1 .. n  BY <1>1, <2>2
      <3>2. QED  BY <1>12, <1>3a, <2>2, <3>1
    <2>3. QED  BY <2>1, <2>2
  <1>14. QED  BY <1>7, <1>13 DEF n

\* Joining one more sequence.
LEMMA FlattenAppend ==
    ASSUME NEW V, NEW ss \in Seq(Seq(V)), NEW x \in Seq(V)
    PROVE  /\ FlattenSeq(ss) \in Seq(V)
           /\ FlattenSeq(Append(ss, x)) = FlattenSeq(ss) \o x
  <1> DEFINE n == Len(ss)
             tt == Append(ss, x)
  <1>1. /\ n \in Nat /\ tt \in Seq(Seq(V)) /\ Len(tt) = n + 1 /\ tt[n + 1] = x
        /\ \A i \in 1 .. n : tt[i] = ss[i]
    OBVIOUS
  <1>2. PICK g : Joins(g, V, ss) /\ FlattenSeq(ss) = g[Len(ss)]
    BY FlattenJoins
  <1> HIDE DEF tt
  <1>3. PICK h : Joins(h, V, tt) /\ FlattenSeq(tt) = h[Len(tt)]
    BY <1>1, FlattenJoins
  <1>4. g \in [0 .. n -> Seq(V)] /\ g[0] = <<>> /\ h[0] = <<>>
    BY <1>2, <1>3 DEF Joins
  <1>5. \A i \in 1 .. n : g[i] = g[i - 1] \o ss[i]
    BY <1>2 DEF Joins
  <1>6. \A i \in 1 .. n + 1 : h[i] = h[i - 1] \o tt[i]
    BY <1>1, <1>3 DEF Joins
  <1>7. FlattenSeq(ss) = g[n] /\ FlattenSeq(tt) = h[n + 1]
    BY <1>1, <1>2, <1>3
  <1> HIDE DEF n
  <1>8. ASSUME NEW i \in 1 .. n, h[i - 1] = g[i - 1] PROVE h[i] = g[i]
    <2>1. i \in 1 .. n + 1 /\ tt[i] = ss[i]  BY <1>1
    <2>2. QED  BY <1>5, <1>6, <1>8, <2>1
  <1>9. Alike(h, g, n)  BY <1>4, <1>8 DEF Alike
  <1>10. n \in 0 .. n /\ n + 1 \in 1 .. n + 1 /\ n + 1 - 1 = n
    BY <1>1
  <1>11. h[n] = g[n]  BY <1>1, <1>9, <1>10, SameSteps
  <1>12. h[n + 1] = g[n] \o x
    <2> DEFINE m == n + 1
    <2>1. m \in 1 .. m /\ m - 1 = n  BY <1>1
    <2>2. \A i \in 1 .. m : h[i] = h[i - 1] \o tt[i]  BY <1>6
    <2>3. tt[m] = x  BY <1>1
    <2> HIDE DEF m
    <2>4. h[m] = h[n] \o x  BY <2>1, <2>2, <2>3
    <2>5. QED  BY <1>11, <2>4 DEF m
  <1>13. QED  BY <1>4, <1>7, <1>10, <1>12 DEF tt

\* The scopes and the nodes of one more frame.
LEMMA FramesAppend ==
    ASSUME NEW fs \in Seq(Frame), NEW f \in Frame
    PROVE  /\ ScopesIn(fs) \in Seq(Nat) /\ NodesIn(fs) \in Seq(NodeClass)
           /\ ScopeOf(f) \in Seq(Nat) /\ NodesOf(f) \in Seq(NodeClass)
           /\ ScopesIn(Append(fs, f)) = ScopesIn(fs) \o ScopeOf(f)
           /\ NodesIn(Append(fs, f)) = NodesIn(fs) \o NodesOf(f)
  <1> DEFINE ss(s) == [i \in DOMAIN s |-> ScopeOf(s[i])]
             nn(s) == [i \in DOMAIN s |-> NodesOf(s[i])]
             t == Append(fs, f)
  <1>1. \A g \in Frame : ScopeOf(g) \in Seq(Nat)
    <2> SUFFICES ASSUME NEW g \in Frame PROVE ScopeOf(g) \in Seq(Nat)
      OBVIOUS
    <2>1. g.scope \in Nat  BY DEF Frame
    <2>2. <<>> \in Seq(Nat) /\ <<g.scope>> \in Seq(Nat)  BY <2>1
    <2>3. QED  BY <2>2 DEF ScopeOf
  <1>2. \A g \in Frame : NodesOf(g) \in Seq(NodeClass)
    <2> SUFFICES ASSUME NEW g \in Frame PROVE NodesOf(g) \in Seq(NodeClass)
      OBVIOUS
    <2>1. g.kind \in Controls \cup {"extern", "params", "body", "block"}  BY DEF Frame
    <2>2. "stmt" \in NodeClass /\ "block" \in NodeClass /\ "func" \in NodeClass
      BY DEF NodeClass
    <2> HIDE DEF NodeClass
    <2>3. <<"stmt">> \in Seq(NodeClass) /\ <<"block">> \in Seq(NodeClass)
          /\ <<"func">> \in Seq(NodeClass) /\ <<"func", "block">> \in Seq(NodeClass)
      BY <2>2
    <2>4. QED  BY <2>1, <2>3 DEF NodesOf, Controls
  <1>3. /\ DOMAIN fs = 1 .. Len(fs) /\ Len(fs) \in Nat /\ \A i \in 1 .. Len(fs) : fs[i] \in Frame
        /\ t \in Seq(Frame) /\ DOMAIN t = 1 .. Len(fs) + 1 /\ t[Len(fs) + 1] = f
        /\ \A i \in 1 .. Len(fs) : t[i] = fs[i]
    BY DEF t
  <1> HIDE DEF t
  <1>4. ss(fs) \in Seq(Seq(Nat)) /\ Len(ss(fs)) = Len(fs)
    BY <1>1, <1>3
  <1>5. nn(fs) \in Seq(Seq(NodeClass)) /\ Len(nn(fs)) = Len(fs)
    BY <1>2, <1>3
  <1>6. ss(t) = Append(ss(fs), ScopeOf(f))
    <2> DEFINE a == Append(ss(fs), ScopeOf(f))
    <2>1. /\ DOMAIN a = 1 .. Len(fs) + 1 /\ a[Len(fs) + 1] = ScopeOf(f)
          /\ \A i \in 1 .. Len(fs) : a[i] = ss(fs)[i]
          /\ a \in Seq(Seq(Nat))
      BY <1>1, <1>4
    <2> HIDE DEF a
    <2>2. \A i \in 1 .. Len(fs) : a[i] = ScopeOf(fs[i])
      BY <1>3, <2>1
    <2>3. \A i \in 1 .. Len(fs) + 1 : a[i] = ss(t)[i]
      <3>1. \A i \in 1 .. Len(fs) + 1 : i \in 1 .. Len(fs) \/ i = Len(fs) + 1
        BY <1>3
      <3>2. \A i \in 1 .. Len(fs) + 1 : ss(t)[i] = ScopeOf(t[i])  BY <1>3
      <3> HIDE DEF ss
      <3>3. QED  BY <1>3, <2>1, <2>2, <3>1, <3>2
    <2>4. a = [i \in 1 .. Len(fs) + 1 |-> a[i]]  BY <2>1
    <2>5. ss(t) = [i \in 1 .. Len(fs) + 1 |-> ScopeOf(t[i])]  BY <1>3
    <2>6. a = ss(t)  BY <2>3, <2>4, <2>5
    <2>7. QED  BY <2>6 DEF a
  <1>7. nn(t) = Append(nn(fs), NodesOf(f))
    <2> DEFINE a == Append(nn(fs), NodesOf(f))
    <2>1. /\ DOMAIN a = 1 .. Len(fs) + 1 /\ a[Len(fs) + 1] = NodesOf(f)
          /\ \A i \in 1 .. Len(fs) : a[i] = nn(fs)[i]
          /\ a \in Seq(Seq(NodeClass))
      BY <1>2, <1>5
    <2> HIDE DEF a
    <2>2. \A i \in 1 .. Len(fs) : a[i] = NodesOf(fs[i])
      BY <1>3, <2>1
    <2>3. \A i \in 1 .. Len(fs) + 1 : a[i] = nn(t)[i]
      <3>1. \A i \in 1 .. Len(fs) + 1 : i \in 1 .. Len(fs) \/ i = Len(fs) + 1
        BY <1>3
      <3>2. \A i \in 1 .. Len(fs) + 1 : nn(t)[i] = NodesOf(t[i])  BY <1>3
      <3> HIDE DEF nn
      <3>3. QED  BY <1>3, <2>1, <2>2, <3>1, <3>2
    <2>4. a = [i \in 1 .. Len(fs) + 1 |-> a[i]]  BY <2>1
    <2>5. nn(t) = [i \in 1 .. Len(fs) + 1 |-> NodesOf(t[i])]  BY <1>3
    <2>6. a = nn(t)  BY <2>3, <2>4, <2>5
    <2>7. QED  BY <2>6 DEF a
  <1>8. ScopesIn(fs) = FlattenSeq(ss(fs)) /\ ScopesIn(t) = FlattenSeq(ss(t))
        /\ NodesIn(fs) = FlattenSeq(nn(fs)) /\ NodesIn(t) = FlattenSeq(nn(t))
    BY DEF ScopesIn, NodesIn
  <1> HIDE DEF ss, nn
  <1>9. ScopeOf(f) \in Seq(Nat) /\ NodesOf(f) \in Seq(NodeClass)
    BY <1>1, <1>2
  <1>10. ScopesIn(fs) \in Seq(Nat) /\ ScopesIn(t) = ScopesIn(fs) \o ScopeOf(f)
    BY <1>4, <1>6, <1>8, <1>9, FlattenAppend
  <1>11. NodesIn(fs) \in Seq(NodeClass) /\ NodesIn(t) = NodesIn(fs) \o NodesOf(f)
    BY <1>5, <1>7, <1>8, <1>9, FlattenAppend
  <1>12. QED  BY <1>9, <1>10, <1>11 DEF t

\* Without frames there are none.
LEMMA NoFrames == ScopesIn(<<>>) = <<>> /\ NodesIn(<<>>) = <<>>
  <1>1. [i \in DOMAIN <<>> |-> ScopeOf(<<>>[i])] = <<>>
        /\ [i \in DOMAIN <<>> |-> NodesOf(<<>>[i])] = <<>>
    OBVIOUS
  <1>2. FlattenSeq(<<>>) = <<>>  BY DEF FlattenSeq
  <1>3. QED  BY <1>1, <1>2 DEF ScopesIn, NodesIn

\* The first k elements of a sequence.
LEMMA PrefixFacts ==
    ASSUME NEW V, NEW s \in Seq(V), NEW k \in 0 .. Len(s)
    PROVE  /\ SubSeq(s, 1, k) \in Seq(V) /\ Len(SubSeq(s, 1, k)) = k
           /\ \A i \in 1 .. k : SubSeq(s, 1, k)[i] = s[i]
  <1>1. 1 \in Int /\ k \in Int /\ k - 1 + 1 = k /\ \A i \in 1 .. k : 1 + i - 1 = i
    OBVIOUS
  <1>2. \A i \in 1 .. k : s[i] \in V  OBVIOUS
  <1>3. /\ SubSeq(s, 1, k) \in Seq(V)
        /\ Len(SubSeq(s, 1, k)) = IF 1 <= k THEN k - 1 + 1 ELSE 0
        /\ \A i \in 1 .. k - 1 + 1 : SubSeq(s, 1, k)[i] = s[1 + i - 1]
    BY <1>1, <1>2, SubSeqProperties
  <1>4. Len(SubSeq(s, 1, k)) = k  BY <1>3
  <1>5. QED  BY <1>1, <1>3, <1>4

\* A sequence that is not empty is its front and its last element.
LEMMA FrontLast ==
    ASSUME NEW V, NEW s \in Seq(V), s # <<>>
    PROVE  /\ Front(s) \in Seq(V) /\ Last(s) \in V /\ s = Append(Front(s), Last(s))
           /\ Len(s) \in Nat \ {0} /\ Len(Front(s)) = Len(s) - 1
           /\ \A i \in 1 .. Len(s) - 1 : Front(s)[i] = s[i]
  <1>1. Len(s) \in Nat \ {0} /\ \A i \in 1 .. Len(s) : s[i] \in V  OBVIOUS
  <1>2. /\ SubSeq(s, 1, Len(s) - 1) \in Seq(V) /\ Len(SubSeq(s, 1, Len(s) - 1)) = Len(s) - 1
        /\ \A i \in 1 .. Len(s) - 1 : SubSeq(s, 1, Len(s) - 1)[i] = s[i]
    <2>1. Len(s) - 1 \in 0 .. Len(s)  BY <1>1
    <2>2. QED  BY <2>1, PrefixFacts
  <1>3. Last(s) = s[Len(s)] /\ Front(s) = SubSeq(s, 1, Len(s) - 1)  BY DEF Front, Last
  <1>4. Last(s) \in V  BY <1>1, <1>3
  <1>5. s = Append(Front(s), Last(s))
    <2> DEFINE a == Append(Front(s), Last(s))
    <2>1. /\ a \in Seq(V) /\ Len(a) = Len(s) - 1 + 1 /\ a[Len(s) - 1 + 1] = Last(s)
          /\ \A i \in 1 .. Len(s) - 1 : a[i] = Front(s)[i]
      BY <1>1, <1>2, <1>3, <1>4
    <2> HIDE DEF a
    <2>2. Len(a) = Len(s) /\ a[Len(s)] = Last(s)
      BY <1>1, <2>1
    <2>3. \A i \in 1 .. Len(s) : a[i] = s[i]
      <3>1. \A i \in 1 .. Len(s) : i \in 1 .. Len(s) - 1 \/ i = Len(s)  BY <1>1
      <3>2. QED  BY <1>2, <1>3, <2>1, <2>2, <3>1
    <2>4. a = s  BY <2>1, <2>2, <2>3
    <2>5. QED  BY <2>4 DEF a
  <1>6. QED  BY <1>1, <1>2, <1>3, <1>4, <1>5

\* The beginning of a concatenation.
LEMMA PrefixOfConcat ==
    ASSUME NEW V, NEW s \in Seq(V), NEW z \in Seq(V)
    PROVE  /\ SubSeq(s \o z, 1, Len(s)) = s /\ Len(s \o z) = Len(s) + Len(z)
           /\ Len(s) \in Nat /\ Len(z) \in Nat
  <1> DEFINE c == s \o z
             p == SubSeq(c, 1, Len(s))
  <1>1. /\ c \in Seq(V) /\ Len(c) = Len(s) + Len(z) /\ Len(s) \in Nat /\ Len(z) \in Nat
        /\ \A i \in 1 .. Len(s) : c[i] = s[i]
    OBVIOUS
  <1> HIDE DEF c
  <1>2. Len(s) \in 0 .. Len(c)  BY <1>1
  <1>3. p \in Seq(V) /\ Len(p) = Len(s) /\ \A i \in 1 .. Len(s) : p[i] = c[i]
    BY <1>1, <1>2, PrefixFacts
  <1> HIDE DEF p
  <1>4. p = s
    <2>1. \A i \in 1 .. Len(s) : p[i] = s[i]  BY <1>1, <1>3
    <2>2. QED  BY <1>3, <2>1
  <1>5. QED  BY <1>1, <1>4 DEF p, c

\* Control statements that wait at the end have no scopes, and one node each.
LEMMA PopControls ==
    ASSUME NEW fs \in Seq(Frame), NEW n \in 0 .. Len(fs),
           \A i \in Len(fs) - n + 1 .. Len(fs) : fs[i].kind \in Controls
    PROVE  /\ ScopesIn(SubSeq(fs, 1, Len(fs) - n)) = ScopesIn(fs)
           /\ \E z \in Seq(NodeClass) : 
                  /\ Len(z) = n 
                  /\ NodesIn(fs) = NodesIn(SubSeq(fs, 1, Len(fs) - n)) \o z
  <1> DEFINE L == Len(fs)
             Prefix(k) == SubSeq(fs, 1, k)
             Good(m) == /\ ScopesIn(Prefix(L - m)) = ScopesIn(fs)
                        /\ \E z \in Seq(NodeClass) : 
                               /\ Len(z) = m 
                               /\ NodesIn(fs) = NodesIn(Prefix(L - m)) \o z
             S == {m \in Nat : m <= n => Good(m)}
  <1>1. L \in Nat /\ n \in Nat /\ n <= L  OBVIOUS
  <1>2. Prefix(L) = fs  BY SubSeqFull
  <1>3. \A k \in 0 .. L : Prefix(k) \in Seq(Frame)  BY PrefixFacts
  <1>4. 0 \in S
    <2>1. L - 0 = L  BY <1>1
    <2>2. <<>> \in Seq(NodeClass) /\ Len(<<>>) = 0  OBVIOUS
    <2>3. NodesIn(fs) \in Seq(NodeClass)
      <3>1. [kind |-> "loop", scope |-> 0] \in Frame  BY DEF Frame, Controls
      <3>2. QED  BY <3>1, FramesAppend
    <2>4. NodesIn(fs) \o <<>> = NodesIn(fs)  BY <2>3, ConcatEmptySeq
    <2> HIDE DEF L, Prefix
    <2>5. NodesIn(fs) = NodesIn(Prefix(L - 0)) \o <<>>  BY <1>2, <2>1, <2>4
    <2>6. Good(0)  BY <1>2, <2>1, <2>2, <2>5
    <2>7. QED  BY <2>6
  <1>5. ASSUME NEW m \in Nat, m \in S PROVE m + 1 \in S
    <2> SUFFICES ASSUME m + 1 <= n PROVE Good(m + 1)
      OBVIOUS
    <2> DEFINE k == L - m
    <2>1. /\ k \in 1 .. L /\ k - 1 \in 0 .. L /\ L - (m + 1) = k - 1
          /\ k \in L - n + 1 .. L /\ 1 \in 1 .. L /\ k \in 1 .. Len(fs)
      BY <1>1
    <2>2. Good(m)  BY <1>5
    <2>3. fs[k] \in Frame /\ fs[k].kind \in Controls
      BY <2>1
    <2> HIDE DEF k
    <2>4. Prefix(k) = Append(Prefix(k - 1), fs[k])
      <3>1. Prefix(k) = Prefix(k - 1) \o <<fs[k]>>
        BY <2>1, SubSeqRecursiveSecond
      <3>2. Prefix(k - 1) \in Seq(Frame)  BY <1>3, <2>1
      <3> HIDE DEF Prefix
      <3>3. QED  BY <2>3, <3>1, <3>2
    <2>5. /\ ScopesIn(Prefix(k)) = ScopesIn(fs)
          /\ \E z \in Seq(NodeClass) : Len(z) = m /\ NodesIn(fs) = NodesIn(Prefix(k)) \o z
      BY <2>2 DEF k
    <2> HIDE DEF Prefix, L
    <2>6. PICK z \in Seq(NodeClass) : Len(z) = m /\ NodesIn(fs) = NodesIn(Prefix(k)) \o z
      BY <2>5
    <2>7. Prefix(k - 1) \in Seq(Frame)  BY <1>3, <2>1
    <2>8. ScopeOf(fs[k]) = <<>> /\ NodesOf(fs[k]) = <<"stmt">>
      BY <2>3 DEF ScopeOf, NodesOf, Controls
    <2> DEFINE p == Prefix(k - 1)
    <2>9. /\ ScopesIn(p) \in Seq(Nat) /\ NodesIn(p) \in Seq(NodeClass)
          /\ ScopesIn(Prefix(k)) = ScopesIn(p) \o <<>>
          /\ NodesIn(Prefix(k)) = NodesIn(p) \o <<"stmt">>
          /\ <<"stmt">> \in Seq(NodeClass)
      BY <2>3, <2>4, <2>7, <2>8, FramesAppend
    <2>10. ScopesIn(p) = ScopesIn(fs)
      BY <2>5, <2>9, ConcatEmptySeq
    <2> HIDE DEF p
    <2> DEFINE y == <<"stmt">> \o z
    <2>11. y \in Seq(NodeClass) /\ Len(y) = m + 1
      <3>1. Len(<<"stmt">>) = 1  OBVIOUS
      <3>2. Len(y) = 1 + m  BY <2>6, <2>9, <3>1, ConcatProperties
      <3>3. QED  BY <2>9, <3>2, ConcatProperties
    <2>12. NodesIn(fs) = NodesIn(p) \o y
      BY <2>6, <2>9, ConcatAssociative
    <2>13. Good(m + 1)
      <3>1. p = Prefix(L - (m + 1))  BY <2>1 DEF p
      <3> HIDE DEF y
      <3>2. QED  BY <2>10, <2>11, <2>12, <3>1
    <2>14. QED  BY <2>13
  <1>6. n \in S
    <2> HIDE DEF S
    <2>1. QED  BY <1>1, <1>4, <1>5, InductionOnSet
  <1>7. Good(n)
    <2> HIDE DEF Good
    <2>1. QED  BY <1>1, <1>6
  <1>8. QED  BY <1>7

-----------------------------------------------------------------------------
(* Looking names up through the imports.                                    *)

\* The rule of the recursion in FindIn, with the results g for the imports.
FoundAt(map, name, g, p) ==
    IF map[p][name] # None THEN map[p][name]
    ELSE FirstFound([i \in DOMAIN deps[p] |-> g[deps[p][i]]])
\* A set of programs with their imports, ...
Closed(S) == S \subseteq File /\ \A r \in S : ToSet(deps[r]) \subseteq S
\* ... and results for it that follow the rule.
Solves(g, S, map, name) ==
    g \in [S -> Nat] /\ \A p \in S : g[p] = FoundAt(map, name, g, p)
\* The tables of global names, and the imports of the programs.
Maps(Names) == [File -> [Names -> Nat]]
Deps == [File -> Seq(File)]

\* An import is one of the elements of the list.
LEMMA ImportsAre ==
    ASSUME deps \in Deps, NEW p \in File
    PROVE  /\ deps[p] \in Seq(File) /\ ToSet(deps[p]) \subseteq File
           /\ \A i \in DOMAIN deps[p] : deps[p][i] \in ToSet(deps[p])
           /\ \A d \in ToSet(deps[p]) : \E i \in DOMAIN deps[p] : d = deps[p][i]
  <1>1. deps[p] \in Seq(File)  BY DEF Deps
  <1>2. \A i \in DOMAIN deps[p] : deps[p][i] \in File  BY <1>1
  <1>3. QED  BY <1>1, <1>2 DEF ToSet

\* A result is a number, and depends on the results for the imports.
LEMMA RuleFacts ==
    ASSUME deps \in Deps, NEW Names, NEW map \in Maps(Names), NEW name \in Names,
           NEW p \in File, NEW g, \A d \in ToSet(deps[p]) : g[d] \in Nat
    PROVE  /\ FoundAt(map, name, g, p) \in Nat
           /\ FoundAt(map, name, g, p) = None =>
                  map[p][name] = None /\ \A d \in ToSet(deps[p]) : g[d] = None
           /\ FoundAt(map, name, g, p) # None /\ map[p][name] = None =>
                  \E d \in ToSet(deps[p]) : FoundAt(map, name, g, p) = g[d]
  <1> DEFINE s == [i \in DOMAIN deps[p] |-> g[deps[p][i]]]
  <1>1. map[p][name] \in Nat  BY DEF Maps
  <1>2. s \in Seq(Nat)
    <2>1. \A i \in DOMAIN deps[p] : g[deps[p][i]] \in Nat  BY ImportsAre
    <2>2. DOMAIN deps[p] = 1 .. Len(deps[p]) /\ Len(deps[p]) \in Nat  BY ImportsAre
    <2>3. QED  BY <2>1, <2>2
  <1>3. DOMAIN s = DOMAIN deps[p] /\ \A i \in DOMAIN s : s[i] = g[deps[p][i]]
    OBVIOUS
  <1>4. FoundAt(map, name, g, p) = IF map[p][name] # None THEN map[p][name] ELSE FirstFound(s)
    BY DEF FoundAt
  <1> HIDE DEF s
  <1>5. \/ FirstFound(s) = None /\ \A i \in DOMAIN s : s[i] = None
        \/ \E i \in DOMAIN s : FirstFound(s) = s[i] /\ s[i] # None
    BY <1>2, FirstFoundFacts
  <1>6. FirstFound(s) \in Nat
    <2>1. \A i \in DOMAIN s : s[i] \in Nat  BY <1>2
    <2>2. None \in Nat  BY DEF None
    <2>3. QED  BY <1>5, <2>1, <2>2
  <1>7. FirstFound(s) = None => \A d \in ToSet(deps[p]) : g[d] = None
    <2>1. FirstFound(s) = None => \A i \in DOMAIN s : s[i] = None  BY <1>5
    <2>2. ASSUME FirstFound(s) = None, NEW d \in ToSet(deps[p]) PROVE g[d] = None
      <3>1. PICK i \in DOMAIN deps[p] : d = deps[p][i]  BY ImportsAre
      <3>2. s[i] = g[d]  BY <1>3, <3>1
      <3>3. QED  BY <1>3, <2>1, <2>2, <3>2
    <2>3. QED  BY <2>2
  <1>8. FirstFound(s) # None => \E d \in ToSet(deps[p]) : FirstFound(s) = g[d]
    <2>1. FirstFound(s) # None => \E i \in DOMAIN s : FirstFound(s) = s[i]
      BY <1>5
    <2>2. QED  BY <1>3, <2>1, ImportsAre
  <1>9. QED  BY <1>1, <1>4, <1>6, <1>7, <1>8

\* ... and on nothing else.
LEMMA RuleAgrees ==
    ASSUME deps \in Deps, NEW map, NEW name, NEW p \in File, NEW g, NEW h,
           \A d \in ToSet(deps[p]) : g[d] = h[d]
    PROVE  FoundAt(map, name, g, p) = FoundAt(map, name, h, p)
  <1>1. \A i \in DOMAIN deps[p] : g[deps[p][i]] = h[deps[p][i]]
    BY ImportsAre
  <1>2. [i \in DOMAIN deps[p] |-> g[deps[p][i]]] = [i \in DOMAIN deps[p] |-> h[deps[p][i]]]
    BY <1>1
  <1>3. QED  BY <1>2 DEF FoundAt

\* Solutions agree where both are defined: take an innermost program where they differ.
LEMMA SolutionsAgree ==
    ASSUME deps \in Deps, Acyclic(deps), NEW map, NEW name, NEW S, NEW T, NEW g, NEW h,
           Closed(S), Closed(T), Solves(g, S, map, name), Solves(h, T, map, name)
    PROVE  \A p \in S \cap T : g[p] = h[p]
  <1> DEFINE C == {p \in S \cap T : g[p] # h[p]}
  <1> SUFFICES ASSUME C # {} PROVE FALSE
    OBVIOUS
  <1>1. C \in (SUBSET File) \ {{}}  BY DEF Closed
  <1>2. PICK f \in C : \A d \in C : d \notin ToSet(deps[f])
    <2> HIDE DEF C
    <2>1. QED  BY <1>1 DEF Acyclic
  <1>3. f \in File /\ f \in S /\ f \in T  BY <1>1
  <1>4. \A d \in ToSet(deps[f]) : g[d] = h[d]
    <2>1. \A d \in ToSet(deps[f]) : d \in S \cap T  BY <1>3 DEF Closed
    <2>2. QED  BY <1>2, <2>1
  <1>5. FoundAt(map, name, g, f) = FoundAt(map, name, h, f)
    <2> HIDE DEF C
    <2>1. QED  BY <1>3, <1>4, RuleAgrees
  <1>6. QED  BY <1>3, <1>5 DEF Solves

\* A solution for a closed set exists for all programs: all programs with a closed
\* set around them that has a solution are such a set; take an innermost other one.
LEMMA SolutionExists ==
    ASSUME deps \in Deps, Acyclic(deps), NEW Names, NEW map \in Maps(Names), NEW name \in Names
    PROVE  \E g : Solves(g, File, map, name)
  <1> DEFINE Local(p, S, g) == p \in S /\ Closed(S) /\ Solves(g, S, map, name)
             U == {p \in File : \E S, g : Local(p, S, g)}
             V(p) == CHOOSE v : \E S, g : Local(p, S, g) /\ v = g[p]
             h == [p \in U |-> V(p)]
  <1>1. ASSUME NEW p, NEW S, NEW g, Local(p, S, g)
        PROVE  p \in U /\ S \subseteq U /\ V(p) = g[p]
    <2>1. S \subseteq File  BY <1>1 DEF Closed
    <2>2. p \in U  BY <1>1, <2>1
    <2>3. S \subseteq U  BY <1>1, <2>1
    <2>4. \E v : \E R, f : Local(p, R, f) /\ v = f[p]  BY <1>1
    <2>5. PICK R, f : Local(p, R, f) /\ V(p) = f[p]
      <3> HIDE DEF Local
      <3>1. QED  BY <2>4
    <2> HIDE DEF V
    <2>6. f[p] = g[p]  BY <1>1, <2>5, SolutionsAgree
    <2>7. QED  BY <2>2, <2>3, <2>5, <2>6
  <1>2. ASSUME NEW p, NEW S, NEW g, Local(p, S, g)
        PROVE  h[p] = g[p] /\ \A d \in ToSet(deps[p]) : d \in U /\ h[d] = g[d]
    <2>1. p \in U /\ V(p) = g[p]
      <3> HIDE DEF Local, U, V
      <3>1. QED  BY <1>1, <1>2
    <2>2. h[p] = g[p]
      <3> HIDE DEF U, V
      <3>1. QED  BY <2>1
    <2>3. ASSUME NEW d \in ToSet(deps[p]) PROVE d \in U /\ h[d] = g[d]
      <3>1. Local(d, S, g)  BY <1>2, <2>3 DEF Closed
      <3> HIDE DEF Local, U, V
      <3>2. d \in U /\ V(d) = g[d]  BY <1>1, <3>1
      <3>3. QED  BY <3>2
    <2>4. QED
      <3> HIDE DEF h, U
      <3>1. QED  BY <2>2, <2>3
  <1>3. Closed(U)
    <2>1. ASSUME NEW p \in U PROVE ToSet(deps[p]) \subseteq U
      <3>1. PICK S, g : Local(p, S, g)  OBVIOUS
      <3> HIDE DEF Local, U, h
      <3>2. QED  BY <1>2, <3>1
    <2>2. U \subseteq File  OBVIOUS
    <2>3. QED
      <3> HIDE DEF U
      <3>1. QED  BY <2>1, <2>2 DEF Closed
  <1>4. Solves(h, U, map, name)
    <2>1. ASSUME NEW p \in U PROVE h[p] \in Nat /\ h[p] = FoundAt(map, name, h, p)
      <3>1. PICK S, g : Local(p, S, g)  OBVIOUS
      <3>2. g[p] \in Nat /\ g[p] = FoundAt(map, name, g, p)  BY <3>1 DEF Solves
      <3>3. p \in File  OBVIOUS
      <3> HIDE DEF Local, U, h
      <3>4. h[p] = g[p] /\ \A d \in ToSet(deps[p]) : g[d] = h[d]  BY <1>2, <3>1
      <3>5. FoundAt(map, name, g, p) = FoundAt(map, name, h, p)
        BY <3>3, <3>4, RuleAgrees
      <3>6. QED  BY <3>2, <3>4, <3>5
    <2>2. h = [p \in U |-> h[p]]
      <3> HIDE DEF U, V
      <3>1. QED  OBVIOUS
    <2> HIDE DEF h, U
    <2>3. QED  BY <2>1, <2>2 DEF Solves
  <1>5. U = File
    <2> SUFFICES ASSUME U # File PROVE FALSE
      OBVIOUS
    <2> DEFINE C == File \ U
    <2>1. C \in (SUBSET File) \ {{}}
      <3>1. U \subseteq File  OBVIOUS
      <3> HIDE DEF U
      <3>2. QED  BY <3>1
    <2>2. PICK p \in C : \A d \in C : d \notin ToSet(deps[p])
      <3> HIDE DEF C
      <3>1. QED  BY <2>1 DEF Acyclic
    <2>3. p \in File /\ p \notin U  OBVIOUS
    <2> HIDE DEF h, U
    <2>4. ToSet(deps[p]) \subseteq U
      <3>1. ToSet(deps[p]) \subseteq File  BY <2>3, ImportsAre
      <3>2. QED  BY <2>2, <3>1
    <2> DEFINE W == U \cup {p}
               k == [q \in W |-> IF q = p THEN FoundAt(map, name, h, p) ELSE h[q]]
    <2>5. Closed(W)
      <3>1. \A q \in W : ToSet(deps[q]) \subseteq W  BY <1>3, <2>4 DEF Closed
      <3>2. W \subseteq File  BY <1>3, <2>3 DEF Closed
      <3>3. QED  BY <3>1, <3>2 DEF Closed
    <2>6. \A q \in U : h[q] \in Nat  BY <1>4 DEF Solves
    <2>7. FoundAt(map, name, h, p) \in Nat
      <3>1. \A d \in ToSet(deps[p]) : h[d] \in Nat  BY <2>4, <2>6
      <3>2. QED  BY <2>3, <3>1, RuleFacts
    <2>8. k \in [W -> Nat]  BY <2>6, <2>7
    <2>9. \A q \in U : k[q] = h[q]  BY <2>3
    <2>10. k[p] = FoundAt(map, name, h, p)  OBVIOUS
    <2> HIDE DEF k
    <2>11. ASSUME NEW q \in W PROVE k[q] = FoundAt(map, name, k, q)
      <3>1. q \in File  BY <2>5 DEF Closed
      <3>2. ToSet(deps[q]) \subseteq U
        <4>1. CASE q = p  BY <2>4, <4>1
        <4>2. CASE q # p  BY <1>3, <4>2 DEF Closed
        <4>3. QED  BY <4>1, <4>2
      <3>3. \A d \in ToSet(deps[q]) : k[d] = h[d]  BY <2>9, <3>2
      <3>4. FoundAt(map, name, k, q) = FoundAt(map, name, h, q)
        BY <3>1, <3>3, RuleAgrees
      <3>5. k[q] = FoundAt(map, name, h, q)
        <4>1. CASE q = p  BY <2>10, <4>1
        <4>2. CASE q # p  BY <1>4, <2>9, <4>2 DEF Solves
        <4>3. QED  BY <4>1, <4>2
      <3>6. QED  BY <3>4, <3>5
    <2> HIDE DEF W
    <2>12. Solves(k, W, map, name)  BY <2>8, <2>11 DEF Solves
    <2>13. p \in W  BY DEF W
    <2>14. p \in U
      <3>1. Local(p, W, k)  BY <2>5, <2>12, <2>13
      <3> HIDE DEF Local
      <3>2. QED  BY <2>3, <3>1 DEF U
    <2>15. QED  BY <2>3, <2>14
  <1>6. QED  BY <1>4, <1>5

\* FindIn satisfies its equation.
LEMMA FindInSolves ==
    ASSUME deps \in Deps, Acyclic(deps), NEW Names, NEW map \in Maps(Names), NEW name \in Names
    PROVE  Solves(FindIn(map, name), File, map, name)
  <1> DEFINE Rule(g) == [p \in File |->
                             IF map[p][name] # None THEN map[p][name]
                             ELSE FirstFound([i \in DOMAIN deps[p] |-> g[deps[p][i]]])]
             find == CHOOSE g : g = Rule(g)
  <1>1. FindIn(map, name) = find  BY DEF FindIn
  <1>2. ASSUME NEW g PROVE Rule(g) = [p \in File |-> FoundAt(map, name, g, p)]
    BY DEF FoundAt
  <1> HIDE DEF Rule
  <1>3. PICK h : Solves(h, File, map, name)  BY SolutionExists
  <1>4. h = Rule(h)
    <2>1. h = [p \in File |-> h[p]] /\ \A p \in File : h[p] = FoundAt(map, name, h, p)
      BY <1>3 DEF Solves
    <2>2. h = [p \in File |-> FoundAt(map, name, h, p)]  BY <2>1
    <2>3. QED  BY <1>2, <2>2
  <1>5. find = Rule(find)  BY <1>4
  <1> HIDE DEF find
  <1>6. find = [p \in File |-> FoundAt(map, name, find, p)]  BY <1>2, <1>5
  <1>7. \A p \in File : find[p] = FoundAt(map, name, find, p)
    <2> DEFINE F(p) == FoundAt(map, name, find, p)
    <2>1. find = [p \in File |-> F(p)]  BY <1>6
    <2> HIDE DEF F
    <2>2. \A p \in File : find[p] = F(p)  BY <2>1
    <2>3. QED  BY <2>2 DEF F
  <1>8. \A p \in File : find[p] \in Nat
    <2> DEFINE C == {p \in File : find[p] \notin Nat}
    <2> SUFFICES ASSUME C # {} PROVE FALSE
      OBVIOUS
    <2>1. C \in (SUBSET File) \ {{}}  OBVIOUS
    <2>2. PICK f \in C : \A d \in C : d \notin ToSet(deps[f])
      <3> HIDE DEF C
      <3>1. QED  BY <2>1 DEF Acyclic
    <2>3. f \in File /\ find[f] \notin Nat  OBVIOUS
    <2>4. \A d \in ToSet(deps[f]) : find[d] \in Nat
      <3>1. ToSet(deps[f]) \subseteq File  BY <2>3, ImportsAre
      <3>2. QED  BY <2>2, <3>1
    <2>5. FoundAt(map, name, find, f) \in Nat  BY <2>3, <2>4, RuleFacts
    <2>6. QED  BY <1>7, <2>3, <2>5
  <1>9. find = [p \in File |-> find[p]]
    <2> DEFINE F(p) == FoundAt(map, name, find, p)
    <2>1. find = [p \in File |-> F(p)]  BY <1>6
    <2> HIDE DEF F
    <2>2. QED  BY <2>1
  <1>10. find \in [File -> Nat]
    BY <1>8, <1>9
  <1>11. QED  BY <1>1, <1>7, <1>10 DEF Solves

\* A program sees itself and what its imports see.
LEMMA VisibleFacts ==
    ASSUME deps \in Deps, NEW p \in File
    PROVE  /\ Visible(p) \subseteq File /\ p \in Visible(p)
           /\ \A d \in ToSet(deps[p]) : Visible(d) \subseteq Visible(p)
           /\ \A S \in SUBSET File : p \in S /\ (\A r \in S : ToSet(deps[r]) \subseteq S)
                                     => Visible(p) \subseteq S
  <1>1. Visible(p) \subseteq File /\ p \in Visible(p)  BY DEF Visible
  <1>2. ASSUME NEW d \in ToSet(deps[p]), NEW q \in Visible(d) PROVE q \in Visible(p)
    <2>1. q \in File  BY <1>2 DEF Visible
    <2>2. ASSUME NEW S \in SUBSET File, p \in S, \A r \in S : ToSet(deps[r]) \subseteq S
          PROVE  q \in S
      <3>1. d \in S  BY <1>2, <2>2
      <3>2. QED  BY <1>2, <2>2, <3>1 DEF Visible
    <2>3. QED  BY <2>1, <2>2 DEF Visible
  <1>3. ASSUME NEW S \in SUBSET File, p \in S, \A r \in S : ToSet(deps[r]) \subseteq S
        PROVE  Visible(p) \subseteq S
    BY <1>3 DEF Visible
  <1>4. QED  BY <1>1, <1>2, <1>3

\* What is found is an entry of a table that the program sees, and what is not found
\* is in none of them.
LEMMA FindInFacts ==
    ASSUME deps \in Deps, Acyclic(deps), NEW Names, NEW map \in Maps(Names), NEW name \in Names,
           NEW p \in File
    PROVE  /\ FindIn(map, name)[p] \in Nat
           /\ FindIn(map, name)[p] = None <=> \A q \in Visible(p) : map[q][name] = None
           /\ FindIn(map, name)[p] # None =>
                  \E q \in Visible(p) : FindIn(map, name)[p] = map[q][name]
  <1> DEFINE find == FindIn(map, name)
  <1>1. Solves(find, File, map, name)  BY FindInSolves
  <1> HIDE DEF find
  <1>2. \A q \in File : find[q] \in Nat /\ find[q] = FoundAt(map, name, find, q)
    BY <1>1 DEF Solves
  <1>3. ASSUME NEW q \in File
        PROVE  /\ find[q] = None =>
                      map[q][name] = None /\ \A d \in ToSet(deps[q]) : find[d] = None
               /\ find[q] # None /\ map[q][name] = None =>
                      \E d \in ToSet(deps[q]) : find[q] = find[d]
    <2>1. \A d \in ToSet(deps[q]) : find[d] \in Nat  BY <1>2, ImportsAre
    <2>2. find[q] = FoundAt(map, name, find, q)  BY <1>2
    <2>3. QED  BY <2>1, <2>2, RuleFacts
  <1>4. ASSUME find[p] = None PROVE \A q \in Visible(p) : map[q][name] = None
    <2> DEFINE S == {q \in File : find[q] = None}
    <2>1. S \in SUBSET File /\ p \in S  BY <1>4
    <2>2. \A r \in S : ToSet(deps[r]) \subseteq S
      <3> SUFFICES ASSUME NEW r \in S, NEW d \in ToSet(deps[r]) PROVE d \in S
        OBVIOUS
      <3>1. r \in File /\ find[r] = None  OBVIOUS
      <3>2. find[d] = None  BY <1>3, <3>1
      <3>3. d \in File  BY <3>1, ImportsAre
      <3>4. QED  BY <3>2, <3>3
    <2>3. Visible(p) \subseteq S
      <3> HIDE DEF S
      <3>1. QED  BY <2>1, <2>2, VisibleFacts
    <2>4. QED  BY <1>3, <2>3
  <1> DEFINE Bad == {q \in File : find[q] # None /\ \A r \in Visible(q) : find[q] # map[r][name]}
  <1>5. Bad = {}
    <2> SUFFICES ASSUME Bad # {} PROVE FALSE
      OBVIOUS
    <2>1. Bad \in (SUBSET File) \ {{}}  OBVIOUS
    <2>2. PICK f \in Bad : \A d \in Bad : d \notin ToSet(deps[f])
      <3> HIDE DEF Bad
      <3>1. QED  BY <2>1 DEF Acyclic
    <2>3. f \in File /\ find[f] # None /\ \A r \in Visible(f) : find[f] # map[r][name]
      OBVIOUS
    <2>4. map[f][name] = None
      <3>1. f \in Visible(f)  BY <2>3, VisibleFacts
      <3>2. find[f] # map[f][name]  BY <2>3, <3>1
      <3>3. map[f][name] # None => find[f] = map[f][name]
        BY <1>2, <2>3 DEF FoundAt
      <3>4. QED  BY <3>2, <3>3
    <2>5. PICK d \in ToSet(deps[f]) : find[f] = find[d]  BY <1>3, <2>3, <2>4
    <2>6. d \in File  BY <2>3, ImportsAre
    <2>7. d \notin Bad  BY <2>2
    <2>8. \E r \in Visible(d) : find[d] = map[r][name]
      BY <2>3, <2>5, <2>6, <2>7
    <2>9. Visible(d) \subseteq Visible(f)  BY <2>3, VisibleFacts
    <2>10. QED  BY <2>3, <2>5, <2>8, <2>9
  <1>6. find[p] # None => \E q \in Visible(p) : find[p] = map[q][name]
    BY <1>5
  <1>7. find[p] \in Nat  BY <1>2
  <1> HIDE DEF Bad
  <1>8. find[p] = None <=> \A q \in Visible(p) : map[q][name] = None
    BY <1>4, <1>6
  <1>9. QED  BY <1>6, <1>7, <1>8 DEF find

-----------------------------------------------------------------------------
(* Scopes and their tables.                                                 *)

\* A name's declarations in a scope, as positions in a sequence of declarations.
DeclaredIn(decls, x, scope) ==
    {d \in DOMAIN decls : decls[d].name = x /\ decls[d].scope = scope}
\* The tables of a sequence of scopes.
TablesOf(S, decls) ==
    [i \in DOMAIN S |-> [x \in VarName |-> First(DeclaredIn(decls, x, S[i]))]]

\* The first of a set of positions.
LEMMA FirstFacts ==
    ASSUME NEW A \in SUBSET (Nat \ {0})
    PROVE  /\ First(A) = None <=> A = {}
           /\ A # {} => First(A) \in A /\ \A a \in A : First(A) <= a
           /\ First(A) \in Nat
  <1>1. CASE A = {}
    BY <1>1 DEF First, None
  <1>2. CASE A # {}
    <2>1. First(A) = Min(A)  BY <1>2 DEF First
    <2>2. A \in SUBSET Nat  OBVIOUS
    <2>3. Min(A) \in A /\ \A a \in A : Min(A) <= a  BY <1>2, <2>2, MinExists
    <2>4. Min(A) # 0 /\ Min(A) \in Nat  BY <2>3
    <2>5. QED  BY <1>2, <2>1, <2>3, <2>4 DEF None
  <1>3. QED  BY <1>1, <1>2

\* The least position is the first.
LEMMA FirstIs ==
    ASSUME NEW A \in SUBSET (Nat \ {0}), NEW a \in A, \A b \in A : a <= b
    PROVE  First(A) = a
  <1>1. A # {} /\ A \in SUBSET Nat  OBVIOUS
  <1>2. Min(A) = a  BY <1>1, MinIs
  <1>3. QED  BY <1>1, <1>2 DEF First

\* A later position takes no earlier one's place.
LEMMA FirstGrows ==
    ASSUME NEW A \in SUBSET (Nat \ {0}), NEW k \in Nat \ {0}, \A a \in A : a < k
    PROVE  First(A \cup {k}) = IF First(A) # None THEN First(A) ELSE k
  <1> DEFINE B == A \cup {k}
  <1>1. B \in SUBSET (Nat \ {0})  OBVIOUS
  <1>2. CASE A = {}
    <2>1. B = {k} /\ k \in B /\ \A b \in B : k <= b  BY <1>2
    <2> HIDE DEF B
    <2>2. First(B) = k  BY <1>1, <2>1, FirstIs
    <2>3. First(A) = None  BY <1>2, FirstFacts
    <2>4. QED  BY <2>2, <2>3 DEF B
  <1>3. CASE A # {}
    <2>1. First(A) \in A /\ (\A a \in A : First(A) <= a) /\ First(A) # None
      BY <1>3, FirstFacts
    <2>2. First(A) <= k
      <3>1. First(A) \in Nat /\ First(A) < k  BY <2>1
      <3>2. QED  BY <3>1
    <2>3. First(A) \in B /\ \A b \in B : First(A) <= b  BY <2>1, <2>2
    <2> HIDE DEF B
    <2>4. First(B) = First(A)  BY <1>1, <2>3, FirstIs
    <2>5. QED  BY <2>1, <2>4 DEF B
  <1>4. QED  BY <1>2, <1>3

\* Declarations of a name in a scope are positions; one more declaration.
LEMMA DeclaredFacts ==
    ASSUME NEW decls \in Seq(VarDecl), NEW x, NEW n
    PROVE  /\ DeclaredIn(decls, x, n) \in SUBSET (Nat \ {0})
           /\ DeclaredIn(decls, x, n) \subseteq DOMAIN decls
           /\ Len(decls) \in Nat
           /\ \A d \in DeclaredIn(decls, x, n) : d < Len(decls) + 1
           /\ \A v \in VarDecl :
                  DeclaredIn(Append(decls, v), x, n) =
                      IF v.name = x /\ v.scope = n
                      THEN DeclaredIn(decls, x, n) \cup {Len(decls) + 1}
                      ELSE DeclaredIn(decls, x, n)
  <1>1. DOMAIN decls = 1 .. Len(decls) /\ Len(decls) \in Nat  OBVIOUS
  <1>2. /\ DeclaredIn(decls, x, n) \subseteq DOMAIN decls
        /\ DeclaredIn(decls, x, n) \in SUBSET (Nat \ {0})
        /\ \A d \in DeclaredIn(decls, x, n) : d < Len(decls) + 1
    BY <1>1 DEF DeclaredIn
  <1>3. ASSUME NEW v \in VarDecl
        PROVE  DeclaredIn(Append(decls, v), x, n) =
                      IF v.name = x /\ v.scope = n
                      THEN DeclaredIn(decls, x, n) \cup {Len(decls) + 1}
                      ELSE DeclaredIn(decls, x, n)
    <2> DEFINE more == Append(decls, v)
               k == Len(decls) + 1
    <2>1. /\ DOMAIN more = DOMAIN decls \cup {k} /\ k \notin DOMAIN decls
          /\ more[k] = v /\ \A d \in DOMAIN decls : more[d] = decls[d]
      BY <1>1
    <2> HIDE DEF more, k
    <2>2. QED  BY <2>1 DEF DeclaredIn, more, k
  <1>4. QED  BY <1>1, <1>2, <1>3

\* The tables are a sequence, and their entries are declarations.
LEMMA TablesFacts ==
    ASSUME NEW S \in Seq(Nat), NEW decls \in Seq(VarDecl)
    PROVE  /\ TablesOf(S, decls) \in Seq([VarName -> {None} \cup DOMAIN decls])
           /\ Len(TablesOf(S, decls)) = Len(S) /\ Len(S) \in Nat
           /\ \A i \in 1 .. Len(S) : TablesOf(S, decls)[i] =
                                       [x \in VarName |-> First(DeclaredIn(decls, x, S[i]))]
  <1> DEFINE Row(i) == [x \in VarName |-> First(DeclaredIn(decls, x, S[i]))]
  <1>1. ASSUME NEW i \in 1 .. Len(S) PROVE Row(i) \in [VarName -> {None} \cup DOMAIN decls]
    <2>1. ASSUME NEW x \in VarName
          PROVE  First(DeclaredIn(decls, x, S[i])) \in {None} \cup DOMAIN decls
      <3> DEFINE A == DeclaredIn(decls, x, S[i])
      <3>1. A \in SUBSET (Nat \ {0}) /\ A \subseteq DOMAIN decls  BY DeclaredFacts
      <3> HIDE DEF A
      <3>2. QED  BY <3>1, FirstFacts DEF A
    <2>2. QED  BY <2>1
  <1>2. TablesOf(S, decls) = [i \in 1 .. Len(S) |-> Row(i)] /\ Len(S) \in Nat
    BY DEF TablesOf
  <1> HIDE DEF Row
  <1>3. QED  BY <1>1, <1>2 DEF Row

\* Two sequences of tables with the same length and elements are equal.
LEMMA SameSequence ==
    ASSUME NEW V, NEW s \in Seq(V), NEW t \in Seq(V), Len(s) = Len(t),
           \A i \in 1 .. Len(s) : s[i] = t[i]
    PROVE  s = t
  OBVIOUS

\* A scope that is opened has an empty table: its number is new.
LEMMA TablesOpen ==
    ASSUME NEW S \in Seq(Nat), NEW decls \in Seq(VarDecl), NEW n \in Nat,
           \A d \in DOMAIN decls : decls[d].scope <= n
    PROVE  TablesOf(Append(S, n + 1), decls) = Append(TablesOf(S, decls), NoNames(VarName))
  <1> DEFINE Row == [VarName -> {None} \cup DOMAIN decls]
             more == Append(S, n + 1)
             s == TablesOf(more, decls)
             old == TablesOf(S, decls)
             t == Append(old, NoNames(VarName))
             L == Len(S)
  <1>1. /\ more \in Seq(Nat) /\ Len(more) = L + 1 /\ more[L + 1] = n + 1 /\ L \in Nat
        /\ \A i \in 1 .. L : more[i] = S[i]
    OBVIOUS
  <1>2. /\ old \in Seq(Row) /\ Len(old) = L
        /\ \A i \in 1 .. L : old[i] = [x \in VarName |-> First(DeclaredIn(decls, x, S[i]))]
    BY TablesFacts
  <1>3. NoNames(VarName) \in Row  BY DEF NoNames
  <1> HIDE DEF Row, more, old
  <1>4. /\ t \in Seq(Row) /\ Len(t) = L + 1 /\ t[L + 1] = NoNames(VarName)
        /\ \A i \in 1 .. L : t[i] = old[i]
    BY <1>2, <1>3
  <1>5. /\ s \in Seq(Row) /\ Len(s) = L + 1
        /\ \A i \in 1 .. L + 1 : s[i] = [x \in VarName |-> First(DeclaredIn(decls, x, more[i]))]
    <2>1. /\ s \in Seq(Row) /\ Len(s) = Len(more)
          /\ \A i \in 1 .. Len(more) :
                 s[i] = [x \in VarName |-> First(DeclaredIn(decls, x, more[i]))]
      BY <1>1, TablesFacts DEF Row
    <2>2. Len(more) = L + 1  BY <1>1
    <2> HIDE DEF s, L, Row
    <2>3. QED  BY <2>1, <2>2
  <1>6. \A x \in VarName : First(DeclaredIn(decls, x, n + 1)) = None
    <2> SUFFICES ASSUME NEW x \in VarName PROVE First(DeclaredIn(decls, x, n + 1)) = None
      OBVIOUS
    <2>1. \A d \in DOMAIN decls : decls[d].scope # n + 1
      <3>1. \A v \in VarDecl : v.scope \in Nat  BY DEF VarDecl
      <3>2. \A d \in DOMAIN decls : decls[d] \in VarDecl  OBVIOUS
      <3>3. \A m \in Nat : m <= n => m # n + 1  OBVIOUS
      <3>4. QED  BY <3>1, <3>2, <3>3
    <2>2. DeclaredIn(decls, x, n + 1) = {}  BY <2>1 DEF DeclaredIn
    <2>3. QED  BY <2>2, FirstFacts
  <1> HIDE DEF s, t, L
  <1>7. s[L + 1] = NoNames(VarName)
    <2>1. L + 1 \in 1 .. L + 1  BY <1>1
    <2>2. s[L + 1] = [x \in VarName |-> First(DeclaredIn(decls, x, n + 1))]
      BY <1>1, <1>5, <2>1
    <2>3. QED  BY <1>6, <2>2 DEF NoNames
  <1>8. ASSUME NEW i \in 1 .. L + 1 PROVE s[i] = t[i]
    <2>1. CASE i = L + 1  BY <1>4, <1>7, <2>1
    <2>2. CASE i # L + 1
      <3>1. i \in 1 .. L  BY <1>1, <2>2
      <3>2. more[i] = S[i] /\ t[i] = old[i]  BY <1>1, <1>4, <3>1
      <3>3. QED  BY <1>2, <1>5, <3>1, <3>2
    <2>3. QED  BY <2>1, <2>2
  <1>9. s = t  BY <1>4, <1>5, <1>8, SameSequence
  <1>10. QED  BY <1>9 DEF s, t, old, more

\* A scope that is closed takes its table with it.
LEMMA TablesClose ==
    ASSUME NEW S \in Seq(Nat), NEW decls \in Seq(VarDecl), NEW n \in Nat
    PROVE  Front(TablesOf(Append(S, n), decls)) = TablesOf(S, decls)
  <1> DEFINE Row == [VarName -> {None} \cup DOMAIN decls]
             more == Append(S, n)
             s == TablesOf(more, decls)
             old == TablesOf(S, decls)
             f == SubSeq(s, 1, Len(S))
             L == Len(S)
  <1>1. /\ more \in Seq(Nat) /\ Len(more) = L + 1 /\ L \in Nat /\ L + 1 - 1 = L
        /\ \A i \in 1 .. L : more[i] = S[i]
    OBVIOUS
  <1>2. /\ old \in Seq(Row) /\ Len(old) = L
        /\ \A i \in 1 .. L : old[i] = [x \in VarName |-> First(DeclaredIn(decls, x, S[i]))]
    BY TablesFacts
  <1> HIDE DEF Row, more, old
  <1>3. /\ s \in Seq(Row) /\ Len(s) = L + 1
        /\ \A i \in 1 .. L + 1 : s[i] = [x \in VarName |-> First(DeclaredIn(decls, x, more[i]))]
    <2>1. /\ s \in Seq(Row) /\ Len(s) = Len(more)
          /\ \A i \in 1 .. Len(more) :
                 s[i] = [x \in VarName |-> First(DeclaredIn(decls, x, more[i]))]
      BY <1>1, TablesFacts DEF Row
    <2>2. Len(more) = L + 1  BY <1>1
    <2> HIDE DEF s, f, L, Row
    <2>3. QED  BY <2>1, <2>2
  <1> HIDE DEF s
  <1>4. L \in 0 .. Len(s)  BY <1>1, <1>3
  <1>5. f \in Seq(Row) /\ Len(f) = L /\ \A i \in 1 .. L : f[i] = s[i]
    BY <1>3, <1>4, PrefixFacts
  <1>6. Front(s) = f
    BY <1>1, <1>3 DEF Front
  <1> HIDE DEF f, L
  <1>7. ASSUME NEW i \in 1 .. L PROVE f[i] = old[i]
    <2>1. i \in 1 .. L + 1  BY <1>1
    <2>2. QED  BY <1>1, <1>2, <1>3, <1>5, <2>1
  <1>8. f = old  BY <1>2, <1>5, <1>7, SameSequence
  <1>9. QED  BY <1>6, <1>8 DEF s, old, more

\* A declaration in the innermost scope is entered in the last table, if it is the
\* first of its name there.
LEMMA TablesDeclare ==
    ASSUME NEW S \in Seq(Nat), S # <<>>, NEW decls \in Seq(VarDecl), NEW v \in VarDecl,
           v.scope = S[Len(S)], \A i \in 1 .. Len(S) - 1 : S[i] # S[Len(S)]
    PROVE  TablesOf(S, Append(decls, v)) =
               LET T == TablesOf(S, decls) IN
               IF Last(T)[v.name] # None THEN T
               ELSE [T EXCEPT ![Len(T)][v.name] = Len(decls) + 1]
  <1> DEFINE k == Len(decls) + 1
             L == Len(S)
             more == Append(decls, v)
             T == TablesOf(S, decls)
             U == TablesOf(S, more)
             row == [T[L] EXCEPT ![v.name] = k]
  <1>1. L \in Nat \ {0} /\ L \in 1 .. L /\ k \in Nat \ {0} /\ more \in Seq(VarDecl)
        /\ v.name \in VarName
    BY DEF VarDecl
  <1>2. /\ Len(T) = L /\ T = [i \in 1 .. L |-> T[i]]
        /\ \A i \in 1 .. L : T[i] = [x \in VarName |-> First(DeclaredIn(decls, x, S[i]))]
    <2>1. T = [i \in 1 .. L |-> T[i]]  BY DEF TablesOf
    <2>2. QED  BY <2>1, TablesFacts
  <1> HIDE DEF more, T
  <1>3. /\ U = [i \in 1 .. L |-> U[i]]
        /\ \A i \in 1 .. L : U[i] = [x \in VarName |-> First(DeclaredIn(more, x, S[i]))]
    <2>1. U = [i \in 1 .. L |-> U[i]]  BY DEF TablesOf
    <2>2. QED  BY <1>1, <2>1, TablesFacts
  <1> HIDE DEF U
  <1>4. \A x \in VarName, n \in Nat :
            DeclaredIn(more, x, n) = IF v.name = x /\ v.scope = n
                                     THEN DeclaredIn(decls, x, n) \cup {k}
                                     ELSE DeclaredIn(decls, x, n)
    BY DeclaredFacts DEF more
  <1>5. \A i \in 1 .. L : S[i] \in Nat  OBVIOUS
  <1>6. ASSUME NEW i \in 1 .. L, i # L PROVE U[i] = T[i]
    <2>1. S[i] # v.scope
      <3>1. i \in 1 .. Len(S) - 1  BY <1>1, <1>6
      <3>2. QED  BY <3>1
    <2>2. \A x \in VarName : DeclaredIn(more, x, S[i]) = DeclaredIn(decls, x, S[i])
      BY <1>4, <1>5, <2>1
    <2>3. QED  BY <1>2, <1>3, <2>2
  <1>7. ASSUME NEW x \in VarName
        PROVE  U[L][x] = IF x = v.name /\ T[L][x] = None THEN k ELSE T[L][x]
    <2> DEFINE A == DeclaredIn(decls, x, S[L])
    <2>1. A \in SUBSET (Nat \ {0}) /\ \A d \in A : d < k  BY DeclaredFacts
    <2>2. T[L] = [y \in VarName |-> First(DeclaredIn(decls, y, S[L]))]  BY <1>1, <1>2
    <2>3. U[L] = [y \in VarName |-> First(DeclaredIn(more, y, S[L]))]  BY <1>1, <1>3
    <2>4. T[L][x] = First(A) /\ U[L][x] = First(DeclaredIn(more, x, S[L]))
      BY <2>2, <2>3
    <2>5. DeclaredIn(more, x, S[L]) = IF x = v.name THEN A \cup {k} ELSE A
      BY <1>1, <1>4, <1>5
    <2> HIDE DEF A, k, L
    <2>6. First(A \cup {k}) = IF First(A) # None THEN First(A) ELSE k
      BY <1>1, <2>1, FirstGrows
    <2>7. QED  BY <2>4, <2>5, <2>6
  <1>8. Last(T) = T[L]  BY <1>2 DEF Last
  <1>9. U[L] = [x \in VarName |-> U[L][x]] /\ T[L] = [x \in VarName |-> T[L][x]]
    <2>1. U[L] = [x \in VarName |-> First(DeclaredIn(more, x, S[L]))]  BY <1>1, <1>3
    <2>2. T[L] = [x \in VarName |-> First(DeclaredIn(decls, x, S[L]))]  BY <1>1, <1>2
    <2>3. QED  BY <2>1, <2>2
  <1> HIDE DEF k, L
  <1>10. CASE T[L][v.name] # None
    <2>1. \A x \in VarName : U[L][x] = T[L][x]  BY <1>7, <1>10
    <2>2. U[L] = T[L]  BY <1>9, <2>1
    <2>3. \A i \in 1 .. L : U[i] = T[i]  BY <1>6, <2>2
    <2>4. U = T  BY <1>2, <1>3, <2>3
    <2>5. QED  BY <1>8, <1>10, <2>4 DEF U, T, more
  <1>11. CASE T[L][v.name] = None
    <2>1. \A x \in VarName : U[L][x] = row[x]
      <3>1. \A x \in VarName : row[x] = IF x = v.name THEN k ELSE T[L][x]
        BY <1>9
      <3>2. QED  BY <1>7, <1>11, <3>1
    <2>2. row = [x \in VarName |-> row[x]]  BY <1>9
    <2> HIDE DEF row
    <2>3. U[L] = row  BY <1>9, <2>1, <2>2
    <2> DEFINE W == [T EXCEPT ![L] = row]
    <2>4. W = [i \in 1 .. L |-> IF i = L THEN row ELSE T[i]]  BY <1>2
    <2>5. \A i \in 1 .. L : U[i] = IF i = L THEN row ELSE T[i]  BY <1>6, <2>3
    <2>6. U = W
      <3> HIDE DEF W
      <3>1. QED  BY <1>3, <2>4, <2>5
    <2>7. W = [T EXCEPT ![Len(T)][v.name] = k]
      BY <1>2 DEF row
    <2>8. QED  BY <1>8, <1>11, <2>6, <2>7 DEF U, T, more, k
  <1>12. QED  BY <1>10, <1>11

-----------------------------------------------------------------------------
(* The inductive invariant.                                                 *)

\* What is parsed stays an acyclic list without repetition; behind it nothing runs.
InputsOK ==
    /\ Acyclic(deps)
    /\ \A i, j \in DOMAIN programList : programList[i] = programList[j] => i = j
    /\ cur > Len(programList) => status = "done" /\ frames = <<>>

\* The outermost frame is a function's, and only a body has frames inside.
Headers == {"extern", "params"}
Nested == Controls \cup {"block"}
Shape(fs) ==
    /\ \A i \in DOMAIN fs : fs[i].kind \in IF i = 1 THEN Headers \cup {"body"} ELSE Nested
    /\ fs # <<>> /\ fs[1].kind \in Headers => Len(fs) = 1
\* A function's header or body is under way.
HeaderOf(fs, kinds) == fs # <<>> /\ fs[1].kind \in kinds
AtHeader == HeaderOf(frames, Headers)

\* The flags say where in the nesting the parser is; the last function is the one
\* whose header is under way.
FlagsOK ==
    /\ isFuncScope => HeaderOf(frames, {"params"})
    /\ HeaderOf(frames, {"params"}) => isFuncScope
    /\ stmtDone => frames # <<>> /\ Last(frames).kind \in Controls
    /\ AtHeader => /\ funcDecls # <<>> /\ Last(funcDecls).prog = ProgAst
                   /\ Last(funcDecls).declare <=> frames[1].kind = "extern"
FramesOK == Shape(frames) /\ FlagsOK

\* The scopes around a token are numbered from the outside.
Rising(s, n) ==
    \A i \in DOMAIN s : s[i] \in 1 .. n /\ \A j \in DOMAIN s : i < j => s[i] < s[j]
\* ... and they, and those of the declarations, have been given out.
NumbersOK ==
    /\ Rising(OpenScopes, scopes)
    /\ \A d \in DOMAIN varDecls : varDecls[d].scope <= scopes

\* The entries of the tables of global names.
VarTablesOK ==
    \A p \in File : \A x \in VarName :
        LET d == globalVariableMap[p][x]
        IN  d # None => varDecls[d].name = x /\ varDecls[d].prog = p /\ varDecls[d].scope = 0
\* ... and of the tables of functions: the first of their name in their program.
FuncTablesOK ==
    \A p \in File : \A f \in FuncName :
        LET i == funcDefMap[p][f]
        IN  i # None => i \in Functions(f, p) /\ \A j \in Functions(f, p) : i <= j
\* The programs behind the current one have nothing yet.
Unparsed(p) ==
    /\ \A x \in VarName : globalVariableMap[p][x] = None
    /\ \A f \in FuncName : funcDefMap[p][f] = None
    /\ \A i \in DOMAIN funcDecls : funcDecls[i].prog # p
LaterUnparsed == \A k \in DOMAIN programList : cur < k => Unparsed(programList[k])
\* A function whose header has been parsed is in a table that its program sees.
FunctionsAreFound ==
    \A i \in DOMAIN funcDecls :
        LET f == funcDecls[i].name IN
        ~(AtHeader /\ i = Len(funcDecls)) /\ f \notin StdFunction =>
            \E q \in Visible(funcDecls[i].prog) : funcDefMap[q][f] # None
\* All that is said of the tables of global names.
TablesOK == VarTablesOK /\ FuncTablesOK /\ LaterUnparsed /\ FunctionsAreFound

-----------------------------------------------------------------------------
(* The stack of frames.                                                     *)

\* One more frame inside of a body.
LEMMA ShapePush ==
    ASSUME NEW fs \in Seq(Frame), Shape(fs), HeaderOf(fs, {"body"}), NEW f \in Frame,
           f.kind \in Nested
    PROVE  /\ Shape(Append(fs, f)) /\ HeaderOf(Append(fs, f), {"body"})
           /\ Append(fs, f)[1] = fs[1] /\ Last(Append(fs, f)) = f
           /\ Append(fs, f) \in Seq(Frame)
  <1> DEFINE gs == Append(fs, f)
  <1>1. /\ gs \in Seq(Frame) /\ Len(gs) = Len(fs) + 1 /\ gs[Len(fs) + 1] = f
        /\ Len(fs) \in Nat \ {0} /\ \A i \in 1 .. Len(fs) : gs[i] = fs[i]
    BY DEF HeaderOf
  <1> HIDE DEF gs
  <1>2. gs[1] = fs[1] /\ gs # <<>>  BY <1>1
  <1>3. gs[1].kind = "body"  BY <1>2 DEF HeaderOf
  <1>4. ASSUME NEW i \in DOMAIN gs
        PROVE  gs[i].kind \in IF i = 1 THEN Headers \cup {"body"} ELSE Nested
    <2>1. CASE i = 1  BY <1>3, <2>1
    <2>2. CASE i # 1 /\ i \in 1 .. Len(fs)  BY <1>1, <2>2 DEF Shape
    <2>3. CASE i = Len(fs) + 1 /\ i # 1  BY <1>1, <2>3
    <2>4. i \in 1 .. Len(fs) \/ i = Len(fs) + 1  BY <1>1
    <2>5. QED  BY <2>1, <2>2, <2>3, <2>4
  <1>5. gs[1].kind \notin Headers  BY <1>3 DEF Headers
  <1>6. Last(gs) = f  BY <1>1 DEF Last
  <1>7. Shape(gs)  BY <1>4, <1>5 DEF Shape
  <1>8. HeaderOf(gs, {"body"})  BY <1>2, <1>3 DEF HeaderOf
  <1>9. QED  BY <1>1, <1>2, <1>6, <1>7, <1>8 DEF gs

\* The outer frames.
LEMMA ShapePrefix ==
    ASSUME NEW fs \in Seq(Frame), Shape(fs), NEW k \in 0 .. Len(fs)
    PROVE  /\ Shape(SubSeq(fs, 1, k)) /\ SubSeq(fs, 1, k) \in Seq(Frame)
           /\ Len(SubSeq(fs, 1, k)) = k
           /\ k # 0 => SubSeq(fs, 1, k)[1] = fs[1]
           /\ k # 0 /\ k < Len(fs) => HeaderOf(SubSeq(fs, 1, k), {"body"})
  <1> DEFINE gs == SubSeq(fs, 1, k)
  <1>1. gs \in Seq(Frame) /\ Len(gs) = k /\ \A i \in 1 .. k : gs[i] = fs[i]
    BY PrefixFacts
  <1>2. k \in Nat /\ Len(fs) \in Nat /\ k <= Len(fs)  OBVIOUS
  <1> HIDE DEF gs
  <1>3. k # 0 => gs[1] = fs[1] /\ 1 \in DOMAIN fs  BY <1>1, <1>2
  <1>4. \A i \in DOMAIN gs : i \in DOMAIN fs /\ gs[i] = fs[i]  BY <1>1, <1>2
  <1>5. gs # <<>> /\ gs[1].kind \in Headers => Len(gs) = 1
    <2> SUFFICES ASSUME gs # <<>>, gs[1].kind \in Headers PROVE Len(gs) = 1
      OBVIOUS
    <2>1. k # 0  BY <1>1
    <2>2. fs # <<>> /\ fs[1].kind \in Headers  BY <1>2, <1>3, <2>1
    <2>3. Len(fs) = 1  BY <2>2 DEF Shape
    <2>4. QED  BY <1>1, <1>2, <2>1, <2>3
  <1>6. Shape(gs)  BY <1>4, <1>5 DEF Shape
  <1>7. ASSUME k # 0, k < Len(fs) PROVE HeaderOf(gs, {"body"})
    <2>1. gs # <<>> /\ fs # <<>>  BY <1>1, <1>2, <1>7
    <2>2. fs[1].kind \notin Headers  BY <1>2, <1>7, <2>1 DEF Shape
    <2>3. fs[1].kind \in Headers \cup {"body"}  BY <1>3, <1>7 DEF Shape
    <2>4. gs[1].kind = "body"  BY <1>3, <1>7, <2>2, <2>3
    <2>5. QED  BY <2>1, <2>4 DEF HeaderOf
  <1>8. QED  BY <1>1, <1>3, <1>6, <1>7 DEF gs

\* The innermost frame and the others.
LEMMA TopFrame ==
    ASSUME NEW fs \in Seq(Frame), fs # <<>>, Shape(fs)
    PROVE  /\ Last(fs) \in Frame /\ Front(fs) \in Seq(Frame) /\ Shape(Front(fs))
           /\ fs = Append(Front(fs), Last(fs))
           /\ ScopesIn(fs) = ScopesIn(Front(fs)) \o ScopeOf(Last(fs))
           /\ NodesIn(fs) = NodesIn(Front(fs)) \o NodesOf(Last(fs))
           /\ Last(fs).kind \in Headers \cup {"body"} =>
                  /\ Front(fs) = <<>> /\ fs = <<Last(fs)>> /\ fs[1] = Last(fs)
                  /\ HeaderOf(fs, {Last(fs).kind})
           /\ Last(fs).kind \in Nested =>
                  /\ HeaderOf(fs, {"body"}) /\ HeaderOf(Front(fs), {"body"})
                  /\ fs[1] = Front(fs)[1]
  <1> DEFINE L == Len(fs)
  <1>1. /\ Last(fs) \in Frame /\ Front(fs) \in Seq(Frame) /\ fs = Append(Front(fs), Last(fs))
        /\ L \in Nat \ {0} /\ Len(Front(fs)) = L - 1
    BY FrontLast
  <1>2. L - 1 \in 0 .. L /\ L \in 1 .. L /\ 1 \in 1 .. L  BY <1>1
  <1>3. Front(fs) = SubSeq(fs, 1, L - 1)  BY DEF Front
  <1>4. Shape(Front(fs)) /\ (L - 1 # 0 /\ L - 1 < L => HeaderOf(Front(fs), {"body"}))
        /\ (L - 1 # 0 => Front(fs)[1] = fs[1])
    <2> DEFINE k == L - 1
    <2>1. k \in 0 .. Len(fs) /\ Front(fs) = SubSeq(fs, 1, k)  BY <1>2, <1>3
    <2> HIDE DEF k
    <2>2. /\ Shape(SubSeq(fs, 1, k)) /\ (k # 0 => SubSeq(fs, 1, k)[1] = fs[1])
          /\ k # 0 /\ k < Len(fs) => HeaderOf(SubSeq(fs, 1, k), {"body"})
      BY <2>1, ShapePrefix
    <2>3. QED  BY <2>1, <2>2 DEF k
  <1>5. /\ ScopesIn(fs) = ScopesIn(Front(fs)) \o ScopeOf(Last(fs))
        /\ NodesIn(fs) = NodesIn(Front(fs)) \o NodesOf(Last(fs))
    BY <1>1, FramesAppend
  <1>6. L # 1 => Last(fs).kind \in Nested
    <2>1. Last(fs) = fs[L] /\ L \in DOMAIN fs  BY <1>2 DEF Last
    <2>2. QED  BY <2>1 DEF Shape
  <1>7. L = 1 => Last(fs).kind \in Headers \cup {"body"}
    <2>1. Last(fs) = fs[L] /\ L \in DOMAIN fs  BY <1>2 DEF Last
    <2>2. QED  BY <2>1 DEF Shape
  <1>8. (Headers \cup {"body"}) \cap Nested = {}  BY DEF Headers, Nested, Controls
  <1>9. ASSUME Last(fs).kind \in Headers \cup {"body"}
        PROVE  /\ Front(fs) = <<>> /\ fs = <<Last(fs)>> /\ fs[1] = Last(fs)
               /\ HeaderOf(fs, {Last(fs).kind})
    <2>1. L = 1  BY <1>6, <1>8, <1>9
    <2>2. Front(fs) = <<>> /\ fs[1] = Last(fs)  BY <1>1, <2>1 DEF Last
    <2>3. fs = <<Last(fs)>>  BY <1>1, <2>2
    <2>4. QED  BY <2>2, <2>3 DEF HeaderOf
  <1>10. ASSUME Last(fs).kind \in Nested
         PROVE  HeaderOf(fs, {"body"}) /\ HeaderOf(Front(fs), {"body"}) /\ fs[1] = Front(fs)[1]
    <2>1. L # 1  BY <1>7, <1>8, <1>10
    <2>2. L - 1 # 0 /\ L - 1 < L  BY <1>1, <2>1
    <2>3. HeaderOf(Front(fs), {"body"}) /\ fs[1] = Front(fs)[1]  BY <1>4, <2>2
    <2>4. QED  BY <2>3 DEF HeaderOf
  <1>11. QED  BY <1>1, <1>4, <1>5, <1>9, <1>10

\* Another kind for the innermost frame.
LEMMA ReplaceKind ==
    ASSUME NEW fs \in Seq(Frame), fs # <<>>,
           NEW kind \in Controls \cup {"extern", "params", "body", "block"}
    PROVE  LET f == [Last(fs) EXCEPT !.kind = kind] IN
           /\ [fs EXCEPT ![Len(fs)].kind = kind] = Append(Front(fs), f)
           /\ f \in Frame /\ f.kind = kind /\ f.scope = Last(fs).scope
  <1> DEFINE f == [Last(fs) EXCEPT !.kind = kind]
             gs == [fs EXCEPT ![Len(fs)].kind = kind]
             hs == Append(Front(fs), f)
             L == Len(fs)
  <1>1. /\ Last(fs) \in Frame /\ Front(fs) \in Seq(Frame) /\ L \in Nat \ {0}
        /\ Len(Front(fs)) = L - 1 /\ \A i \in 1 .. L - 1 : Front(fs)[i] = fs[i]
    BY FrontLast
  <1>2. f \in Frame /\ f.kind = kind /\ f.scope = Last(fs).scope
    BY <1>1 DEF Frame
  <1>3. gs = [fs EXCEPT ![L] = f]  BY DEF Last
  <1> HIDE DEF f
  <1>4. L \in DOMAIN fs  BY <1>1
  <1>5. gs \in Seq(Frame) /\ Len(gs) = L /\ gs[L] = f /\ \A i \in 1 .. L - 1 : gs[i] = fs[i]
    BY <1>1, <1>2, <1>3, <1>4
  <1>6. hs \in Seq(Frame) /\ Len(hs) = L - 1 + 1 /\ hs[L - 1 + 1] = f
        /\ \A i \in 1 .. L - 1 : hs[i] = Front(fs)[i]
    BY <1>1, <1>2
  <1>7. L - 1 + 1 = L  BY <1>1
  <1> HIDE DEF gs, hs, L
  <1>8. Len(hs) = L /\ hs[L] = f  BY <1>6, <1>7
  <1>9. \A i \in 1 .. L : gs[i] = hs[i]
    <2>1. \A i \in 1 .. L : i = L \/ i \in 1 .. L - 1  BY <1>1
    <2>2. QED  BY <1>1, <1>5, <1>6, <1>8, <2>1
  <1>10. gs = hs  BY <1>5, <1>6, <1>8, <1>9, SameSequence
  <1>11. QED  BY <1>2, <1>10 DEF gs, hs, f

\* A new scope keeps the numbers rising.
LEMMA RisingPush ==
    ASSUME NEW s \in Seq(Nat), NEW n \in Nat, Rising(s, n)
    PROVE  Rising(Append(s, n + 1), n + 1)
  <1> DEFINE t == Append(s, n + 1)
             L == Len(s)
  <1>1. /\ L \in Nat /\ DOMAIN t = 1 .. L + 1 /\ t[L + 1] = n + 1 /\ DOMAIN s = 1 .. L
        /\ \A i \in 1 .. L : t[i] = s[i]
    OBVIOUS
  <1> HIDE DEF t, L
  <1>2. \A i \in 1 .. L + 1 : i = L + 1 \/ i \in 1 .. L  BY <1>1
  <1>3. \A i \in 1 .. L : s[i] \in 1 .. n  BY <1>1 DEF Rising
  <1>4. \A i \in 1 .. L + 1 : t[i] \in 1 .. n + 1  BY <1>1, <1>2, <1>3
  <1>5. ASSUME NEW i \in 1 .. L + 1, NEW j \in 1 .. L + 1, i < j PROVE t[i] < t[j]
    <2>1. i \in 1 .. L  BY <1>1, <1>5
    <2>2. CASE j = L + 1
      <3>1. t[i] \in 1 .. n /\ t[j] = n + 1  BY <1>1, <1>3, <2>1, <2>2
      <3>2. QED  BY <3>1
    <2>3. CASE j \in 1 .. L  BY <1>1, <1>5, <2>1, <2>3 DEF Rising
    <2>4. QED  BY <1>2, <2>2, <2>3
  <1>6. QED  BY <1>1, <1>4, <1>5 DEF Rising, t

\* ... and so does closing the innermost one.
LEMMA RisingPop ==
    ASSUME NEW s \in Seq(Nat), NEW n \in Nat, NEW k \in Nat, Rising(Append(s, k), n)
    PROVE  Rising(s, n)
  <1> DEFINE t == Append(s, k)
  <1>1. DOMAIN s \subseteq DOMAIN t /\ \A i \in DOMAIN s : t[i] = s[i]
    OBVIOUS
  <1> HIDE DEF t
  <1>2. Rising(t, n)  BY DEF t
  <1>3. ASSUME NEW i \in DOMAIN s
        PROVE  s[i] \in 1 .. n /\ \A j \in DOMAIN s : i < j => s[i] < s[j]
    BY <1>1, <1>2 DEF Rising
  <1>4. QED  BY <1>3 DEF Rising

-----------------------------------------------------------------------------
(* Steps and the frames.                                                    *)

\* A step inside of one program.
Steady == Running /\ UNCHANGED <<programList, deps, cur>> /\ status' # "done"

\* Only the end of a program changes the program.
LEMMA SteadySteps ==
    ASSUME Next
    PROVE  FinishProgram \/ Steady
  <1>1. ASSUME GlobalVar PROVE Steady
    BY <1>1 DEF GlobalVar, DeclareVar, TopLevel, Steady, Running, inputs
  <1>2. ASSUME BeginFuncExtern \/ BeginFuncDef PROVE Steady
    BY <1>2 DEF BeginFuncExtern, BeginFuncDef, BeginFunc, TopLevel, Steady, Running, inputs
  <1>3. ASSUME Param \/ LocalVar PROVE Steady
    BY <1>3 DEF Param, LocalVar, DeclareVar, Inside, Steady, Running, inputs
  <1>4. ASSUME FinishFuncExtern \/ BeginBody \/ Redefined PROVE Steady
    BY <1>4 DEF FinishFuncExtern, BeginBody, Redefined, Inside, Steady, Running, inputs
  <1>5. ASSUME EnterBlock PROVE Steady
    BY <1>5 DEF EnterBlock, AtStatement, Inside, Steady, Running, inputs
  <1>6. ASSUME LeaveBlock \/ LeaveBody PROVE Steady
    BY <1>6 DEF LeaveBlock, LeaveBody, CloseScope, Inside, Steady, Running, inputs
  <1>7. ASSUME DeclarationAsBody PROVE Steady
    BY <1>7 DEF DeclarationAsBody, DeclareVar, AtStatement, Inside, Steady, Running, inputs
  <1>8. ASSUME EnterLoop \/ EnterIf PROVE Steady
    BY <1>8 DEF EnterLoop, EnterIf, EnterControl, SameNames, AtStatement, Inside, Steady,
                Running, inputs
  <1>9. ASSUME SimpleStmt PROVE Steady
    BY <1>9 DEF SimpleStmt, SameNames, AtStatement, Inside, Steady, Running, inputs
  <1>10. ASSUME FinishLoop \/ FinishIf \/ EnterElse PROVE Steady
    BY <1>10 DEF FinishLoop, FinishIf, EnterElse, LeaveControl, SameNames, Inside, Steady,
                 Running, inputs
  <1>11. ASSUME IdRef \/ Call \/ SyntaxError PROVE Steady
    BY <1>11 DEF IdRef, Call, SyntaxError, Resolve, Steady, Running, inputs
  <1>12. QED
    BY <1>1, <1>2, <1>3, <1>4, <1>5, <1>6, <1>7, <1>8, <1>9, <1>10, <1>11 DEF Next

\* The parser is in a body where a statement can begin or has ended.
LEMMA InsideBody ==
    ASSUME frames \in Seq(Frame), Shape(frames), Inside({"body", "block"} \cup Controls)
    PROVE  HeaderOf(frames, {"body"}) /\ frames # <<>>
  <1>1. frames # <<>> /\ Last(frames).kind \in {"body"} \cup Nested
    BY DEF Inside, Nested
  <1>2. CASE Last(frames).kind = "body"
    BY <1>1, <1>2, TopFrame
  <1>3. CASE Last(frames).kind \in Nested
    BY <1>1, <1>3, TopFrame
  <1>4. QED  BY <1>1, <1>2, <1>3

\* The control statements that wait stand inside of another construct.
LEMMA WaitingFacts ==
    ASSUME frames \in Seq(Frame), Shape(frames), frames # <<>>
    PROVE  /\ Waiting \in 0 .. Len(frames) /\ Waiting # Len(frames)
           /\ \A i \in Len(frames) - Waiting + 1 .. Len(frames) : frames[i].kind \in Controls
           /\ frames[Len(frames) - Waiting].kind \notin Controls
  <1> DEFINE L == Len(frames)
             Fits(n) == /\ \A i \in L - n + 1 .. L : frames[i].kind \in Controls
                        /\ frames[L - n].kind \notin Controls
             I == {i \in 1 .. L : frames[i].kind \notin Controls}
  <1>1. L \in Nat \ {0} /\ DOMAIN frames = 1 .. L  OBVIOUS
  <1>2. frames[1].kind \notin Controls
    <2>1. frames[1].kind \in Headers \cup {"body"}  BY <1>1 DEF Shape
    <2>2. QED  BY <2>1 DEF Headers, Controls
  <1> HIDE DEF L
  <1>3. I \in SUBSET (0 .. L) /\ I # {} /\ L \in Nat  BY <1>1, <1>2
  <1> DEFINE m == Max(I)
  <1>4. m \in I /\ \A i \in I : i <= m
    <2> HIDE DEF I
    <2>1. QED  BY <1>3, MaxExists
  <1> HIDE DEF m
  <1>5. m \in 1 .. L /\ frames[m].kind \notin Controls  BY <1>4
  <1> DEFINE w == L - m
  <1>6. w \in 0 .. L /\ L - w = m  BY <1>1, <1>5
  <1>7. ASSUME NEW i \in m + 1 .. L PROVE frames[i].kind \in Controls
    <2>1. i \in 1 .. L /\ ~(i <= m)  BY <1>1, <1>5
    <2>2. i \notin I  BY <1>4, <2>1
    <2>3. QED  BY <2>1, <2>2
  <1> HIDE DEF w, I
  <1>8. Fits(w)  BY <1>5, <1>6, <1>7
  <1>9. Waiting = CHOOSE n \in 0 .. L : Fits(n)  BY DEF Waiting, L
  <1>10. Waiting \in 0 .. L /\ Fits(Waiting)
    <2>1. \E n \in 0 .. L : Fits(n)  BY <1>6, <1>8
    <2> HIDE DEF Fits
    <2>2. QED  BY <1>9, <2>1
  <1>11. Waiting # L
    <2> SUFFICES ASSUME Waiting = L PROVE FALSE
      OBVIOUS
    <2>1. 1 \in L - Waiting + 1 .. L  BY <1>1
    <2>2. QED  BY <1>2, <1>10, <2>1
  <1>12. QED  BY <1>10, <1>11 DEF L

\* Where a declaration ends the control statements that wait for a statement.
LEMMA PopWaiting ==
    ASSUME frames \in Seq(Frame), Shape(frames), DeclarationAsBody
    PROVE  /\ HeaderOf(frames, {"body"}) /\ HeaderOf(frames', {"body"})
           /\ Shape(frames') /\ frames' \in Seq(Frame)
           /\ Last(frames').kind \notin Controls
           /\ ScopesIn(frames') = OpenScopes
           /\ \E z \in Seq(NodeClass) : Len(z) = Waiting /\ FrameNodes = NodesIn(frames') \o z
  <1> DEFINE k == Len(frames) - Waiting
  <1>1. frames # <<>> /\ Last(frames).kind \in Controls /\ frames' = SubSeq(frames, 1, k)
    BY DEF DeclarationAsBody, AtStatement, Inside
  <1>2. /\ Waiting \in 0 .. Len(frames) /\ Waiting # Len(frames)
        /\ \A i \in Len(frames) - Waiting + 1 .. Len(frames) : frames[i].kind \in Controls
        /\ frames[k].kind \notin Controls
    BY <1>1, WaitingFacts
  <1>3. k \in 1 .. Len(frames) /\ k \in 0 .. Len(frames) /\ Len(frames) \in Nat
    BY <1>2
  <1>4. k # Len(frames)  BY <1>1, <1>2 DEF Last
  <1>5. /\ ScopesIn(frames') = OpenScopes
        /\ \E z \in Seq(NodeClass) : Len(z) = Waiting /\ FrameNodes = NodesIn(frames') \o z
    BY <1>1, <1>2, PopControls DEF OpenScopes, FrameNodes
  <1>6. HeaderOf(frames, {"body"})
    <2>1. Last(frames).kind \in Nested  BY <1>1 DEF Nested
    <2>2. QED  BY <1>1, <2>1, TopFrame
  <1> HIDE DEF k
  <1>7. /\ Shape(frames') /\ frames' \in Seq(Frame) /\ Len(frames') = k
        /\ HeaderOf(frames', {"body"})
    <2>1. k # 0 /\ k < Len(frames)  BY <1>3, <1>4
    <2>2. QED  BY <1>1, <1>3, <2>1, ShapePrefix
  <1>8. Last(frames').kind \notin Controls
    <2>1. frames'[k] = frames[k]
      <3>1. k \in 1 .. k  BY <1>3
      <3>2. QED  BY <1>1, <1>3, <3>1, PrefixFacts
    <2>2. QED  BY <1>2, <1>7, <2>1 DEF Last
  <1>9. QED  BY <1>5, <1>6, <1>7, <1>8

\* The frames keep their shape and the flags what they say about it.
LEMMA NextFrames ==
    ASSUME TypeOK, FramesOK, Next
    PROVE  FramesOK' /\ frames' \in Seq(Frame)
  <1>1. frames \in Seq(Frame) /\ scopes \in Nat /\ funcDecls \in Seq(FuncDecl)
    BY DEF TypeOK
  <1>2. Shape(frames) /\ FlagsOK  BY DEF FramesOK
  <1>3. ASSUME UNCHANGED <<frames, isFuncScope, funcDecls, programList, cur>>,
               stmtDone' => frames # <<>> /\ Last(frames).kind \in Controls
        PROVE  FramesOK' /\ frames' \in Seq(Frame)
    BY <1>1, <1>2, <1>3 DEF FramesOK, FlagsOK, AtHeader, ProgAst
  <1>4. ASSUME frames' \in Seq(Frame), Shape(frames'), frames' = <<>> \/ HeaderOf(frames', {"body"}),
               ~isFuncScope', stmtDone' => frames' # <<>> /\ Last(frames').kind \in Controls
        PROVE  FramesOK' /\ frames' \in Seq(Frame)
    <2>1. ~HeaderOf(frames', {"params"}) /\ ~HeaderOf(frames', Headers)
      BY <1>4 DEF HeaderOf, Headers
    <2>2. QED  BY <1>4, <2>1 DEF FramesOK, FlagsOK, AtHeader
  <1>5. frames = <<>> \/ HeaderOf(frames, {"body"}) => ~isFuncScope
    BY <1>2 DEF FlagsOK, HeaderOf
  <1>6. Shape(<<>>) /\ <<>> \in Seq(Frame)  BY DEF Shape
  <1>7. ASSUME GlobalVar \/ Param \/ LocalVar PROVE FramesOK' /\ frames' \in Seq(Frame)
    <2>1. UNCHANGED <<frames, isFuncScope, funcDecls, programList, cur, stmtDone>>
      BY <1>7 DEF GlobalVar, Param, LocalVar, DeclareVar, inputs
    <2>2. QED  BY <1>2, <1>3, <2>1 DEF FlagsOK
  <1>8. ASSUME Redefined \/ IdRef \/ Call \/ SyntaxError
        PROVE  FramesOK' /\ frames' \in Seq(Frame)
    <2>1. UNCHANGED <<frames, isFuncScope, funcDecls, programList, cur, stmtDone>>
      BY <1>8 DEF Redefined, IdRef, Call, SyntaxError, Resolve, inputs, nesting
    <2>2. QED  BY <1>2, <1>3, <2>1 DEF FlagsOK
  <1>9. ASSUME SimpleStmt PROVE FramesOK' /\ frames' \in Seq(Frame)
    BY <1>3, <1>9 DEF SimpleStmt, SameNames, AtStatement, Inside, inputs
  <1>10. ASSUME FinishProgram PROVE FramesOK' /\ frames' \in Seq(Frame)
    <2>1. frames' = <<>> /\ ~isFuncScope' /\ stmtDone' = stmtDone /\ frames = <<>>
      BY <1>10 DEF FinishProgram, TopLevel
    <2>2. ~stmtDone'  BY <1>2, <2>1 DEF FlagsOK
    <2>3. QED  BY <1>4, <1>6, <2>1, <2>2
  <1>11. ASSUME DeclarationAsBody PROVE FramesOK' /\ frames' \in Seq(Frame)
    <2>1. ~stmtDone' /\ isFuncScope' = isFuncScope
      BY <1>11 DEF DeclarationAsBody, AtStatement, DeclareVar
    <2>2. /\ HeaderOf(frames, {"body"}) /\ HeaderOf(frames', {"body"})
          /\ Shape(frames') /\ frames' \in Seq(Frame)
      BY <1>1, <1>2, <1>11, PopWaiting
    <2>3. QED  BY <1>4, <1>5, <2>1, <2>2
  <1>12. ASSUME BeginFuncExtern \/ BeginFuncDef PROVE FramesOK' /\ frames' \in Seq(Frame)
    <2>1. PICK kind \in Headers :
              /\ frames = <<>> /\ frames' = Append(frames, [kind |-> kind, scope |-> scopes + 1])
              /\ isFuncScope' <=> kind = "params"
              /\ UNCHANGED <<stmtDone, programList, cur>>
              /\ \E name \in FuncName :
                     funcDecls' = Append(funcDecls, [name |-> name, prog |-> ProgAst,
                                                     declare |-> (kind = "extern")])
      <3>1. CASE BeginFuncExtern
        <4>1. "extern" \in Headers /\ "extern" # "params"  BY DEF Headers
        <4>2. frames = <<>>  BY <3>1 DEF BeginFuncExtern, BeginFunc, TopLevel
        <4>3. ~isFuncScope'  BY <1>5, <3>1, <4>2 DEF BeginFuncExtern, BeginFunc
        <4>4. QED  BY <3>1, <4>1, <4>2, <4>3 DEF BeginFuncExtern, BeginFunc, inputs
      <3>2. CASE BeginFuncDef
        <4>1. "params" \in Headers  BY DEF Headers
        <4>2. QED  BY <3>2, <4>1 DEF BeginFuncDef, BeginFunc, TopLevel, inputs
      <3>3. QED  BY <1>12, <3>1, <3>2
    <2> DEFINE f == [kind |-> kind, scope |-> scopes + 1]
    <2>2. f \in Frame /\ f.kind = kind
      BY <1>1 DEF Frame, Headers
    <2> HIDE DEF f
    <2>3. frames' = <<f>> /\ frames' \in Seq(Frame) /\ Len(frames') = 1 /\ frames'[1] = f
          /\ frames' # <<>>
      <3>1. frames' = <<f>>  BY <2>1 DEF f
      <3>2. QED  BY <2>2, <3>1
    <2>4. Shape(frames')
      BY <2>2, <2>3 DEF Shape
    <2>5. HeaderOf(frames', {"params"}) <=> kind = "params"
      BY <2>2, <2>3 DEF HeaderOf
    <2>6. ~stmtDone'  BY <1>2, <2>1 DEF FlagsOK
    <2>7. funcDecls' # <<>> /\ Last(funcDecls').prog = ProgAst'
          /\ (Last(funcDecls').declare <=> frames'[1].kind = "extern")
      <3>1. PICK name \in FuncName :
                funcDecls' = Append(funcDecls, [name |-> name, prog |-> ProgAst,
                                                declare |-> (kind = "extern")])
        BY <2>1
      <3> DEFINE g == [name |-> name, prog |-> ProgAst, declare |-> (kind = "extern")]
      <3>2. g.prog = ProgAst /\ (g.declare <=> kind = "extern")  OBVIOUS
      <3> HIDE DEF g
      <3>3. funcDecls' = Append(funcDecls, g)  BY <3>1 DEF g
      <3>4. funcDecls' # <<>> /\ Last(funcDecls') = g
        <4>1. Len(funcDecls') = Len(funcDecls) + 1 /\ Len(funcDecls) \in Nat
              /\ funcDecls'[Len(funcDecls) + 1] = g
          BY <1>1, <3>3
        <4>2. QED  BY <4>1 DEF Last
      <3>5. ProgAst' = ProgAst  BY <2>1 DEF ProgAst
      <3>6. QED  BY <2>2, <2>3, <3>2, <3>4, <3>5
    <2>8. QED  BY <2>1, <2>3, <2>4, <2>5, <2>6, <2>7 DEF FramesOK, FlagsOK
  <1>13. ASSUME FinishFuncExtern PROVE FramesOK' /\ frames' \in Seq(Frame)
    <2>1. frames # <<>> /\ Last(frames).kind = "extern" /\ frames' = Front(frames)
          /\ UNCHANGED <<isFuncScope, stmtDone>>
      BY <1>13 DEF FinishFuncExtern, Inside
    <2>2. frames' = <<>> /\ frames[1] = Last(frames)
      BY <1>1, <1>2, <2>1, TopFrame DEF Headers
    <2>3. ~isFuncScope'  BY <1>2, <2>1, <2>2 DEF FlagsOK, HeaderOf
    <2>4. ~stmtDone'  BY <1>2, <2>1 DEF FlagsOK, Controls
    <2>5. QED  BY <1>4, <1>6, <2>2, <2>3, <2>4
  <1>14. ASSUME BeginBody PROVE FramesOK' /\ frames' \in Seq(Frame)
    <2>1. frames # <<>> /\ Last(frames).kind = "params" /\ ~isFuncScope' /\ stmtDone' = stmtDone
          /\ frames' = [frames EXCEPT ![Len(frames)].kind = "body"]
      BY <1>14 DEF BeginBody, Inside, OpenBlock
    <2> DEFINE f == [Last(frames) EXCEPT !.kind = "body"]
    <2>2. frames' = Append(Front(frames), f) /\ f \in Frame /\ f.kind = "body"
      BY <1>1, <2>1, ReplaceKind
    <2> HIDE DEF f
    <2>3. Front(frames) = <<>>  BY <1>1, <1>2, <2>1, TopFrame DEF Headers
    <2>4. frames' = <<f>> /\ frames' \in Seq(Frame) /\ Len(frames') = 1 /\ frames'[1] = f
          /\ frames' # <<>>
      <3>1. frames' = <<f>>  BY <2>2, <2>3
      <3>2. QED  BY <2>2, <3>1
    <2>5. Shape(frames')  BY <2>2, <2>4 DEF Shape
    <2>6. HeaderOf(frames', {"body"})  BY <2>2, <2>4 DEF HeaderOf
    <2>7. ~stmtDone'  BY <1>2, <2>1 DEF FlagsOK, Controls
    <2>8. QED  BY <1>4, <2>1, <2>4, <2>5, <2>6, <2>7
  <1>15. ASSUME EnterBlock PROVE FramesOK' /\ frames' \in Seq(Frame)
    <2> DEFINE f == [kind |-> "block", scope |-> scopes + 1]
    <2>1. frames' = Append(frames, f) /\ ~isFuncScope' /\ ~stmtDone'
      BY <1>15 DEF EnterBlock, OpenBlock, AtStatement
    <2>2. f \in Frame /\ f.kind \in Nested  BY <1>1 DEF Frame, Nested
    <2> HIDE DEF f
    <2>3. HeaderOf(frames, {"body"})
      BY <1>1, <1>2, <1>15, InsideBody DEF EnterBlock, AtStatement
    <2>4. Shape(frames') /\ HeaderOf(frames', {"body"}) /\ frames' \in Seq(Frame)
      BY <1>1, <1>2, <2>1, <2>2, <2>3, ShapePush
    <2>5. QED  BY <1>4, <2>1, <2>4
  <1>16. ASSUME LeaveBlock \/ LeaveBody PROVE FramesOK' /\ frames' \in Seq(Frame)
    <2>1. frames # <<>> /\ Last(frames).kind \in {"body", "block"} /\ frames' = Front(frames)
          /\ isFuncScope' = isFuncScope /\ stmtDone' = Returns(Front(frames))
      BY <1>16 DEF LeaveBlock, LeaveBody, CloseScope, Inside
    <2>2. HeaderOf(frames, {"body"})
      BY <1>1, <1>2, <1>16, InsideBody DEF LeaveBlock, LeaveBody, Inside
    <2>3. ~isFuncScope'  BY <1>5, <2>1, <2>2
    <2>4. frames' \in Seq(Frame) /\ Shape(frames')
      BY <1>1, <1>2, <2>1, TopFrame
    <2>5. frames' = <<>> \/ HeaderOf(frames', {"body"})
      <3>1. CASE Last(frames).kind = "body"  BY <1>1, <1>2, <2>1, <3>1, TopFrame
      <3>2. CASE Last(frames).kind = "block"
        BY <1>1, <1>2, <2>1, <3>2, TopFrame DEF Nested
      <3>3. QED  BY <2>1, <3>1, <3>2
    <2>6. stmtDone' => frames' # <<>> /\ Last(frames').kind \in Controls
      BY <2>1 DEF Returns
    <2>7. QED  BY <1>4, <2>3, <2>4, <2>5, <2>6
  <1>17. ASSUME EnterLoop \/ EnterIf PROVE FramesOK' /\ frames' \in Seq(Frame)
    <2>1. PICK kind \in {"loop", "then"} : EnterControl(kind)
      BY <1>17 DEF EnterLoop, EnterIf
    <2> DEFINE f == [kind |-> kind, scope |-> 0]
    <2>2. frames' = Append(frames, f) /\ isFuncScope' = isFuncScope /\ ~stmtDone'
      BY <2>1 DEF EnterControl, SameNames, AtStatement
    <2>3. f \in Frame /\ f.kind \in Nested  BY DEF Frame, Nested, Controls
    <2> HIDE DEF f
    <2>4. HeaderOf(frames, {"body"})
      BY <1>1, <1>2, <2>1, InsideBody DEF EnterControl, AtStatement
    <2>5. Shape(frames') /\ HeaderOf(frames', {"body"}) /\ frames' \in Seq(Frame)
      BY <1>1, <1>2, <2>2, <2>3, <2>4, ShapePush
    <2>6. QED  BY <1>4, <1>5, <2>2, <2>4, <2>5
  <1>18. ASSUME FinishLoop \/ FinishIf PROVE FramesOK' /\ frames' \in Seq(Frame)
    <2>1. frames # <<>> /\ Last(frames).kind \in Controls /\ frames' = Front(frames)
          /\ isFuncScope' = isFuncScope /\ stmtDone' = Returns(Front(frames))
      BY <1>18 DEF FinishLoop, FinishIf, LeaveControl, SameNames, Inside, Controls
    <2>2. /\ HeaderOf(frames, {"body"}) /\ HeaderOf(frames', {"body"})
          /\ frames' \in Seq(Frame) /\ Shape(frames')
      BY <1>1, <1>2, <2>1, TopFrame DEF Nested
    <2>3. stmtDone' => frames' # <<>> /\ Last(frames').kind \in Controls
      BY <2>1 DEF Returns
    <2>4. QED  BY <1>4, <1>5, <2>1, <2>2, <2>3
  <1>19. ASSUME EnterElse PROVE FramesOK' /\ frames' \in Seq(Frame)
    <2>1. frames # <<>> /\ Last(frames).kind = "then" /\ ~stmtDone' /\ isFuncScope' = isFuncScope
          /\ frames' = [frames EXCEPT ![Len(frames)].kind = "else"]
      BY <1>19 DEF EnterElse, SameNames, Inside
    <2> DEFINE f == [Last(frames) EXCEPT !.kind = "else"]
    <2>2. "else" \in Controls /\ "then" \in Nested  BY DEF Controls, Nested
    <2>3. frames' = Append(Front(frames), f) /\ f \in Frame /\ f.kind = "else"
      BY <1>1, <2>1, <2>2, ReplaceKind
    <2> HIDE DEF f
    <2>4. /\ HeaderOf(frames, {"body"}) /\ HeaderOf(Front(frames), {"body"})
          /\ Front(frames) \in Seq(Frame) /\ Shape(Front(frames))
      BY <1>1, <1>2, <2>1, <2>2, TopFrame
    <2>5. f.kind \in Nested  BY <2>2, <2>3 DEF Nested
    <2>6. Shape(frames') /\ HeaderOf(frames', {"body"}) /\ frames' \in Seq(Frame)
      BY <2>3, <2>4, <2>5, ShapePush
    <2>7. QED  BY <1>4, <1>5, <2>1, <2>4, <2>6
  <1>20. QED
    BY <1>7, <1>8, <1>9, <1>10, <1>11, <1>12, <1>13, <1>14, <1>15, <1>16, <1>17, <1>18, <1>19
       DEF Next

-----------------------------------------------------------------------------
(* NodeStack.                                                               *)

\* The program, and two nodes for each of its external functions.
Root(n) == <<"program">> \o [i \in 1 .. 2 * n |-> "func"]
\* The header under way is an external function's.
AtExtern == HeaderOf(frames, {"extern"})

\* The root of the stack.
LEMMA RootFacts ==
    ASSUME NEW n \in Nat
    PROVE  /\ Root(n) \in Seq(NodeClass) /\ Root(n) # <<>>
           /\ (Root(n) \o <<"func">>) \o <<"func">> = Root(n + 1)
  <1> DEFINE funcs(m) == [i \in 1 .. m |-> "func"]
             m == 2 * n
  <1>1. "program" \in NodeClass /\ "func" \in NodeClass  BY DEF NodeClass
  <1>2. m \in Nat /\ 2 * (n + 1) = m + 1 + 1  OBVIOUS
  <1> HIDE DEF NodeClass, m
  <1>3. <<"program">> \in Seq(NodeClass) /\ <<"func">> \in Seq(NodeClass)
        /\ Len(<<"program">>) = 1
    BY <1>1
  <1>4. \A k \in Nat : funcs(k) \in Seq(NodeClass)  BY <1>1
  <1>5. ASSUME NEW k \in Nat PROVE funcs(k + 1) = funcs(k) \o <<"func">>
    <2> DEFINE a == funcs(k + 1)
               b == funcs(k) \o <<"func">>
    <2>1. a \in Seq(NodeClass) /\ Len(a) = k + 1 /\ \A i \in 1 .. k + 1 : a[i] = "func"
      BY <1>1
    <2>2. funcs(k) \in Seq(NodeClass) /\ Len(funcs(k)) = k /\ \A i \in 1 .. k : funcs(k)[i] = "func"
      BY <1>1
    <2> HIDE DEF funcs
    <2>3. b \in Seq(NodeClass) /\ Len(b) = k + 1 /\ \A i \in 1 .. k + 1 : b[i] = "func"
      <3>1. Len(<<"func">>) = 1 /\ <<"func">>[1] = "func"  OBVIOUS
      <3>2. /\ b \in Seq(NodeClass) /\ Len(b) = k + 1
            /\ \A i \in 1 .. k + 1 : b[i] = IF i <= k THEN funcs(k)[i] ELSE <<"func">>[i - k]
        BY <1>3, <2>2, <3>1, ConcatProperties
      <3>3. \A i \in 1 .. k + 1 : i <= k => i \in 1 .. k  OBVIOUS
      <3>4. \A i \in 1 .. k + 1 : ~(i <= k) => i - k = 1  OBVIOUS
      <3> HIDE DEF b
      <3>5. QED  BY <2>2, <3>1, <3>2, <3>3, <3>4
    <2> HIDE DEF a, b
    <2>4. a = b  BY <2>1, <2>3, SameSequence
    <2>5. QED  BY <2>4 DEF a, b, funcs
  <1> HIDE DEF funcs
  <1>6. /\ funcs(m) \in Seq(NodeClass) /\ funcs(m + 1) = funcs(m) \o <<"func">>
        /\ funcs(m + 1) \in Seq(NodeClass)
        /\ funcs(m + 1 + 1) = funcs(m + 1) \o <<"func">>
    <2> DEFINE k == m + 1
    <2>1. k \in Nat  BY <1>2
    <2> HIDE DEF k
    <2>2. funcs(k + 1) = funcs(k) \o <<"func">> /\ funcs(k) \in Seq(NodeClass)
      BY <1>4, <1>5, <2>1
    <2>3. QED  BY <1>2, <1>4, <1>5, <2>2 DEF k
  <1> DEFINE p == <<"program">>
  <1>7. Root(n) = p \o funcs(m) /\ Root(n + 1) = p \o funcs(m + 1 + 1)
    <2>1. Root(n) = p \o funcs(m)  BY DEF Root, funcs, m
    <2>2. Root(n + 1) = p \o funcs(2 * (n + 1))  BY DEF Root, funcs
    <2>3. QED  BY <1>2, <2>1, <2>2
  <1> HIDE DEF p
  <1>8. p \in Seq(NodeClass) /\ Len(p) = 1  BY <1>3 DEF p
  <1>9. Root(n) \in Seq(NodeClass) /\ Root(n) # <<>>
    <2>1. Len(p \o funcs(m)) = Len(p) + Len(funcs(m)) /\ p \o funcs(m) \in Seq(NodeClass)
      BY <1>6, <1>8, ConcatProperties
    <2>2. Len(funcs(m)) \in Nat  BY <1>6
    <2>3. Len(p \o funcs(m)) # 0  BY <1>8, <2>1, <2>2
    <2>4. QED  BY <1>7, <2>1, <2>3
  <1>10. (Root(n) \o <<"func">>) \o <<"func">> = Root(n + 1)
    <2> DEFINE z == <<"func">>
    <2>1. z \in Seq(NodeClass)  BY <1>3
    <2>2. \A s \in Seq(NodeClass) : (p \o s) \o z = p \o (s \o z)
      <3> HIDE DEF z
      <3>1. QED  BY <1>8, <2>1, ConcatAssociative
    <2>3. (p \o funcs(m)) \o z = p \o funcs(m + 1)  BY <1>6, <2>2
    <2>4. (p \o funcs(m + 1)) \o z = p \o funcs(m + 1 + 1)  BY <1>6, <2>2
    <2>5. QED  BY <1>7, <2>3, <2>4
  <1>11. QED  BY <1>9, <1>10

\* The external functions are finitely many.
LEMMA ExternsFinite ==
    ASSUME funcDecls \in Seq(FuncDecl)
    PROVE  /\ IsFiniteSet(Externs) /\ Cardinality(Externs) \in Nat
           /\ Externs \subseteq 1 .. Len(funcDecls)
  <1>1. Len(funcDecls) \in Nat /\ DOMAIN funcDecls = 1 .. Len(funcDecls)  OBVIOUS
  <1>2. IsFiniteSet(1 .. Len(funcDecls))  BY <1>1, FS_Interval
  <1>3. Externs \subseteq 1 .. Len(funcDecls)  BY <1>1 DEF Externs
  <1>4. IsFiniteSet(Externs)  BY <1>2, <1>3, FS_Subset
  <1>5. QED  BY <1>3, <1>4, FS_CardinalityType

\* The stack while a program is parsed.
LEMMA NodesAre ==
    ASSUME TypeOK, NodesFollowNesting, status # "done"
    PROVE  /\ nodeStack = Root(Cardinality(Externs)) \o NodesIn(frames)
           /\ Cardinality(Externs) \in Nat
           /\ Root(Cardinality(Externs)) \in Seq(NodeClass)
           /\ NodesIn(frames) \in Seq(NodeClass) /\ frames \in Seq(Frame)
  <1>1. Cardinality(Externs) \in Nat  BY ExternsFinite DEF TypeOK
  <1>2. frames \in Seq(Frame)  BY DEF TypeOK
  <1>3. NodesIn(frames) \in Seq(NodeClass)
    <2>1. [kind |-> "block", scope |-> 0] \in Frame  BY DEF Frame
    <2>2. QED  BY <1>2, <2>1, FramesAppend
  <1>4. nodeStack = Root(Cardinality(Externs)) \o NodesIn(frames)
    BY DEF NodesFollowNesting, Root, FrameNodes
  <1>5. QED  BY <1>1, <1>2, <1>3, <1>4, RootFacts

\* ... and what suffices after a step.
LEMMA NodesSuffice ==
    ASSUME frames' \in Seq(Frame), NEW n \in Nat, nodeStack' = Root(n) \o NodesIn(frames'),
           n = Cardinality(Externs')
    PROVE  NodesFollowNesting' /\ nodeStack' \in Seq(NodeClass) /\ nodeStack' # <<>>
  <1>1. Root(n) \in Seq(NodeClass) /\ Root(n) # <<>>  BY RootFacts
  <1>2. NodesIn(frames') \in Seq(NodeClass)
    <2>1. [kind |-> "block", scope |-> 0] \in Frame  BY DEF Frame
    <2>2. QED  BY <2>1, FramesAppend
  <1>3. nodeStack' \in Seq(NodeClass) /\ nodeStack' # <<>>
    BY <1>1, <1>2, ConcatProperties, ConcatEqualIffEmpty
  <1>4. NodesFollowNesting'
    BY DEF NodesFollowNesting, Root, FrameNodes
  <1>5. QED  BY <1>3, <1>4

\* While no function begins and no external one ends, the external functions stay.
LEMMA ExternsStay ==
    ASSUME UNCHANGED <<funcDecls, programList, cur>>, AtExtern <=> AtExtern'
    PROVE  Externs' = Externs
  BY DEF Externs, AtExtern, HeaderOf, ProgAst

\* A sequence of two elements.
LEMMA JoinPair ==
    ASSUME NEW x, NEW y
    PROVE  <<x>> \o <<y>> = <<x, y>>
  <1> DEFINE a == <<x>> \o <<y>>
             b == <<x, y>>
  <1>1. a \in Seq({x, y}) /\ Len(a) = 2 /\ a[1] = x /\ a[2] = y  OBVIOUS
  <1>2. b \in Seq({x, y}) /\ Len(b) = 2 /\ b[1] = x /\ b[2] = y  OBVIOUS
  <1>3. \A i \in 1 .. 2 : i = 1 \/ i = 2  OBVIOUS
  <1> HIDE DEF a, b
  <1>4. a = b  BY <1>1, <1>2, <1>3, SameSequence
  <1>5. QED  BY <1>4 DEF a, b

\* Pushing nodes and popping them.
LEMMA NodesPush ==
    ASSUME NEW r \in Seq(NodeClass), NEW s \in Seq(NodeClass), NEW z \in Seq(NodeClass)
    PROVE  /\ (r \o s) \o z = r \o (s \o z)
           /\ SubSeq((r \o s) \o z, 1, Len((r \o s) \o z) - Len(z)) = r \o s
           /\ \A c \in NodeClass : Append(r \o s, c) = r \o (s \o <<c>>)
  <1>1. (r \o s) \o z = r \o (s \o z)  BY ConcatAssociative
  <1> DEFINE t == r \o s
  <1>2. t \in Seq(NodeClass)  BY ConcatProperties
  <1> HIDE DEF t
  <1>3. SubSeq(t \o z, 1, Len(t)) = t /\ Len(t \o z) = Len(t) + Len(z)
        /\ Len(t) \in Nat /\ Len(z) \in Nat
    BY <1>2, PrefixOfConcat
  <1>4. Len(t \o z) - Len(z) = Len(t)  BY <1>3
  <1>5. ASSUME NEW c \in NodeClass PROVE Append(t, c) = r \o (s \o <<c>>)
    <2>1. Append(t, c) = t \o <<c>>  BY <1>2
    <2>2. <<c>> \in Seq(NodeClass)  OBVIOUS
    <2>3. (r \o s) \o <<c>> = r \o (s \o <<c>>)  BY <2>2, ConcatAssociative
    <2>4. QED  BY <2>1, <2>3 DEF t
  <1>6. QED  BY <1>1, <1>3, <1>4, <1>5 DEF t

\* The stack of nodes follows the frames.
LEMMA NextNodes ==
    ASSUME TypeOK, InputsOK, FramesOK, NodesFollowNesting, LaterUnparsed, Next
    PROVE  NodesFollowNesting' /\ nodeStack' \in Seq(NodeClass) /\ nodeStack' # <<>>
  <1> DEFINE Goal == NodesFollowNesting' /\ nodeStack' \in Seq(NodeClass) /\ nodeStack' # <<>>
             n == Cardinality(Externs)
             r == Root(n)
             s == NodesIn(frames)
  <1>1. frames \in Seq(Frame) /\ scopes \in Nat /\ Shape(frames) /\ funcDecls \in Seq(FuncDecl)
    BY DEF TypeOK, FramesOK
  <1>2. /\ frames' \in Seq(Frame) /\ Shape(frames')
    BY NextFrames DEF FramesOK
  <1>3. n \in Nat /\ r \in Seq(NodeClass) /\ s \in Seq(NodeClass)
    <2>1. n \in Nat  BY <1>1, ExternsFinite
    <2>2. [kind |-> "block", scope |-> 0] \in Frame  BY DEF Frame
    <2>3. QED  BY <1>1, <2>1, <2>2, RootFacts, FramesAppend
  <1>4. ASSUME Steady PROVE nodeStack = r \o s
    <2>1. status # "done"  BY <1>4 DEF Steady, Running
    <2>2. QED  BY <2>1, NodesAre
  <1> HIDE DEF Goal
  <1>5. ASSUME Externs' = Externs, nodeStack' = r \o NodesIn(frames') PROVE Goal
    BY <1>2, <1>3, <1>5, NodesSuffice DEF Goal
  <1> HIDE DEF n, r, s
  <1>6. ASSUME Steady, UNCHANGED <<frames, nodeStack, funcDecls>> PROVE Goal
    <2>1. Externs' = Externs  BY <1>6, ExternsStay DEF Steady, AtExtern
    <2>2. nodeStack' = r \o NodesIn(frames')  BY <1>4, <1>6 DEF s
    <2>3. QED  BY <1>5, <2>1, <2>2
  <1>7. ASSUME Steady, HeaderOf(frames, {"body"}), HeaderOf(frames', {"body"}) \/ frames' = <<>>,
               UNCHANGED funcDecls
        PROVE  Externs' = Externs
    <2>1. ~AtExtern /\ ~AtExtern'  BY <1>7 DEF AtExtern, HeaderOf
    <2>2. QED  BY <1>7, <2>1, ExternsStay DEF Steady
  <1>8. FinishProgram \/ Steady  BY SteadySteps
  <1>9. ASSUME FinishProgram PROVE Goal
    <2>1. nodeStack' = <<"program">> /\ frames' = <<>> /\ cur' = cur + 1 /\ cur <= Len(programList)
          /\ status' = (IF cur = Len(programList) THEN "done" ELSE status)
          /\ programList' = programList /\ funcDecls' = funcDecls /\ cur \in Nat
          /\ programList \in Seq(File)
      BY <1>9 DEF FinishProgram, TopLevel, Running, TypeOK, inputs
    <2>2. nodeStack' \in Seq(NodeClass) /\ nodeStack' # <<>>
      <3>1. "program" \in NodeClass  BY DEF NodeClass
      <3> HIDE DEF NodeClass
      <3>2. QED  BY <2>1, <3>1
    <2>3. CASE cur = Len(programList)
      BY <2>1, <2>2, <2>3 DEF NodesFollowNesting, Goal
    <2>4. CASE cur # Len(programList)
      <3>1. cur + 1 \in DOMAIN programList /\ cur < cur + 1  BY <2>1, <2>4
      <3>2. Unparsed(programList[cur + 1])  BY <3>1 DEF LaterUnparsed
      <3>3. ProgAst' = programList[cur + 1]  BY <2>1 DEF ProgAst
      <3>4. Externs' = {}
        BY <2>1, <3>2, <3>3 DEF Externs, Unparsed
      <3>5. Cardinality(Externs') = 0  BY <3>4, FS_EmptySet
      <3>6. Root(0) = <<"program">>
        <4>1. [i \in 1 .. 2 * 0 |-> "func"] = <<>>  OBVIOUS
        <4>2. <<"program">> \o <<>> = <<"program">>  OBVIOUS
        <4>3. QED  BY <4>1, <4>2 DEF Root
      <3>7. nodeStack' = Root(0) \o NodesIn(frames')
        <4>1. NodesIn(frames') = <<>>  BY <2>1, NoFrames
        <4>2. Root(0) \in Seq(NodeClass)  BY RootFacts
        <4>3. Root(0) \o <<>> = Root(0)  BY <4>2, ConcatEmptySeq
        <4>4. QED  BY <2>1, <3>6, <4>1, <4>3
      <3>8. QED  BY <1>2, <3>5, <3>7, NodesSuffice DEF Goal
    <2>5. QED  BY <2>3, <2>4
  <1>10. ASSUME Steady, GlobalVar \/ Param \/ LocalVar PROVE Goal
    BY <1>6, <1>10 DEF GlobalVar, Param, LocalVar, DeclareVar
  <1>11. ASSUME Steady, Redefined \/ IdRef \/ Call \/ SyntaxError PROVE Goal
    BY <1>6, <1>11 DEF Redefined, IdRef, Call, SyntaxError, Resolve, nesting
  <1>12. ASSUME Steady, SimpleStmt PROVE Goal
    BY <1>6, <1>12 DEF SimpleStmt, SameNames
  <1>13. ASSUME Steady, NEW c \in NodeClass, NEW f \in Frame, NodesOf(f) = <<c>>,
                Externs' = Externs, frames' = Append(frames, f), nodeStack' = Append(nodeStack, c)
         PROVE  Goal
    <2>1. NodesIn(frames') = s \o <<c>>  BY <1>1, <1>13, FramesAppend DEF s
    <2>2. Append(r \o s, c) = r \o (s \o <<c>>)
      <3>1. <<c>> \in Seq(NodeClass)  OBVIOUS
      <3>2. QED  BY <1>3, <3>1, NodesPush
    <2>3. QED  BY <1>4, <1>5, <1>13, <2>1, <2>2
  <1>14. ASSUME Steady, NEW fs \in Seq(Frame), NEW z \in Seq(NodeClass), s = NodesIn(fs) \o z,
                Externs' = Externs, frames' = fs,
                nodeStack' = SubSeq(nodeStack, 1, Len(nodeStack) - Len(z))
         PROVE  Goal
    <2> DEFINE t == NodesIn(fs)
    <2>1. t \in Seq(NodeClass)
      <3>1. [kind |-> "block", scope |-> 0] \in Frame  BY DEF Frame
      <3>2. QED  BY <3>1, FramesAppend
    <2> HIDE DEF t
    <2>2. nodeStack = r \o (t \o z)  BY <1>4, <1>14 DEF t
    <2>3. ((r \o t) \o z = r \o (t \o z))
          /\ (SubSeq((r \o t) \o z, 1, Len((r \o t) \o z) - Len(z)) = r \o t)
      <3>1. r \in Seq(NodeClass) /\ z \in Seq(NodeClass)  BY <1>3
      <3> HIDE DEF NodeClass
      <3>2. QED  BY <2>1, <3>1, NodesPush
    <2>4. nodeStack' = r \o t  BY <1>14, <2>2, <2>3
    <2>5. QED  BY <1>5, <1>14, <2>4 DEF t
  <1>15. ASSUME Steady, DeclarationAsBody PROVE Goal
    <2>1. PICK z \in Seq(NodeClass) : Len(z) = Waiting /\ s = NodesIn(frames') \o z
      BY <1>1, <1>15, PopWaiting DEF s, FrameNodes
    <2>2. nodeStack' = SubSeq(nodeStack, 1, Len(nodeStack) - Len(z)) /\ funcDecls' = funcDecls
      BY <1>15, <2>1 DEF DeclarationAsBody, DeclareVar
    <2>3. HeaderOf(frames, {"body"}) /\ HeaderOf(frames', {"body"})
      BY <1>1, <1>15, PopWaiting
    <2>4. Externs' = Externs  BY <1>7, <1>15, <2>2, <2>3
    <2>5. QED  BY <1>2, <1>14, <1>15, <2>1, <2>2, <2>4
  <1>16. ASSUME Steady, BeginFuncExtern \/ BeginFuncDef PROVE Goal
    <2>1. PICK kind \in Headers :
              /\ frames = <<>> /\ frames' = Append(frames, [kind |-> kind, scope |-> scopes + 1])
              /\ nodeStack' = Append(nodeStack, "func")
              /\ \E name \in FuncName :
                     funcDecls' = Append(funcDecls, [name |-> name, prog |-> ProgAst,
                                                     declare |-> (kind = "extern")])
      <3>1. CASE BeginFuncExtern
        <4>1. "extern" \in Headers  BY DEF Headers
        <4>2. QED  BY <3>1, <4>1 DEF BeginFuncExtern, BeginFunc, TopLevel
      <3>2. CASE BeginFuncDef
        <4>1. "params" \in Headers  BY DEF Headers
        <4>2. QED  BY <3>2, <4>1 DEF BeginFuncDef, BeginFunc, TopLevel
      <3>3. QED  BY <1>16, <3>1, <3>2
    <2> DEFINE f == [kind |-> kind, scope |-> scopes + 1]
    <2>2. f \in Frame /\ f.kind = kind
      BY <1>1 DEF Frame, Headers
    <2>3. NodesOf(f) = <<"func">>  BY DEF NodesOf, Headers, Controls
    <2> HIDE DEF f
    <2>4. frames' = Append(frames, f)  BY <2>1 DEF f
    <2>5. frames'[1].kind = kind /\ frames' # <<>>
      <3>1. frames' = <<f>>  BY <2>1, <2>4
      <3>2. QED  BY <2>2, <3>1
    <2>6. PICK name \in FuncName :
              funcDecls' = Append(funcDecls, [name |-> name, prog |-> ProgAst,
                                              declare |-> (kind = "extern")])
      BY <2>1
    <2> DEFINE g == [name |-> name, prog |-> ProgAst, declare |-> (kind = "extern")]
               k == Len(funcDecls)
    <2>7. g.declare <=> kind = "extern"  OBVIOUS
    <2> HIDE DEF g
    <2>8. /\ k \in Nat /\ DOMAIN funcDecls = 1 .. k /\ DOMAIN funcDecls' = 1 .. k + 1
          /\ Len(funcDecls') = k + 1 /\ funcDecls'[k + 1] = g
          /\ \A i \in 1 .. k : funcDecls'[i] = funcDecls[i]
      BY <1>1, <2>6 DEF g
    <2> HIDE DEF k
    <2>9. ProgAst' = ProgAst  BY <1>16 DEF Steady, ProgAst
    <2>10. \A i \in 1 .. k + 1 : (i \in 1 .. k /\ i < k + 1) \/ (i = k + 1 /\ ~(i < k + 1))
      BY <2>8
    <2>11. \A i \in 1 .. k : i \in 1 .. k + 1  BY <2>8
    <2>12. Externs = {i \in 1 .. k : funcDecls[i].declare /\ funcDecls[i].prog = ProgAst}
      BY <2>1, <2>8 DEF Externs
    <2>13. Externs' = {i \in 1 .. k + 1 : funcDecls'[i].declare /\ funcDecls'[i].prog = ProgAst
                                           /\ (kind = "extern" => i < k + 1)}
      BY <2>5, <2>8, <2>9 DEF Externs
    <2>14. Externs' = Externs
      <3>1. \A i \in 1 .. k : i \in Externs' <=> i \in Externs
        BY <2>8, <2>10, <2>11, <2>12, <2>13
      <3>2. k + 1 \notin Externs'  BY <2>7, <2>8, <2>10, <2>13
      <3>3. k + 1 \notin Externs  BY <2>8, <2>12
      <3>4. QED  BY <2>10, <2>12, <2>13, <3>1, <3>2, <3>3
    <2>15. "func" \in NodeClass  BY DEF NodeClass
    <2>16. QED  BY <1>13, <1>16, <2>1, <2>2, <2>3, <2>4, <2>14, <2>15
  <1>17. ASSUME Steady, FinishFuncExtern PROVE Goal
    <2>1. frames # <<>> /\ Last(frames).kind = "extern" /\ frames' = Front(frames)
          /\ nodeStack' = Append(nodeStack, "func") /\ funcDecls' = funcDecls
      BY <1>17 DEF FinishFuncExtern, Inside
    <2>2. /\ frames' = <<>> /\ frames[1] = Last(frames) /\ Last(frames) \in Frame
          /\ s = NodesIn(Front(frames)) \o NodesOf(Last(frames))
      BY <1>1, <2>1, TopFrame DEF Headers, s
    <2>3. NodesOf(Last(frames)) = <<"func">>  BY <2>1 DEF NodesOf, Controls
    <2>4. s = <<"func">>
      <3>1. NodesIn(Front(frames)) = <<>>  BY <2>1, <2>2, NoFrames
      <3>2. <<>> \o <<"func">> = <<"func">>  OBVIOUS
      <3>3. QED  BY <2>2, <2>3, <3>1, <3>2
    <2>5. nodeStack' = Root(n + 1)
      <3>1. nodeStack = r \o <<"func">>  BY <1>4, <1>17, <2>4
      <3>2. r \o <<"func">> \in Seq(NodeClass)  BY <1>3, <2>4, ConcatProperties
      <3>3. Append(r \o <<"func">>, "func") = (r \o <<"func">>) \o <<"func">>
        <4> DEFINE q == r \o <<"func">>
        <4> HIDE DEF q
        <4>1. q \in Seq(NodeClass)  BY <3>2 DEF q
        <4>2. Append(q, "func") = q \o <<"func">>  BY <4>1
        <4>3. QED  BY <4>2 DEF q
      <3>4. (r \o <<"func">>) \o <<"func">> = Root(n + 1)  BY <1>3, RootFacts DEF r
      <3>5. QED  BY <2>1, <3>1, <3>3, <3>4
    <2> DEFINE k == Len(funcDecls)
    <2>6. /\ funcDecls # <<>> /\ Last(funcDecls).prog = ProgAst
          /\ Last(funcDecls).declare
      BY <2>1, <2>2 DEF FramesOK, FlagsOK, AtHeader, HeaderOf, Headers
    <2>7. k \in Nat \ {0} /\ DOMAIN funcDecls = 1 .. k /\ Last(funcDecls) = funcDecls[k]
      BY <1>1, <2>6 DEF Last
    <2> HIDE DEF k
    <2>8. ProgAst' = ProgAst  BY <1>17 DEF Steady, ProgAst
    <2>9. Externs = {i \in 1 .. k : funcDecls[i].declare /\ funcDecls[i].prog = ProgAst
                                     /\ i < k}
      BY <2>1, <2>2, <2>7 DEF Externs, k
    <2>10. Externs' = {i \in 1 .. k : funcDecls[i].declare /\ funcDecls[i].prog = ProgAst}
      BY <2>1, <2>2, <2>7, <2>8 DEF Externs
    <2>11. Externs' = Externs \cup {k} /\ k \notin Externs
      <3>1. k \in 1 .. k /\ \A i \in 1 .. k : i < k \/ (i = k /\ ~(i < k))  BY <2>7
      <3>2. QED  BY <2>6, <2>7, <2>9, <2>10, <3>1
    <2>12. Cardinality(Externs') = n + 1
      <3>1. IsFiniteSet(Externs)  BY <1>1, ExternsFinite
      <3>2. Cardinality(Externs \cup {k}) = Cardinality(Externs) + 1
        BY <2>11, <3>1, FS_AddElement
      <3>3. QED  BY <2>11, <3>2 DEF n
    <2>13. nodeStack' = Root(n + 1) \o NodesIn(frames') /\ n + 1 \in Nat
      <3>1. NodesIn(frames') = <<>>  BY <2>2, NoFrames
      <3>2. n + 1 \in Nat  BY <1>3
      <3>3. Root(n + 1) \in Seq(NodeClass)  BY <3>2, RootFacts
      <3>4. Root(n + 1) \o <<>> = Root(n + 1)  BY <3>3, ConcatEmptySeq
      <3>5. QED  BY <2>5, <3>1, <3>2, <3>4
    <2>14. QED  BY <1>2, <2>12, <2>13, NodesSuffice DEF Goal
  <1>18. ASSUME Steady, BeginBody PROVE Goal
    <2>1. frames # <<>> /\ Last(frames).kind = "params" /\ funcDecls' = funcDecls
          /\ frames' = [frames EXCEPT ![Len(frames)].kind = "body"]
          /\ nodeStack' = Append(nodeStack, "block")
      BY <1>18 DEF BeginBody, Inside, OpenBlock
    <2> DEFINE f == [Last(frames) EXCEPT !.kind = "body"]
    <2>2. frames' = Append(Front(frames), f) /\ f \in Frame /\ f.kind = "body"
      BY <1>1, <2>1, ReplaceKind
    <2> HIDE DEF f
    <2>3. Front(frames) = <<>> /\ frames[1] = Last(frames)
          /\ s = NodesIn(Front(frames)) \o NodesOf(Last(frames))
      BY <1>1, <2>1, TopFrame DEF Headers, s
    <2>4. NodesIn(frames') = <<>> \o NodesOf(f) /\ <<>> \in Seq(Frame)
      <3>1. <<>> \in Seq(Frame)  OBVIOUS
      <3>2. QED  BY <2>2, <2>3, <3>1, NoFrames, FramesAppend
    <2>5. s = <<"func">> /\ NodesIn(frames') = <<"func", "block">>
      <3>1. NodesOf(f) = <<"func", "block">> /\ NodesOf(Last(frames)) = <<"func">>
        BY <2>1, <2>2 DEF NodesOf, Controls
      <3>2. <<>> \o <<"func">> = <<"func">> /\ <<>> \o <<"func", "block">> = <<"func", "block">>
        OBVIOUS
      <3>3. QED  BY <2>3, <2>4, <3>1, <3>2, NoFrames
    <2>6. "block" \in NodeClass  BY DEF NodeClass
    <2>7. nodeStack' = r \o NodesIn(frames')
      <3>1. <<"block">> \in Seq(NodeClass)  BY <2>6
      <3>2. Append(r \o s, "block") = r \o (s \o <<"block">>)
        BY <1>3, <2>6, <3>1, NodesPush
      <3>3. <<"func">> \o <<"block">> = <<"func", "block">>  BY JoinPair
      <3>4. QED  BY <1>4, <1>18, <2>1, <2>5, <3>2, <3>3
    <2>8. Externs' = Externs
      <3>1. ~AtExtern  BY <2>1, <2>3 DEF AtExtern, HeaderOf
      <3>2. frames' = <<f>>  BY <2>2, <2>3
      <3>3. ~AtExtern'  BY <2>2, <3>2 DEF AtExtern, HeaderOf
      <3>4. QED  BY <1>18, <2>1, <3>1, <3>3, ExternsStay DEF Steady
    <2>9. QED  BY <1>5, <2>7, <2>8
  <1>19. ASSUME Steady, EnterBlock PROVE Goal
    <2> DEFINE f == [kind |-> "block", scope |-> scopes + 1]
    <2>1. frames' = Append(frames, f) /\ nodeStack' = Append(nodeStack, "block")
          /\ funcDecls' = funcDecls
      BY <1>19 DEF EnterBlock, OpenBlock
    <2>2. f \in Frame /\ f.kind = "block" /\ f.kind \in Nested  BY <1>1 DEF Frame, Nested
    <2> HIDE DEF f
    <2>3. NodesOf(f) = <<"block">>  BY <2>2 DEF NodesOf, Controls
    <2>4. HeaderOf(frames, {"body"})
      BY <1>1, <1>19, InsideBody DEF EnterBlock, AtStatement
    <2>5. HeaderOf(frames', {"body"})  BY <1>1, <2>1, <2>2, <2>4, ShapePush
    <2>6. Externs' = Externs  BY <1>7, <1>19, <2>1, <2>4, <2>5
    <2>7. "block" \in NodeClass  BY DEF NodeClass
    <2>8. QED  BY <1>13, <1>19, <2>1, <2>2, <2>3, <2>6, <2>7
  <1>20. ASSUME Steady, LeaveBlock \/ LeaveBody PROVE Goal
    <2> DEFINE z == NodesOf(Last(frames))
    <2>1. frames # <<>> /\ Last(frames).kind \in {"body", "block"} /\ frames' = Front(frames)
          /\ funcDecls' = funcDecls
          /\ nodeStack' = SubSeq(nodeStack, 1, Len(nodeStack)
                                                 - (IF Last(frames).kind = "body" THEN 2 ELSE 1))
      BY <1>20 DEF LeaveBlock, LeaveBody, CloseScope, Inside
    <2>2. Last(frames) \in Frame /\ Front(frames) \in Seq(Frame) /\ s = NodesIn(Front(frames)) \o z
      BY <1>1, <2>1, TopFrame DEF s
    <2>3. z \in Seq(NodeClass)  BY <1>1, <2>2, FramesAppend
    <2>4. Len(z) = IF Last(frames).kind = "body" THEN 2 ELSE 1
      BY <2>1 DEF NodesOf, Controls
    <2> HIDE DEF z
    <2>5. HeaderOf(frames, {"body"})
      BY <1>1, <1>20, InsideBody DEF LeaveBlock, LeaveBody, Inside
    <2>6. frames' = <<>> \/ HeaderOf(frames', {"body"})
      <3>1. CASE Last(frames).kind = "body"  BY <1>1, <2>1, <3>1, TopFrame
      <3>2. CASE Last(frames).kind = "block"
        BY <1>1, <2>1, <3>2, TopFrame DEF Nested
      <3>3. QED  BY <2>1, <3>1, <3>2
    <2>7. Externs' = Externs  BY <1>7, <1>20, <2>1, <2>5, <2>6
    <2>8. nodeStack' = SubSeq(nodeStack, 1, Len(nodeStack) - Len(z))  BY <2>1, <2>4
    <2>9. QED  BY <1>14, <1>20, <2>1, <2>2, <2>3, <2>7, <2>8
  <1>21. ASSUME Steady, EnterLoop \/ EnterIf PROVE Goal
    <2>1. PICK kind \in {"loop", "then"} : EnterControl(kind)
      BY <1>21 DEF EnterLoop, EnterIf
    <2> DEFINE f == [kind |-> kind, scope |-> 0]
    <2>2. frames' = Append(frames, f) /\ nodeStack' = Append(nodeStack, "stmt")
          /\ funcDecls' = funcDecls
      BY <2>1 DEF EnterControl, SameNames
    <2>3. f \in Frame /\ f.kind \in Nested /\ f.kind \in Controls  BY DEF Frame, Nested, Controls
    <2> HIDE DEF f
    <2>4. NodesOf(f) = <<"stmt">>  BY <2>3 DEF NodesOf, Controls
    <2>5. HeaderOf(frames, {"body"})
      BY <1>1, <2>1, InsideBody DEF EnterControl, AtStatement
    <2>6. HeaderOf(frames', {"body"})  BY <1>1, <2>2, <2>3, <2>5, ShapePush
    <2>7. Externs' = Externs  BY <1>7, <1>21, <2>2, <2>5, <2>6
    <2>8. "stmt" \in NodeClass  BY DEF NodeClass
    <2>9. QED  BY <1>13, <1>21, <2>2, <2>3, <2>4, <2>7, <2>8
  <1>22. ASSUME Steady, FinishLoop \/ FinishIf PROVE Goal
    <2> DEFINE z == NodesOf(Last(frames))
    <2>1. frames # <<>> /\ Last(frames).kind \in Controls /\ frames' = Front(frames)
          /\ nodeStack' = Front(nodeStack) /\ funcDecls' = funcDecls
      BY <1>22 DEF FinishLoop, FinishIf, LeaveControl, SameNames, Inside, Controls
    <2>2. Last(frames) \in Frame /\ Front(frames) \in Seq(Frame) /\ s = NodesIn(Front(frames)) \o z
          /\ HeaderOf(frames, {"body"}) /\ HeaderOf(frames', {"body"})
      BY <1>1, <2>1, TopFrame DEF s, Nested
    <2>3. z \in Seq(NodeClass)  BY <1>1, <2>2, FramesAppend
    <2>4. Len(z) = 1  BY <2>1 DEF NodesOf, Controls
    <2> HIDE DEF z
    <2>5. Externs' = Externs  BY <1>7, <1>22, <2>1, <2>2
    <2>6. nodeStack' = SubSeq(nodeStack, 1, Len(nodeStack) - Len(z))  BY <2>1, <2>4 DEF Front
    <2>7. QED  BY <1>14, <1>22, <2>1, <2>2, <2>3, <2>5, <2>6
  <1>23. ASSUME Steady, EnterElse PROVE Goal
    <2>1. frames # <<>> /\ Last(frames).kind = "then" /\ nodeStack' = nodeStack
          /\ frames' = [frames EXCEPT ![Len(frames)].kind = "else"] /\ funcDecls' = funcDecls
      BY <1>23 DEF EnterElse, SameNames, Inside
    <2> DEFINE f == [Last(frames) EXCEPT !.kind = "else"]
    <2>2. "else" \in Controls /\ "then" \in Nested /\ "then" \in Controls  BY DEF Controls, Nested
    <2>3. frames' = Append(Front(frames), f) /\ f \in Frame /\ f.kind = "else"
      BY <1>1, <2>1, <2>2, ReplaceKind
    <2> HIDE DEF f
    <2>4. /\ HeaderOf(frames, {"body"}) /\ HeaderOf(Front(frames), {"body"})
          /\ Front(frames) \in Seq(Frame) /\ Shape(Front(frames))
          /\ s = NodesIn(Front(frames)) \o NodesOf(Last(frames))
      BY <1>1, <2>1, <2>2, TopFrame DEF s
    <2>5. f.kind \in Nested  BY <2>2, <2>3 DEF Nested
    <2>6. HeaderOf(frames', {"body"})
      BY <2>3, <2>4, <2>5, ShapePush
    <2>7. NodesIn(frames') = NodesIn(Front(frames)) \o NodesOf(f)
      BY <2>3, <2>4, FramesAppend
    <2>8. NodesOf(f) = NodesOf(Last(frames))  BY <2>1, <2>2, <2>3 DEF NodesOf
    <2>9. Externs' = Externs  BY <1>7, <1>23, <2>1, <2>4, <2>6
    <2>10. nodeStack' = r \o NodesIn(frames')  BY <1>4, <1>23, <2>1, <2>4, <2>7, <2>8
    <2>11. QED  BY <1>5, <2>9, <2>10
  <1>24. Goal
    BY <1>8, <1>9, <1>10, <1>11, <1>12, <1>15, <1>16, <1>17, <1>18, <1>19, <1>20, <1>21, <1>22,
       <1>23
       DEF Next
  <1>25. QED  BY <1>24 DEF Goal

-----------------------------------------------------------------------------
(* The tables of the open scopes.                                           *)

\* The stack of tables is what the scopes say.
TablesFollow == symTabMap = TablesOf(OpenScopes, varDecls)
\* What is said of scopes.
ScopesOK == NumbersOK /\ TablesFollow

\* The invariant in terms of the declarations as a sequence.
LEMMA FollowMeans == ScopesFollowBlocks <=> TablesFollow
  BY DEF ScopesFollowBlocks, TablesFollow, TablesOf, Declared, DeclaredIn

\* The innermost frame that is not a control statement has the innermost scope.
LEMMA LastScope ==
    ASSUME NEW fs \in Seq(Frame), fs # <<>>, Shape(fs), Last(fs).kind \notin Controls
    PROVE  /\ ScopesIn(fs) = Append(ScopesIn(Front(fs)), Last(fs).scope)
           /\ ScopesIn(Front(fs)) \in Seq(Nat) /\ Last(fs).scope \in Nat
  <1>1. ScopesIn(fs) = ScopesIn(Front(fs)) \o ScopeOf(Last(fs)) /\ Last(fs) \in Frame
        /\ Front(fs) \in Seq(Frame)
    BY TopFrame
  <1>2. ScopeOf(Last(fs)) = <<Last(fs).scope>>  BY DEF ScopeOf
  <1>3. Last(fs).scope \in Nat  BY <1>1 DEF Frame
  <1>4. ScopesIn(Front(fs)) \in Seq(Nat)  BY <1>1, FramesAppend
  <1> DEFINE s == ScopesIn(Front(fs))
             n == Last(fs).scope
  <1> HIDE DEF s, n
  <1>5. s \o <<n>> = Append(s, n)  BY <1>3, <1>4 DEF s, n
  <1>6. QED  BY <1>1, <1>2, <1>3, <1>4, <1>5 DEF s, n

\* Scopes are numbers.
LEMMA ScopesAreNumbers ==
    ASSUME NEW fs \in Seq(Frame)
    PROVE  ScopesIn(fs) \in Seq(Nat)
  <1>1. [kind |-> "block", scope |-> 0] \in Frame  BY DEF Frame
  <1>2. QED  BY <1>1, FramesAppend

\* A step that leaves scopes and declarations alone.
LEMMA ScopesStay ==
    ASSUME ScopesOK, UNCHANGED <<symTabMap, varDecls, scopes>>, OpenScopes' = OpenScopes
    PROVE  ScopesOK'
  BY DEF ScopesOK, NumbersOK, TablesFollow

\* A step that opens a scope.
LEMMA ScopesOpen ==
    ASSUME ScopesOK, OpenScopes \in Seq(Nat), varDecls \in Seq(VarDecl), scopes \in Nat,
           symTabMap' = Append(symTabMap, NoNames(VarName)), varDecls' = varDecls,
           scopes' = scopes + 1, OpenScopes' = Append(OpenScopes, scopes + 1)
    PROVE  ScopesOK'
  <1> DEFINE S == OpenScopes
  <1>1. S \in Seq(Nat) /\ Rising(S, scopes) /\ symTabMap = TablesOf(S, varDecls)
        /\ \A d \in DOMAIN varDecls : varDecls[d].scope <= scopes
    BY DEF ScopesOK, NumbersOK, TablesFollow
  <1>2. OpenScopes' = Append(S, scopes + 1)  OBVIOUS
  <1> HIDE DEF S
  <1>3. Rising(Append(S, scopes + 1), scopes + 1)  BY <1>1, RisingPush
  <1>4. TablesOf(Append(S, scopes + 1), varDecls) = Append(symTabMap, NoNames(VarName))
    BY <1>1, TablesOpen
  <1>5. \A d \in DOMAIN varDecls' : varDecls'[d].scope <= scopes'
    <2>1. \A m, n \in Nat : m <= n => m <= n + 1  OBVIOUS
    <2>2. \A d \in DOMAIN varDecls : varDecls[d].scope \in Nat
      <3>1. \A v \in VarDecl : v.scope \in Nat  BY DEF VarDecl
      <3>2. \A d \in DOMAIN varDecls : varDecls[d] \in VarDecl  OBVIOUS
      <3>3. QED  BY <3>1, <3>2
    <2>3. QED  BY <1>1, <2>1, <2>2
  <1>6. QED  BY <1>2, <1>3, <1>4, <1>5 DEF ScopesOK, NumbersOK, TablesFollow

\* A step that closes one.
LEMMA ScopesClose ==
    ASSUME ScopesOK, varDecls \in Seq(VarDecl), scopes \in Nat,
           NEW S \in Seq(Nat), NEW k \in Nat, OpenScopes = Append(S, k), OpenScopes' = S,
           symTabMap' = Front(symTabMap), UNCHANGED <<varDecls, scopes>>
    PROVE  ScopesOK'
  <1>1. Rising(Append(S, k), scopes) /\ symTabMap = TablesOf(Append(S, k), varDecls)
        /\ \A d \in DOMAIN varDecls : varDecls[d].scope <= scopes
    BY DEF ScopesOK, NumbersOK, TablesFollow
  <1>2. Rising(S, scopes)  BY <1>1, RisingPop
  <1>3. symTabMap' = TablesOf(S, varDecls)  BY <1>1, TablesClose
  <1>4. QED  BY <1>1, <1>2, <1>3 DEF ScopesOK, NumbersOK, TablesFollow

\* A step that declares a variable in the innermost scope, or outside of all.
LEMMA ScopesDeclare ==
    ASSUME ScopesOK, OpenScopes \in Seq(Nat), varDecls \in Seq(VarDecl), scopes \in Nat,
           NEW v \in VarDecl, varDecls' = Append(varDecls, v), InsertVariable(v.name),
           v.scope = IF OpenScopes = <<>> THEN 0 ELSE Last(OpenScopes),
           scopes' = scopes, OpenScopes' = OpenScopes
    PROVE  ScopesOK'
  <1> DEFINE S == OpenScopes
             more == Append(varDecls, v)
             L == Len(S)
             k == Len(varDecls) + 1
  <1>1. S \in Seq(Nat) /\ Rising(S, scopes) /\ symTabMap = TablesOf(S, varDecls)
        /\ \A d \in DOMAIN varDecls : varDecls[d].scope <= scopes
    BY DEF ScopesOK, NumbersOK, TablesFollow
  <1>2. v.scope = IF S = <<>> THEN 0 ELSE S[Len(S)]  BY DEF Last
  <1>3. OpenScopes' = S  OBVIOUS
  <1>4. InsertVariable(v.name)  OBVIOUS
  <1> HIDE DEF S
  <1>5. L \in Nat /\ DOMAIN S = 1 .. L /\ (S # <<>> => L # 0 /\ L \in 1 .. L)  BY <1>1
  <1>6. v.scope <= scopes /\ v.scope \in Nat
    <2>1. CASE S = <<>>  BY <1>2, <2>1
    <2>2. CASE S # <<>>
      <3>1. S[L] \in 1 .. scopes  BY <1>1, <1>5, <2>2 DEF Rising
      <3>2. QED  BY <1>2, <2>2, <3>1
    <2>3. QED  BY <2>1, <2>2
  <1>7. /\ DOMAIN more = DOMAIN varDecls \cup {k} /\ k \notin DOMAIN varDecls /\ more[k] = v
        /\ \A d \in DOMAIN varDecls : more[d] = varDecls[d]
    OBVIOUS
  <1> HIDE DEF more, k
  <1>8. \A d \in DOMAIN more : more[d].scope <= scopes  BY <1>1, <1>6, <1>7
  <1>9. symTabMap' = TablesOf(S, more)
    <2>1. CASE S = <<>>
      <3>1. TablesOf(S, varDecls) = <<>> /\ TablesOf(S, more) = <<>>
        BY <2>1 DEF TablesOf
      <3>2. symTabMap' = symTabMap  BY <1>1, <1>4, <3>1 DEF InsertVariable
      <3>3. QED  BY <1>1, <3>1, <3>2
    <2>2. CASE S # <<>>
      <3>1. \A i \in 1 .. L - 1 : S[i] # S[L]
        <4> SUFFICES ASSUME NEW i \in 1 .. L - 1 PROVE S[i] # S[L]
          OBVIOUS
        <4>1. i \in 1 .. L /\ i < L /\ L \in 1 .. L  BY <1>5, <2>2
        <4>2. i \in DOMAIN S /\ L \in DOMAIN S  BY <1>5, <4>1
        <4> HIDE DEF L
        <4>3. S[i] < S[L]  BY <1>1, <4>1, <4>2 DEF Rising
        <4>4. S[i] \in 1 .. scopes /\ S[L] \in 1 .. scopes  BY <1>1, <4>2 DEF Rising
        <4>5. QED  BY <4>3, <4>4
      <3>2. symTabMap # <<>>
        <4>1. Len(symTabMap) = L  BY <1>1, TablesFacts
        <4>2. QED  BY <1>5, <2>2, <4>1
      <3>3. symTabMap' = IF Last(symTabMap)[v.name] # None THEN symTabMap
                         ELSE [symTabMap EXCEPT ![Len(symTabMap)][v.name] = k]
        BY <1>4, <3>2 DEF InsertVariable, VarId, k
      <3>4. v.scope = S[Len(S)]  BY <1>2, <2>2
      <3>5. TablesOf(S, more) = IF Last(symTabMap)[v.name] # None THEN symTabMap
                                ELSE [symTabMap EXCEPT ![Len(symTabMap)][v.name] = k]
        BY <1>1, <2>2, <3>1, <3>4, TablesDeclare DEF more, k
      <3>6. QED  BY <3>3, <3>5
    <2>3. QED  BY <2>1, <2>2
  <1>10. QED  BY <1>1, <1>3, <1>8, <1>9 DEF ScopesOK, NumbersOK, TablesFollow, more

\* The program of a step is a file.
LEMMA ProgramIsFile ==
    ASSUME TypeOK, Running
    PROVE  ProgAst \in File /\ cur \in DOMAIN programList
  <1>1. programList \in Seq(File) /\ cur \in 1 .. Len(programList) + 1 /\ cur <= Len(programList)
    BY DEF TypeOK, Running
  <1>2. cur \in DOMAIN programList  BY <1>1
  <1>3. QED  BY <1>1, <1>2 DEF ProgAst

\* A node of a variable.
LEMMA NewNode ==
    ASSUME TypeOK, Running, NEW name \in VarName, NEW scope \in Nat, NEW parent \in NodeClass,
           DeclareVar(name, scope, parent)
    PROVE  \E v \in VarDecl : /\ v.name = name /\ v.scope = scope /\ v.prog = ProgAst
                              /\ varDecls' = Append(varDecls, v) /\ InsertVariable(v.name)
  <1> DEFINE v == [name |-> name, prog |-> ProgAst, scope |-> scope, parent |-> parent]
  <1>1. ProgAst \in File  BY ProgramIsFile
  <1>2. v \in VarDecl  BY <1>1 DEF VarDecl, NodeClass
  <1>3. v.name = name /\ v.scope = scope /\ v.prog = ProgAst  OBVIOUS
  <1>4. varDecls' = Append(varDecls, v) /\ InsertVariable(name)  BY DEF DeclareVar
  <1> HIDE DEF v
  <1>5. QED  BY <1>2, <1>3, <1>4

\* What the parser declares, and in which scope.
LEMMA DeclaringSteps ==
    ASSUME TypeOK, FramesOK, nodeStack' \in Seq(NodeClass), nodeStack' # <<>>,
           GlobalVar \/ Param \/ LocalVar \/ DeclarationAsBody
    PROVE  /\ OpenScopes' = OpenScopes /\ scopes' = scopes
           /\ \E v \in VarDecl :
                  /\ v.scope = IF OpenScopes = <<>> THEN 0 ELSE Last(OpenScopes)
                  /\ v.prog = ProgAst
                  /\ varDecls' = Append(varDecls, v) /\ InsertVariable(v.name)
  <1>1. frames \in Seq(Frame) /\ Shape(frames) /\ nodeStack \in Seq(NodeClass) /\ nodeStack # <<>>
    BY DEF TypeOK, FramesOK
  <1>2. Last(nodeStack) \in NodeClass /\ Last(nodeStack') \in NodeClass
    <2> HIDE DEF NodeClass
    <2>1. QED  BY <1>1, FrontLast
  <1>3. ASSUME NEW fs \in Seq(Frame), fs # <<>>, Shape(fs), Last(fs).kind \notin Controls
        PROVE  ScopesIn(fs) # <<>> /\ Last(ScopesIn(fs)) = Last(fs).scope /\ Last(fs).scope \in Nat
    <2> DEFINE s == ScopesIn(Front(fs))
               n == Last(fs).scope
    <2>1. ScopesIn(fs) = Append(s, n) /\ s \in Seq(Nat) /\ n \in Nat  BY <1>3, LastScope
    <2> HIDE DEF s, n
    <2>2. Append(s, n) # <<>> /\ Last(Append(s, n)) = n
      <3>1. Len(Append(s, n)) = Len(s) + 1 /\ Len(s) \in Nat /\ Append(s, n)[Len(s) + 1] = n
        BY <2>1
      <3>2. QED  BY <3>1 DEF Last
    <2>3. QED  BY <2>1, <2>2 DEF n
  <1>4. CASE GlobalVar
    <2>1. Running /\ frames = <<>> /\ frames' = frames /\ scopes' = scopes
          /\ \E name \in VarName : DeclareVar(name, 0, Last(nodeStack))
      BY <1>4 DEF GlobalVar, TopLevel, DeclareVar
    <2>2. OpenScopes = <<>> /\ OpenScopes' = OpenScopes
      BY <2>1, NoFrames DEF OpenScopes
    <2>3. 0 \in Nat  OBVIOUS
    <2>4. QED  BY <1>2, <2>1, <2>2, <2>3, NewNode
  <1>5. CASE Param \/ LocalVar
    <2>1. Running /\ frames # <<>> /\ Last(frames).kind \notin Controls
          /\ frames' = frames /\ scopes' = scopes
          /\ \E name \in VarName : DeclareVar(name, Last(frames).scope, Last(nodeStack))
      BY <1>5 DEF Param, LocalVar, Inside, DeclareVar, Controls
    <2>2. OpenScopes # <<>> /\ Last(OpenScopes) = Last(frames).scope /\ Last(frames).scope \in Nat
      BY <1>1, <1>3, <2>1 DEF OpenScopes
    <2>3. OpenScopes' = OpenScopes  BY <2>1 DEF OpenScopes
    <2>4. QED  BY <1>2, <2>1, <2>2, <2>3, NewNode
  <1>6. CASE DeclarationAsBody
    <2>1. /\ frames' \in Seq(Frame) /\ Shape(frames') /\ frames' # <<>>
          /\ Last(frames').kind \notin Controls /\ ScopesIn(frames') = OpenScopes
      BY <1>1, <1>6, PopWaiting DEF HeaderOf
    <2>2. Running /\ scopes' = scopes
          /\ \E name \in VarName : DeclareVar(name, Last(frames').scope, Last(nodeStack'))
      BY <1>6 DEF DeclarationAsBody, AtStatement, Inside, DeclareVar
    <2>3. OpenScopes' = OpenScopes  BY <2>1 DEF OpenScopes
    <2>4. OpenScopes # <<>> /\ Last(OpenScopes) = Last(frames').scope /\ Last(frames').scope \in Nat
      BY <1>3, <2>1
    <2>5. QED  BY <1>2, <2>2, <2>3, <2>4, NewNode
  <1>7. QED  BY <1>4, <1>5, <1>6

\* The tables follow the scopes.
LEMMA NextScopes ==
    ASSUME TypeOK, InputsOK, FramesOK, ScopesOK, nodeStack' \in Seq(NodeClass),
           nodeStack' # <<>>, Next
    PROVE  ScopesOK' /\ scopes' \in Nat /\ varDecls' \in Seq(VarDecl)
  <1> DEFINE Goal == ScopesOK' /\ scopes' \in Nat /\ varDecls' \in Seq(VarDecl)
  <1>1. /\ frames \in Seq(Frame) /\ Shape(frames) /\ scopes \in Nat /\ varDecls \in Seq(VarDecl)
        /\ FlagsOK
    BY DEF TypeOK, FramesOK
  <1>2. OpenScopes \in Seq(Nat)  BY <1>1, ScopesAreNumbers DEF OpenScopes
  <1> HIDE DEF Goal
  <1>3. ASSUME UNCHANGED <<symTabMap, varDecls, scopes>>, OpenScopes' = OpenScopes PROVE Goal
    BY <1>1, <1>3, ScopesStay DEF Goal
  <1>4. ASSUME GlobalVar \/ Param \/ LocalVar \/ DeclarationAsBody PROVE Goal
    <2>1. OpenScopes' = OpenScopes /\ scopes' = scopes  BY <1>4, DeclaringSteps
    <2>2. PICK v \in VarDecl :
                  /\ v.scope = IF OpenScopes = <<>> THEN 0 ELSE Last(OpenScopes)
                  /\ varDecls' = Append(varDecls, v) /\ InsertVariable(v.name)
      BY <1>4, DeclaringSteps
    <2>3. ScopesOK'  BY <1>1, <1>2, <2>1, <2>2, ScopesDeclare
    <2>4. varDecls' \in Seq(VarDecl)  BY <1>1, <2>2
    <2>5. QED  BY <1>1, <2>1, <2>3, <2>4 DEF Goal
  <1>5. ASSUME Redefined \/ IdRef \/ Call \/ SyntaxError PROVE Goal
    BY <1>3, <1>5 DEF Redefined, IdRef, Call, SyntaxError, Resolve, tables, nesting, OpenScopes
  <1>6. ASSUME SimpleStmt PROVE Goal
    BY <1>3, <1>6 DEF SimpleStmt, SameNames, tables, OpenScopes
  <1>7. ASSUME FinishProgram PROVE Goal
    <2>1. symTabMap' = <<>> /\ frames = <<>> /\ UNCHANGED <<varDecls, scopes, frames>>
      BY <1>7 DEF FinishProgram, TopLevel
    <2>2. OpenScopes = <<>> /\ OpenScopes' = OpenScopes  BY <2>1, NoFrames DEF OpenScopes
    <2>3. TablesOf(OpenScopes, varDecls) = <<>>  BY <2>2 DEF TablesOf
    <2>4. symTabMap' = symTabMap  BY <2>1, <2>3 DEF ScopesOK, TablesFollow
    <2>5. QED  BY <1>3, <2>1, <2>2, <2>4
  <1>8. ASSUME NEW f \in Frame, f.kind \notin Controls, f.scope = scopes + 1,
               frames' = Append(frames, f), scopes' = scopes + 1, varDecls' = varDecls,
               symTabMap' = Append(symTabMap, NoNames(VarName))
        PROVE  Goal
    <2>1. OpenScopes' = OpenScopes \o ScopeOf(f)
      BY <1>1, <1>8, FramesAppend DEF OpenScopes
    <2>2. ScopeOf(f) = <<scopes + 1>>  BY <1>8 DEF ScopeOf
    <2>3. OpenScopes' = Append(OpenScopes, scopes + 1)
      <3> DEFINE s == OpenScopes
                 n == scopes + 1
      <3>1. s \in Seq(Nat) /\ n \in Nat  BY <1>1, <1>2
      <3> HIDE DEF s, n
      <3>2. s \o <<n>> = Append(s, n)  BY <3>1
      <3>3. QED  BY <2>1, <2>2, <3>2 DEF s, n
    <2>4. ScopesOK'  BY <1>1, <1>2, <1>8, <2>3, ScopesOpen
    <2>5. QED  BY <1>1, <1>8, <2>4 DEF Goal
  <1>9. ASSUME BeginFuncExtern \/ BeginFuncDef PROVE Goal
    <2>1. PICK kind \in Headers : frames' = Append(frames, [kind |-> kind, scope |-> scopes + 1])
                                  /\ scopes' = scopes + 1 /\ varDecls' = varDecls
                                  /\ symTabMap' = Append(symTabMap, NoNames(VarName))
      BY <1>9 DEF BeginFuncExtern, BeginFuncDef, BeginFunc, Headers
    <2> DEFINE f == [kind |-> kind, scope |-> scopes + 1]
    <2>2. f \in Frame /\ f.kind \notin Controls /\ f.scope = scopes + 1
      BY <1>1 DEF Frame, Headers, Controls
    <2> HIDE DEF f
    <2>3. frames' = Append(frames, f)  BY <2>1 DEF f
    <2>4. QED  BY <1>8, <2>1, <2>2, <2>3
  <1>10. ASSUME EnterBlock PROVE Goal
    <2> DEFINE f == [kind |-> "block", scope |-> scopes + 1]
    <2>1. frames' = Append(frames, f) /\ scopes' = scopes + 1 /\ varDecls' = varDecls
      BY <1>10 DEF EnterBlock, OpenBlock
    <2>2. ~isFuncScope
      <3>1. HeaderOf(frames, {"body"})
        BY <1>1, <1>10, InsideBody DEF EnterBlock, AtStatement
      <3>2. QED  BY <1>1, <3>1 DEF FlagsOK, HeaderOf
    <2>3. symTabMap' = Append(symTabMap, NoNames(VarName))
      BY <1>10, <2>2 DEF EnterBlock, OpenBlock
    <2>4. f \in Frame /\ f.kind \notin Controls /\ f.scope = scopes + 1
      BY <1>1 DEF Frame, Controls
    <2> HIDE DEF f
    <2>5. QED  BY <1>8, <2>1, <2>3, <2>4
  <1>11. ASSUME FinishFuncExtern \/ LeaveBlock \/ LeaveBody PROVE Goal
    <2>1. frames # <<>> /\ Last(frames).kind \notin Controls /\ frames' = Front(frames)
          /\ symTabMap' = Front(symTabMap) /\ UNCHANGED <<varDecls, scopes>>
      BY <1>11 DEF FinishFuncExtern, LeaveBlock, LeaveBody, CloseScope, Inside, Controls
    <2> DEFINE S == ScopesIn(Front(frames))
               k == Last(frames).scope
    <2>2. OpenScopes = Append(S, k) /\ S \in Seq(Nat) /\ k \in Nat
      BY <1>1, <2>1, LastScope DEF OpenScopes
    <2>3. OpenScopes' = S  BY <2>1 DEF OpenScopes
    <2> HIDE DEF S, k
    <2>4. ScopesOK'  BY <1>1, <2>1, <2>2, <2>3, ScopesClose
    <2>5. QED  BY <1>1, <2>1, <2>4 DEF Goal
  <1>12. ASSUME NEW kind \in Controls \cup {"extern", "params", "body", "block"},
                frames # <<>>, kind \in Controls <=> Last(frames).kind \in Controls,
                frames' = [frames EXCEPT ![Len(frames)].kind = kind],
                UNCHANGED <<symTabMap, varDecls, scopes>>
         PROVE  Goal
    <2> DEFINE f == [Last(frames) EXCEPT !.kind = kind]
    <2>1. frames' = Append(Front(frames), f) /\ f \in Frame /\ f.kind = kind
          /\ f.scope = Last(frames).scope
      BY <1>1, <1>12, ReplaceKind
    <2> HIDE DEF f
    <2>2. Front(frames) \in Seq(Frame)
          /\ OpenScopes = ScopesIn(Front(frames)) \o ScopeOf(Last(frames))
      BY <1>1, <1>12, TopFrame DEF OpenScopes
    <2>3. OpenScopes' = ScopesIn(Front(frames)) \o ScopeOf(f)
      BY <2>1, <2>2, FramesAppend DEF OpenScopes
    <2>4. ScopeOf(f) = ScopeOf(Last(frames))  BY <1>12, <2>1 DEF ScopeOf
    <2>5. QED  BY <1>3, <1>12, <2>2, <2>3, <2>4
  <1>13. ASSUME BeginBody PROVE Goal
    <2>1. frames # <<>> /\ Last(frames).kind = "params" /\ UNCHANGED <<varDecls, scopes>>
          /\ frames' = [frames EXCEPT ![Len(frames)].kind = "body"]
          /\ symTabMap' = IF isFuncScope THEN symTabMap ELSE Append(symTabMap, NoNames(VarName))
      BY <1>13 DEF BeginBody, OpenBlock, Inside
    <2>2. isFuncScope
      <3>1. HeaderOf(frames, {"params"})  BY <1>1, <2>1, TopFrame DEF Headers
      <3>2. QED  BY <1>1, <3>1 DEF FlagsOK
    <2>3. Last(frames).kind \notin Controls /\ "body" \notin Controls  BY <2>1 DEF Controls
    <2>4. QED  BY <1>12, <2>1, <2>2, <2>3
  <1>14. ASSUME EnterElse PROVE Goal
    <2>1. frames # <<>> /\ Last(frames).kind = "then"
          /\ frames' = [frames EXCEPT ![Len(frames)].kind = "else"]
          /\ UNCHANGED <<symTabMap, varDecls, scopes>>
      BY <1>14 DEF EnterElse, SameNames, tables, Inside
    <2>2. Last(frames).kind \in Controls /\ "else" \in Controls  BY <2>1 DEF Controls
    <2>3. QED  BY <1>12, <2>1, <2>2
  <1>15. ASSUME EnterLoop \/ EnterIf PROVE Goal
    <2>1. PICK kind \in {"loop", "then"} : EnterControl(kind)
      BY <1>15 DEF EnterLoop, EnterIf
    <2> DEFINE f == [kind |-> kind, scope |-> 0]
    <2>2. frames' = Append(frames, f) /\ UNCHANGED <<symTabMap, varDecls, scopes>>
      BY <2>1 DEF EnterControl, SameNames, tables
    <2>3. f \in Frame /\ f.kind \in Controls  BY DEF Frame, Controls
    <2> HIDE DEF f
    <2>4. OpenScopes' = OpenScopes \o ScopeOf(f)
      BY <1>1, <2>2, <2>3, FramesAppend DEF OpenScopes
    <2>5. ScopeOf(f) = <<>>  BY <2>3 DEF ScopeOf
    <2>6. OpenScopes' = OpenScopes  BY <1>2, <2>4, <2>5, ConcatEmptySeq
    <2>7. QED  BY <1>3, <2>2, <2>6
  <1>16. ASSUME FinishLoop \/ FinishIf PROVE Goal
    <2>1. frames # <<>> /\ Last(frames).kind \in Controls /\ frames' = Front(frames)
          /\ UNCHANGED <<symTabMap, varDecls, scopes>>
      BY <1>16 DEF FinishLoop, FinishIf, LeaveControl, SameNames, tables, Inside, Controls
    <2>2. Front(frames) \in Seq(Frame)
          /\ OpenScopes = ScopesIn(Front(frames)) \o ScopeOf(Last(frames))
      BY <1>1, <2>1, TopFrame DEF OpenScopes
    <2>3. ScopeOf(Last(frames)) = <<>>  BY <2>1 DEF ScopeOf
    <2>4. ScopesIn(Front(frames)) \in Seq(Nat)  BY <2>2, ScopesAreNumbers
    <2>5. ScopesIn(Front(frames)) \o <<>> = ScopesIn(Front(frames))  BY <2>4, ConcatEmptySeq
    <2>6. OpenScopes' = OpenScopes  BY <2>1, <2>2, <2>3, <2>5 DEF OpenScopes
    <2>7. QED  BY <1>3, <2>1, <2>6
  <1>17. Goal
    BY <1>4, <1>5, <1>6, <1>7, <1>9, <1>10, <1>11, <1>13, <1>14, <1>15, <1>16 DEF Next
  <1>18. QED  BY <1>17 DEF Goal

-----------------------------------------------------------------------------
(* The tables of global names.                                              *)

\* No program that the current one sees has the name.
Unseen(map, name) == \A q \in Visible(ProgAst) : map[q][name] = None

\* The name is entered in the current program's table.
Entered(map, name, node) == [map EXCEPT ![ProgAst][name] = node]

\* A step may declare one variable, ...
VarStep ==
    /\ Steady /\ UNCHANGED <<funcDecls, funcDefMap>> /\ (AtHeader => AtHeader')
    /\ \E v \in VarDecl :
           /\ v.prog = ProgAst /\ varDecls' = Append(varDecls, v)
           /\ \/ globalVariableMap' = globalVariableMap
              \/ /\ v.scope = 0 /\ Unseen(globalVariableMap, v.name)
                 /\ globalVariableMap' = Entered(globalVariableMap, v.name, Len(varDecls) + 1)
\* ... enter one function, ...
FuncStep ==
    /\ Steady /\ UNCHANGED <<varDecls, funcDecls, globalVariableMap>>
    /\ AtHeader /\ ~AtHeader'
    /\ LET f == Last(funcDecls).name IN
       \/ funcDefMap' = funcDefMap /\ (f \in StdFunction \/ ~Unseen(funcDefMap, f))
       \/ /\ f \notin StdFunction /\ Unseen(funcDefMap, f)
          /\ funcDefMap' = Entered(funcDefMap, f, Len(funcDecls))
\* ... begin one, ...
HeaderStep ==
    /\ Steady /\ UNCHANGED <<varDecls, globalVariableMap, funcDefMap>>
    /\ ~AtHeader /\ AtHeader'
    /\ \E f \in FuncDecl : f.prog = ProgAst /\ funcDecls' = Append(funcDecls, f)
\* ... or leave all names alone.
OtherStep ==
    /\ UNCHANGED <<programList, deps, varDecls, funcDecls, globalVariableMap, funcDefMap>>
    /\ AtHeader => AtHeader'
    /\ cur' = cur \/ cur' = cur + 1

\* The tables as functions of numbers.
LEMMA MapsFacts ==
    ASSUME TypeOK
    PROVE  /\ globalVariableMap \in Maps(VarName) /\ funcDefMap \in Maps(FuncName)
           /\ deps \in Deps
  <1>1. DOMAIN varDecls \subseteq Nat /\ DOMAIN funcDecls \subseteq Nat /\ None \in Nat
    BY DEF TypeOK, None
  <1>2. globalVariableMap \in [File -> [VarName -> {None} \cup DOMAIN varDecls]]
        /\ funcDefMap \in [File -> [FuncName -> {None} \cup DOMAIN funcDecls]]
        /\ deps \in [File -> Seq(File)]
    BY DEF TypeOK, Table
  <1> DEFINE D == {None} \cup DOMAIN varDecls
             E == {None} \cup DOMAIN funcDecls
  <1>3. D \subseteq Nat /\ E \subseteq Nat  BY <1>1
  <1>4. globalVariableMap \in [File -> [VarName -> D]] /\ funcDefMap \in [File -> [FuncName -> E]]
    BY <1>2
  <1> HIDE DEF D, E
  <1>5. \A q \in File : globalVariableMap[q] \in [VarName -> Nat] /\ funcDefMap[q] \in [FuncName -> Nat]
    BY <1>3, <1>4
  <1>6. globalVariableMap \in [File -> [VarName -> Nat]] /\ funcDefMap \in [File -> [FuncName -> Nat]]
    BY <1>4, <1>5
  <1>7. QED  BY <1>2, <1>6 DEF Maps, Deps

\* A name that is not found is unseen.
LEMMA FoundOrUnseen ==
    ASSUME TypeOK, InputsOK, Running
    PROVE  /\ \A x \in VarName : GetVariableNodeFromGlobalMap(x) = None
                                 <=> Unseen(globalVariableMap, x)
           /\ \A f \in FuncName : GetFuncASTNode(f) = None <=> Unseen(funcDefMap, f)
  <1>1. ProgAst \in File  BY ProgramIsFile
  <1>2. globalVariableMap \in Maps(VarName) /\ funcDefMap \in Maps(FuncName) /\ deps \in Deps
        /\ Acyclic(deps)
    BY MapsFacts DEF InputsOK
  <1>3. \A x \in VarName : FindIn(globalVariableMap, x)[ProgAst] = None
                           <=> Unseen(globalVariableMap, x)
    BY <1>1, <1>2, FindInFacts DEF Unseen
  <1>4. \A f \in FuncName : FindIn(funcDefMap, f)[ProgAst] = None <=> Unseen(funcDefMap, f)
    BY <1>1, <1>2, FindInFacts DEF Unseen
  <1>5. QED  BY <1>3, <1>4 DEF GetVariableNodeFromGlobalMap, GetFuncASTNode

\* Every step is one of these.
LEMMA TableSteps ==
    ASSUME TypeOK, InputsOK, FramesOK, ScopesOK, nodeStack' \in Seq(NodeClass),
           nodeStack' # <<>>, Next
    PROVE  VarStep \/ FuncStep \/ HeaderStep \/ OtherStep
  <1>1. /\ frames \in Seq(Frame) /\ Shape(frames) /\ scopes \in Nat /\ varDecls \in Seq(VarDecl)
        /\ FlagsOK /\ funcDecls \in Seq(FuncDecl)
    BY DEF TypeOK, FramesOK
  <1>2. FinishProgram \/ Steady  BY SteadySteps
  <1>3. ASSUME HeaderOf(frames, {"body"}) PROVE ~AtHeader
    BY <1>3 DEF HeaderOf, AtHeader, Headers
  <1>4. ASSUME GlobalVar \/ Param \/ LocalVar \/ DeclarationAsBody PROVE VarStep
    <2>1. PICK v \in VarDecl :
                  /\ v.scope = IF OpenScopes = <<>> THEN 0 ELSE Last(OpenScopes)
                  /\ v.prog = ProgAst
                  /\ varDecls' = Append(varDecls, v) /\ InsertVariable(v.name)
      BY <1>4, DeclaringSteps
    <2>2. Steady  BY <1>2, <1>4 DEF FinishProgram, TopLevel, Steady, GlobalVar, Param, LocalVar,
                                    DeclarationAsBody, DeclareVar, inputs, AtStatement, Inside,
                                    Running
    <2>3. funcDecls' = funcDecls /\ funcDefMap' = funcDefMap
      BY <1>4 DEF GlobalVar, Param, LocalVar, DeclarationAsBody, DeclareVar
    <2>4. AtHeader => AtHeader'
      <3>1. CASE DeclarationAsBody  BY <1>1, <1>3, <3>1, PopWaiting
      <3>2. CASE GlobalVar \/ Param \/ LocalVar
        <4>1. frames' = frames  BY <3>2 DEF GlobalVar, Param, LocalVar
        <4>2. QED  BY <4>1 DEF AtHeader
      <3>3. QED  BY <1>4, <3>1, <3>2
    <2>5. v.name \in VarName  BY DEF VarDecl
    <2>6. \/ globalVariableMap' = globalVariableMap
          \/ /\ v.scope = 0 /\ Unseen(globalVariableMap, v.name)
             /\ globalVariableMap' = [globalVariableMap EXCEPT ![ProgAst][v.name]
                                                           = Len(varDecls) + 1]
      <3>1. CASE symTabMap # <<>>  BY <2>1, <3>1 DEF InsertVariable
      <3>2. CASE symTabMap = <<>>
        <4>1. OpenScopes = <<>>
          <5> DEFINE s == OpenScopes
          <5>1. s \in Seq(Nat) /\ TablesOf(s, varDecls) = <<>>
            BY <1>1, <3>2, ScopesAreNumbers DEF ScopesOK, TablesFollow, OpenScopes
          <5> HIDE DEF s
          <5>2. Len(s) = 0  BY <1>1, <5>1, TablesFacts
          <5>3. s = <<>>  BY <5>1, <5>2
          <5>4. QED  BY <5>3 DEF s
        <4>2. v.scope = 0  BY <2>1, <4>1
        <4>3. GetVariableNodeFromGlobalMap(v.name) = None <=> Unseen(globalVariableMap, v.name)
          BY <2>2, <2>5, FoundOrUnseen DEF Steady
        <4>4. globalVariableMap' = IF GetVariableNodeFromGlobalMap(v.name) # None
                                   THEN globalVariableMap
                                   ELSE [globalVariableMap EXCEPT ![ProgAst][v.name]
                                                           = Len(varDecls) + 1]
          BY <2>1, <3>2 DEF InsertVariable, VarId
        <4>5. QED  BY <4>2, <4>3, <4>4
      <3>3. QED  BY <3>1, <3>2
    <2>7. QED  BY <2>1, <2>2, <2>3, <2>4, <2>6 DEF VarStep, Entered
  <1>5. ASSUME FinishFuncExtern \/ BeginBody PROVE FuncStep
    <2>1. /\ frames # <<>> /\ Last(frames).kind \in Headers
          /\ UNCHANGED <<varDecls, funcDecls, globalVariableMap>>
          /\ funcDefMap' = MapWith(Last(funcDecls).name, Len(funcDecls))
      BY <1>5 DEF FinishFuncExtern, BeginBody, Inside, Headers
    <2>2. Steady
      BY <1>2, <1>5 DEF FinishProgram, TopLevel, Steady, FinishFuncExtern, BeginBody, inputs,
                        Inside, Running
    <2>3. Front(frames) = <<>> /\ HeaderOf(frames, {Last(frames).kind})
      BY <1>1, <2>1, TopFrame
    <2>4. AtHeader  BY <2>1, <2>3 DEF AtHeader, HeaderOf
    <2>5. ~AtHeader'
      <3>1. CASE FinishFuncExtern
        <4>1. frames' = <<>>  BY <2>3, <3>1 DEF FinishFuncExtern
        <4>2. QED  BY <4>1 DEF AtHeader, HeaderOf
      <3>2. CASE BeginBody
        <4> DEFINE f == [Last(frames) EXCEPT !.kind = "body"]
        <4>1. frames' = [frames EXCEPT ![Len(frames)].kind = "body"]
          BY <3>2 DEF BeginBody, OpenBlock
        <4>2. frames' = Append(Front(frames), f) /\ f.kind = "body"
          BY <1>1, <2>1, <4>1, ReplaceKind
        <4> HIDE DEF f
        <4>3. frames' = <<f>>  BY <2>3, <4>2
        <4>4. QED  BY <4>2, <4>3 DEF AtHeader, HeaderOf, Headers
      <3>3. QED  BY <1>5, <3>1, <3>2
    <2> DEFINE f == Last(funcDecls).name
    <2>6. f \in FuncName
      <3>1. funcDecls # <<>>  BY <1>1, <2>4 DEF FlagsOK
      <3>2. Last(funcDecls) \in FuncDecl  BY <1>1, <3>1, FrontLast
      <3>3. QED  BY <3>2 DEF FuncDecl
    <2> HIDE DEF f
    <2>7. GetFuncASTNode(f) = None <=> Unseen(funcDefMap, f)
      BY <2>2, <2>6, FoundOrUnseen DEF Steady
    <2>8. \/ funcDefMap' = funcDefMap /\ (f \in StdFunction \/ ~Unseen(funcDefMap, f))
          \/ /\ f \notin StdFunction /\ Unseen(funcDefMap, f)
             /\ funcDefMap' = [funcDefMap EXCEPT ![ProgAst][f] = Len(funcDecls)]
      BY <2>1, <2>7 DEF MapWith, f
    <2>9. QED  BY <2>1, <2>2, <2>4, <2>5, <2>8 DEF FuncStep, Entered, f
  <1>6. ASSUME BeginFuncExtern \/ BeginFuncDef PROVE HeaderStep
    <2>1. PICK kind \in Headers, name \in FuncName :
              /\ frames = <<>> /\ frames' = Append(frames, [kind |-> kind, scope |-> scopes + 1])
              /\ UNCHANGED <<varDecls, globalVariableMap, funcDefMap>>
              /\ funcDecls' = Append(funcDecls, [name |-> name, prog |-> ProgAst,
                                                 declare |-> (kind = "extern")])
      <3>1. CASE BeginFuncExtern
        <4>1. "extern" \in Headers  BY DEF Headers
        <4>2. QED  BY <3>1, <4>1 DEF BeginFuncExtern, BeginFunc, TopLevel
      <3>2. CASE BeginFuncDef
        <4>1. "params" \in Headers  BY DEF Headers
        <4>2. QED  BY <3>2, <4>1 DEF BeginFuncDef, BeginFunc, TopLevel
      <3>3. QED  BY <1>6, <3>1, <3>2
    <2>2. Steady
      BY <1>2, <1>6 DEF FinishProgram, TopLevel, Steady, BeginFuncExtern, BeginFuncDef, BeginFunc,
                        inputs, Running
    <2>3. ~AtHeader  BY <2>1 DEF AtHeader, HeaderOf
    <2>4. AtHeader'
      <3> DEFINE f == [kind |-> kind, scope |-> scopes + 1]
      <3>1. f.kind \in Headers  OBVIOUS
      <3> HIDE DEF f
      <3>2. frames' = <<f>>  BY <2>1 DEF f
      <3>3. QED  BY <3>1, <3>2 DEF AtHeader, HeaderOf
    <2> DEFINE g == [name |-> name, prog |-> ProgAst, declare |-> (kind = "extern")]
    <2>5. g \in FuncDecl /\ g.prog = ProgAst
      <3>1. ProgAst \in File  BY <2>2, ProgramIsFile DEF Steady
      <3>2. (kind = "extern") \in BOOLEAN  OBVIOUS
      <3>3. QED  BY <3>1, <3>2 DEF FuncDecl
    <2> HIDE DEF g
    <2>6. funcDecls' = Append(funcDecls, g)  BY <2>1 DEF g
    <2>7. QED  BY <2>1, <2>2, <2>3, <2>4, <2>5, <2>6 DEF HeaderStep
  <1>7. ASSUME FinishProgram PROVE OtherStep
    BY <1>7 DEF FinishProgram, OtherStep, inputs, AtHeader, HeaderOf, TopLevel
  <1>8. ASSUME Redefined \/ IdRef \/ Call \/ SyntaxError PROVE OtherStep
    BY <1>8 DEF Redefined, IdRef, Call, SyntaxError, Resolve, OtherStep, inputs, tables, nesting,
                AtHeader
  <1>9. ASSUME SimpleStmt PROVE OtherStep
    BY <1>9 DEF SimpleStmt, SameNames, OtherStep, inputs, tables, AtHeader
  <1>10. ASSUME EnterBlock \/ LeaveBlock \/ LeaveBody PROVE OtherStep
    <2>1. HeaderOf(frames, {"body"})
      BY <1>1, <1>10, InsideBody DEF EnterBlock, LeaveBlock, LeaveBody, AtStatement, Inside
    <2>2. ~AtHeader  BY <1>3, <2>1
    <2>3. UNCHANGED <<programList, deps, varDecls, funcDecls, globalVariableMap, funcDefMap, cur>>
      BY <1>10 DEF EnterBlock, LeaveBlock, LeaveBody, CloseScope, inputs
    <2>4. QED  BY <2>2, <2>3 DEF OtherStep
  <1>11. ASSUME EnterLoop \/ EnterIf \/ FinishLoop \/ FinishIf \/ EnterElse PROVE OtherStep
    <2>1. HeaderOf(frames, {"body"})
      BY <1>1, <1>11, InsideBody DEF EnterLoop, EnterIf, EnterControl, FinishLoop, FinishIf,
                                     EnterElse, AtStatement, Inside, Controls
    <2>2. ~AtHeader  BY <1>3, <2>1
    <2>3. UNCHANGED <<programList, deps, varDecls, funcDecls, globalVariableMap, funcDefMap, cur>>
      BY <1>11 DEF EnterLoop, EnterIf, EnterControl, FinishLoop, FinishIf, EnterElse,
                   LeaveControl, SameNames, inputs, tables
    <2>4. QED  BY <2>2, <2>3 DEF OtherStep
  <1>12. QED
    BY <1>4, <1>5, <1>6, <1>7, <1>8, <1>9, <1>10, <1>11 DEF Next

\* Tables of tables: a value for every name in every program.
TablesWith(Names, D) == [File -> [Names -> D]]

\* One more entry in a table of tables.
LEMMA EntryFacts ==
    ASSUME NEW Names, NEW D, NEW map \in TablesWith(Names, D), ProgAst \in File,
           NEW x \in Names, NEW k
    PROVE  LET new == Entered(map, x, k) IN
           /\ k \in D => new \in TablesWith(Names, D)
           /\ \A q \in File : \A y \in Names :
                  new[q][y] = IF q = ProgAst /\ y = x THEN k ELSE map[q][y]
  <1> DEFINE p == ProgAst
             row == [map[p] EXCEPT ![x] = k]
             new == [map EXCEPT ![p] = row]
  <1>1. p \in File /\ map[p] \in [Names -> D]  BY DEF TablesWith
  <1>2. (k \in D => row \in [Names -> D]) /\ \A y \in Names : row[y] = IF y = x THEN k ELSE map[p][y]
    BY <1>1
  <1> HIDE DEF row
  <1> HIDE DEF p
  <1>3. \A q \in File : new[q] = IF q = p THEN row ELSE map[q]  BY DEF TablesWith
  <1>4. k \in D => new \in TablesWith(Names, D)  BY <1>1, <1>2 DEF TablesWith
  <1> HIDE DEF new
  <1>5. \A q \in File : \A y \in Names : new[q][y] = IF q = p /\ y = x THEN k ELSE map[q][y]
    BY <1>2, <1>3
  <1>6. QED  BY <1>4, <1>5 DEF new, row, p, Entered

\* A table of tables grows with its values.
LEMMA EntriesGrow ==
    ASSUME NEW Names, NEW D, NEW E, D \subseteq E, NEW map \in TablesWith(Names, D)
    PROVE  map \in TablesWith(Names, E)
  <1>1. \A q \in File : map[q] \in [Names -> E]
    <2> SUFFICES ASSUME NEW q \in File PROVE map[q] \in [Names -> E]
      OBVIOUS
    <2>1. map[q] \in [Names -> D]  BY DEF TablesWith
    <2>2. QED  BY <2>1
  <1>2. QED  BY <1>1 DEF TablesWith

\* The positions of a longer sequence.
LEMMA LongerFacts ==
    ASSUME NEW V, NEW s \in Seq(V), NEW v \in V
    PROVE  /\ Append(s, v) \in Seq(V) /\ DOMAIN Append(s, v) = DOMAIN s \cup {Len(s) + 1}
           /\ Len(s) + 1 \notin DOMAIN s /\ Append(s, v)[Len(s) + 1] = v
           /\ \A i \in DOMAIN s : Append(s, v)[i] = s[i] /\ i \in Nat \ {0} /\ i < Len(s) + 1
           /\ Len(s) \in Nat /\ DOMAIN s = 1 .. Len(s) /\ Len(Append(s, v)) = Len(s) + 1
  OBVIOUS

\* The tables have entries for the nodes built so far.
LEMMA NextTablesTyped ==
    ASSUME TypeOK, FramesOK, VarStep \/ FuncStep \/ HeaderStep \/ OtherStep
    PROVE  /\ funcDecls' \in Seq(FuncDecl) /\ DOMAIN funcDecls \subseteq DOMAIN funcDecls'
           /\ funcDefMap' \in TablesWith(FuncName, {None} \cup DOMAIN funcDecls')
           /\ globalVariableMap' \in TablesWith(VarName, {None} \cup DOMAIN varDecls')
  <1> DEFINE D == {None} \cup DOMAIN varDecls
             E == {None} \cup DOMAIN funcDecls
             Dp == {None} \cup DOMAIN varDecls'
             Ep == {None} \cup DOMAIN funcDecls'
  <1>1. /\ varDecls \in Seq(VarDecl) /\ funcDecls \in Seq(FuncDecl)
        /\ globalVariableMap \in TablesWith(VarName, D) /\ funcDefMap \in TablesWith(FuncName, E)
    BY DEF TypeOK, Table, TablesWith
  <1>2. CASE VarStep
    <2>1. ProgAst \in File /\ funcDecls' = funcDecls /\ funcDefMap' = funcDefMap
      BY <1>2, ProgramIsFile DEF VarStep, Steady
    <2>2. PICK v \in VarDecl :
           /\ varDecls' = Append(varDecls, v)
           /\ \/ globalVariableMap' = globalVariableMap
              \/ globalVariableMap' = Entered(globalVariableMap, v.name, Len(varDecls) + 1)
      BY <1>2 DEF VarStep
    <2>3. D \subseteq Dp /\ Len(varDecls) + 1 \in Dp  BY <1>1, <2>2, LongerFacts
    <2>4. E = Ep  BY <2>1
    <2>5. v.name \in VarName  BY DEF VarDecl
    <2> HIDE DEF D, Dp, E, Ep
    <2>6. globalVariableMap \in TablesWith(VarName, Dp)  BY <1>1, <2>3, EntriesGrow
    <2>7. globalVariableMap' \in TablesWith(VarName, Dp)
      BY <2>1, <2>2, <2>3, <2>5, <2>6, EntryFacts
    <2>8. QED  BY <1>1, <2>1, <2>4, <2>7 DEF Dp, Ep
  <1>3. CASE FuncStep
    <2>1. ProgAst \in File /\ UNCHANGED <<varDecls, funcDecls, globalVariableMap>>
      BY <1>3, ProgramIsFile DEF FuncStep, Steady
    <2>2. funcDecls # <<>>
      BY <1>3 DEF FuncStep, FramesOK, FlagsOK
    <2>3. Last(funcDecls).name \in FuncName /\ Len(funcDecls) \in E
      <3>1. Last(funcDecls) \in FuncDecl /\ Len(funcDecls) \in Nat \ {0}  BY <1>1, <2>2, FrontLast
      <3>2. Len(funcDecls) \in DOMAIN funcDecls  BY <1>1, <3>1
      <3>3. QED  BY <3>1, <3>2 DEF FuncDecl
    <2>4. \/ funcDefMap' = funcDefMap
          \/ funcDefMap' = Entered(funcDefMap, Last(funcDecls).name, Len(funcDecls))
      BY <1>3 DEF FuncStep
    <2>5. D = Dp /\ E = Ep  BY <2>1
    <2> HIDE DEF D, Dp, E, Ep
    <2>6. funcDefMap' \in TablesWith(FuncName, E)  BY <1>1, <2>1, <2>3, <2>4, EntryFacts
    <2>7. QED  BY <1>1, <2>1, <2>5, <2>6 DEF Dp, Ep
  <1>4. CASE HeaderStep
    <2>1. UNCHANGED <<varDecls, globalVariableMap, funcDefMap>>  BY <1>4 DEF HeaderStep
    <2>2. PICK f \in FuncDecl : funcDecls' = Append(funcDecls, f)  BY <1>4 DEF HeaderStep
    <2>3. E \subseteq Ep /\ funcDecls' \in Seq(FuncDecl) /\ DOMAIN funcDecls \subseteq DOMAIN funcDecls'
      BY <1>1, <2>2, LongerFacts
    <2>4. D = Dp  BY <2>1
    <2> HIDE DEF D, Dp, E, Ep
    <2>5. funcDefMap \in TablesWith(FuncName, Ep)  BY <1>1, <2>3, EntriesGrow
    <2>6. QED  BY <1>1, <2>1, <2>3, <2>4, <2>5 DEF Dp, Ep
  <1>5. CASE OtherStep
    BY <1>1, <1>5 DEF OtherStep
  <1>6. QED  BY <1>2, <1>3, <1>4, <1>5

\* Programs that see each other share no name.
NoDup(map, Names) ==
    \A p, q \in File : q \in Visible(p) /\ ParsedBefore(q, p) =>
        \A x \in Names : map[p][x] = None \/ map[q][x] = None

\* A name that no import has, entered for a program before it is the turn of those
\* that see it.
LEMMA InsertKeepsNames ==
    ASSUME NEW Names, NEW D, NEW map \in TablesWith(Names, D), NoDup(map, Names),
           NEW x \in Names, NEW k, ProgAst \in File, cur \in DOMAIN programList, InputsOK,
           Unseen(map, x), programList \in Seq(File),
           \A j \in DOMAIN programList : cur < j => map[programList[j]][x] = None
    PROVE  NoDup(Entered(map, x, k), Names)
  <1> DEFINE new == Entered(map, x, k)
  <1>1. \A q \in File : \A y \in Names :
            new[q][y] = IF q = ProgAst /\ y = x THEN k ELSE map[q][y]
    BY EntryFacts
  <1> HIDE DEF new
  <1>2. ASSUME NEW p \in File, NEW q \in File, q \in Visible(p), ParsedBefore(q, p),
               NEW y \in Names
        PROVE  new[p][y] = None \/ new[q][y] = None
    <2>1. map[p][y] = None \/ map[q][y] = None  BY <1>2 DEF NoDup
    <2>2. PICK i \in DOMAIN programList, j \in DOMAIN programList :
                i < j /\ programList[i] = q /\ programList[j] = p
      BY <1>2 DEF ParsedBefore
    <2>3. p # q
      <3>1. i \in Nat /\ j \in Nat  OBVIOUS
      <3>2. i # j  BY <2>2, <3>1
      <3>3. QED  BY <2>2, <3>2 DEF InputsOK
    <2>4. CASE y # x \/ (p # ProgAst /\ q # ProgAst)  BY <1>1, <2>1, <2>4
    <2>5. CASE y = x /\ p = ProgAst
      <3>1. map[q][x] = None  BY <1>2, <2>5 DEF Unseen
      <3>2. QED  BY <1>1, <2>3, <2>5, <3>1
    <2>6. CASE y = x /\ q = ProgAst
      <3>1. i = cur  BY <2>2, <2>6 DEF InputsOK, ProgAst
      <3>2. map[p][x] = None  BY <2>2, <3>1
      <3>3. QED  BY <1>1, <2>3, <2>6, <3>2
    <2>7. QED  BY <2>4, <2>5, <2>6
  <1>3. QED  BY <1>2 DEF NoDup, new

\* The invariant as two of these.
LEMMA NoDupMeans ==
    NoDuplicateAlongImports <=> NoDup(globalVariableMap, VarName) /\ NoDup(funcDefMap, FuncName)
  BY DEF NoDuplicateAlongImports, NoDup

\* What a program sees, and the order of the programs, depend on the input only.
LEMMA InputsStay ==
    ASSUME programList' = programList, deps' = deps
    PROVE  /\ \A p : Visible(p)' = Visible(p)
           /\ \A p, q : ParsedBefore(p, q)' <=> ParsedBefore(p, q)
  BY DEF Visible, ParsedBefore

\* Names stay apart.
LEMMA NextNoDup ==
    ASSUME TypeOK, InputsOK, FramesOK, LaterUnparsed, NoDuplicateAlongImports,
           VarStep \/ FuncStep \/ HeaderStep \/ OtherStep
    PROVE  NoDuplicateAlongImports'
  <1>1. NoDup(globalVariableMap, VarName) /\ NoDup(funcDefMap, FuncName)  BY NoDupMeans
  <1>2. programList' = programList /\ deps' = deps
    BY DEF VarStep, FuncStep, HeaderStep, OtherStep, Steady
  <1>3. ASSUME NoDup(globalVariableMap', VarName), NoDup(funcDefMap', FuncName)
        PROVE  NoDuplicateAlongImports'
    <2>1. \A p : Visible(p)' = Visible(p)  BY <1>2, InputsStay
    <2>2. \A p, q : ParsedBefore(p, q)' <=> ParsedBefore(p, q)  BY <1>2, InputsStay
    <2>3. QED  BY <1>3, <2>1, <2>2 DEF NoDuplicateAlongImports, NoDup
  <1>4. /\ globalVariableMap \in TablesWith(VarName, {None} \cup DOMAIN varDecls)
        /\ funcDefMap \in TablesWith(FuncName, {None} \cup DOMAIN funcDecls)
        /\ programList \in Seq(File)
    BY DEF TypeOK, Table, TablesWith
  <1>5. CASE VarStep
    <2>1. ProgAst \in File /\ cur \in DOMAIN programList /\ funcDefMap' = funcDefMap
      BY <1>5, ProgramIsFile DEF VarStep, Steady
    <2>2. PICK v \in VarDecl :
           \/ globalVariableMap' = globalVariableMap
           \/ /\ Unseen(globalVariableMap, v.name)
              /\ globalVariableMap' = Entered(globalVariableMap, v.name, Len(varDecls) + 1)
      BY <1>5 DEF VarStep
    <2>3. v.name \in VarName  BY DEF VarDecl
    <2>4. \A j \in DOMAIN programList : cur < j => globalVariableMap[programList[j]][v.name] = None
      BY <2>3 DEF LaterUnparsed, Unparsed
    <2>5. NoDup(globalVariableMap', VarName)
      <3>1. CASE globalVariableMap' = globalVariableMap  BY <1>1, <3>1
      <3>2. CASE Unseen(globalVariableMap, v.name)
                 /\ globalVariableMap' = Entered(globalVariableMap, v.name, Len(varDecls) + 1)
        BY <1>1, <1>4, <2>1, <2>3, <2>4, <3>2, InsertKeepsNames
      <3>3. QED  BY <2>2, <3>1, <3>2
    <2>6. QED  BY <1>1, <1>3, <2>1, <2>5
  <1>6. CASE FuncStep
    <2> DEFINE f == Last(funcDecls).name
    <2>1. ProgAst \in File /\ cur \in DOMAIN programList /\ globalVariableMap' = globalVariableMap
      BY <1>6, ProgramIsFile DEF FuncStep, Steady
    <2>2. \/ funcDefMap' = funcDefMap
          \/ /\ Unseen(funcDefMap, f)
             /\ funcDefMap' = Entered(funcDefMap, f, Len(funcDecls))
      BY <1>6 DEF FuncStep
    <2>3. f \in FuncName
      <3>1. funcDecls # <<>> /\ funcDecls \in Seq(FuncDecl)
        BY <1>6 DEF FuncStep, FramesOK, FlagsOK, TypeOK
      <3>2. Last(funcDecls) \in FuncDecl  BY <3>1, FrontLast
      <3>3. QED  BY <3>2 DEF FuncDecl
    <2> HIDE DEF f
    <2>4. \A j \in DOMAIN programList : cur < j => funcDefMap[programList[j]][f] = None
      BY <2>3 DEF LaterUnparsed, Unparsed
    <2>5. NoDup(funcDefMap', FuncName)
      <3>1. CASE funcDefMap' = funcDefMap  BY <1>1, <3>1
      <3>2. CASE Unseen(funcDefMap, f)
                 /\ funcDefMap' = Entered(funcDefMap, f, Len(funcDecls))
        BY <1>1, <1>4, <2>1, <2>3, <2>4, <3>2, InsertKeepsNames
      <3>3. QED  BY <2>2, <3>1, <3>2
    <2>6. QED  BY <1>1, <1>3, <2>1, <2>5
  <1>7. CASE HeaderStep \/ OtherStep
    BY <1>1, <1>3, <1>7 DEF HeaderStep, OtherStep
  <1>8. QED  BY <1>5, <1>6, <1>7

-----------------------------------------------------------------------------
(* The tables after a step.                                                 *)

\* Functions of a name and a program are positions; one more of them.
LEMMA FunctionFacts ==
    ASSUME funcDecls \in Seq(FuncDecl), NEW name, NEW p
    PROVE  /\ Functions(name, p) \in SUBSET (Nat \ {0})
           /\ Functions(name, p) \subseteq DOMAIN funcDecls
           /\ \A g \in FuncDecl : funcDecls' = Append(funcDecls, g) =>
                  \A i \in Functions(name, p)' : i \in Functions(name, p) \/ i = Len(funcDecls) + 1
           /\ \A g \in FuncDecl : funcDecls' = Append(funcDecls, g) =>
                  Functions(name, p) \subseteq Functions(name, p)'
  <1>1. DOMAIN funcDecls = 1 .. Len(funcDecls)  OBVIOUS
  <1>2. /\ Functions(name, p) \in SUBSET (Nat \ {0})
        /\ Functions(name, p) \subseteq DOMAIN funcDecls
    BY <1>1 DEF Functions
  <1>3. ASSUME NEW g \in FuncDecl, funcDecls' = Append(funcDecls, g)
        PROVE  /\ \A i \in Functions(name, p)' : i \in Functions(name, p) \/ i = Len(funcDecls) + 1
               /\ Functions(name, p) \subseteq Functions(name, p)'
    <2>1. /\ DOMAIN funcDecls' = DOMAIN funcDecls \cup {Len(funcDecls) + 1}
          /\ \A i \in DOMAIN funcDecls : funcDecls'[i] = funcDecls[i]
      BY <1>3, LongerFacts
    <2>2. QED  BY <2>1 DEF Functions
  <1>4. QED  BY <1>2, <1>3

\* The entries of the tables of variables.
LEMMA NextVarTables ==
    ASSUME TypeOK, VarTablesOK, VarStep \/ FuncStep \/ HeaderStep \/ OtherStep
    PROVE  VarTablesOK'
  <1>1. /\ globalVariableMap \in TablesWith(VarName, {None} \cup DOMAIN varDecls)
        /\ varDecls \in Seq(VarDecl)
    BY DEF TypeOK, Table, TablesWith
  <1>2. \A p \in File : \A x \in VarName : globalVariableMap[p][x] \in {None} \cup DOMAIN varDecls
    BY <1>1 DEF TablesWith
  <1>3. CASE VarStep
    <2>1. ProgAst \in File  BY <1>3, ProgramIsFile DEF VarStep, Steady
    <2>2. PICK v \in VarDecl :
           /\ v.prog = ProgAst /\ varDecls' = Append(varDecls, v)
           /\ \/ globalVariableMap' = globalVariableMap
              \/ /\ v.scope = 0
                 /\ globalVariableMap' = Entered(globalVariableMap, v.name, Len(varDecls) + 1)
      BY <1>3 DEF VarStep
    <2>3. v.name \in VarName  BY DEF VarDecl
    <2>4. /\ \A d \in DOMAIN varDecls : varDecls'[d] = varDecls[d]
          /\ varDecls'[Len(varDecls) + 1] = v
      BY <1>1, <2>2, LongerFacts
    <2> SUFFICES ASSUME NEW p \in File, NEW x \in VarName, globalVariableMap'[p][x] # None
                 PROVE  LET d == globalVariableMap'[p][x] IN
                        /\ varDecls'[d].name = x /\ varDecls'[d].prog = p
                        /\ varDecls'[d].scope = 0
      BY DEF VarTablesOK
    <2> DEFINE d == globalVariableMap[p][x]
    <2>5. CASE globalVariableMap'[p][x] = d
      <3>1. d # None /\ d \in DOMAIN varDecls  BY <1>2, <2>5
      <3>2. varDecls[d].name = x /\ varDecls[d].prog = p /\ varDecls[d].scope = 0
        BY <3>1 DEF VarTablesOK
      <3> HIDE DEF d
      <3>3. QED  BY <2>4, <2>5, <3>1, <3>2
    <2>6. CASE globalVariableMap'[p][x] # d
      <3>1. /\ v.scope = 0 /\ v.name = x /\ ProgAst = p
            /\ globalVariableMap'[p][x] = Len(varDecls) + 1
        <4>1. v.scope = 0
              /\ globalVariableMap' = Entered(globalVariableMap, v.name, Len(varDecls) + 1)
          BY <2>2, <2>6
        <4>2. Entered(globalVariableMap, v.name, Len(varDecls) + 1)[p][x] =
                  IF p = ProgAst /\ x = v.name THEN Len(varDecls) + 1 ELSE d
          BY <1>1, <2>1, <2>3, EntryFacts
        <4> HIDE DEF d
        <4>3. QED  BY <2>6, <4>1, <4>2
      <3>2. QED  BY <2>2, <2>4, <3>1
    <2>7. QED  BY <2>5, <2>6
  <1>4. CASE FuncStep \/ HeaderStep \/ OtherStep
    <2>1. UNCHANGED <<varDecls, globalVariableMap>>  BY <1>4 DEF FuncStep, HeaderStep, OtherStep
    <2>2. QED  BY <2>1 DEF VarTablesOK
  <1>5. QED  BY <1>3, <1>4

\* The programs to come have nothing yet.
LEMMA NextUnparsed ==
    ASSUME TypeOK, InputsOK, FramesOK, LaterUnparsed,
           VarStep \/ FuncStep \/ HeaderStep \/ OtherStep
    PROVE  LaterUnparsed'
  <1>1. programList \in Seq(File) /\ cur \in Nat /\ funcDecls \in Seq(FuncDecl)
        /\ globalVariableMap \in TablesWith(VarName, {None} \cup DOMAIN varDecls)
        /\ funcDefMap \in TablesWith(FuncName, {None} \cup DOMAIN funcDecls)
    BY DEF TypeOK, Table, TablesWith
  <1>2. programList' = programList
    BY DEF VarStep, FuncStep, HeaderStep, OtherStep, Steady
  <1> SUFFICES ASSUME NEW k \in DOMAIN programList, cur' < k
               PROVE  Unparsed(programList[k])'
    BY <1>2 DEF LaterUnparsed, Unparsed
  <1>3. cur < k
    <2>1. cur' = cur \/ cur' = cur + 1
      BY DEF VarStep, FuncStep, HeaderStep, OtherStep, Steady
    <2>2. k \in Nat  BY <1>1
    <2>3. QED  BY <1>1, <2>1, <2>2
  <1>4. programList[k] \in File /\ Unparsed(programList[k])  BY <1>1, <1>3 DEF LaterUnparsed
  <1> DEFINE p == programList[k]
  <1>5. ASSUME Steady PROVE p # ProgAst /\ ProgAst \in File
    <2>1. cur \in DOMAIN programList /\ ProgAst \in File  BY <1>5, ProgramIsFile DEF Steady
    <2>2. cur # k  BY <1>1, <1>3
    <2>3. QED  BY <2>1, <2>2 DEF InputsOK, ProgAst
  <1>6. p' = p  BY <1>2
  <1> HIDE DEF p
  <1>7. Unparsed(p)' <=> /\ \A x \in VarName : globalVariableMap'[p][x] = None
                         /\ \A f \in FuncName : funcDefMap'[p][f] = None
                         /\ \A i \in DOMAIN funcDecls' : funcDecls'[i].prog # p
    BY <1>6 DEF Unparsed
  <1>8. /\ p \in File /\ \A x \in VarName : globalVariableMap[p][x] = None
        /\ \A f \in FuncName : funcDefMap[p][f] = None
        /\ \A i \in DOMAIN funcDecls : funcDecls[i].prog # p
    BY <1>4 DEF Unparsed, p
  <1>9. CASE VarStep
    <2>1. p # ProgAst /\ ProgAst \in File /\ UNCHANGED <<funcDecls, funcDefMap>>
      BY <1>5, <1>9 DEF VarStep
    <2>2. PICK v \in VarDecl :
              \/ globalVariableMap' = globalVariableMap
              \/ globalVariableMap' = Entered(globalVariableMap, v.name, Len(varDecls) + 1)
      BY <1>9 DEF VarStep
    <2>3. v.name \in VarName  BY DEF VarDecl
    <2>4. \A x \in VarName : globalVariableMap'[p][x] = globalVariableMap[p][x]
      BY <1>1, <1>8, <2>1, <2>2, <2>3, EntryFacts
    <2>5. QED  BY <1>7, <1>8, <2>1, <2>4 DEF p
  <1>10. CASE FuncStep
    <2>1. p # ProgAst /\ ProgAst \in File /\ UNCHANGED <<funcDecls, globalVariableMap>>
      BY <1>5, <1>10 DEF FuncStep
    <2> DEFINE f == Last(funcDecls).name
    <2>2. \/ funcDefMap' = funcDefMap
          \/ funcDefMap' = Entered(funcDefMap, f, Len(funcDecls))
      BY <1>10 DEF FuncStep
    <2>3. f \in FuncName
      <3>1. funcDecls # <<>>
        BY <1>10 DEF FuncStep, FramesOK, FlagsOK
      <3>2. Last(funcDecls) \in FuncDecl  BY <1>1, <3>1, FrontLast
      <3>3. QED  BY <3>2 DEF FuncDecl
    <2> HIDE DEF f
    <2>4. \A g \in FuncName : funcDefMap'[p][g] = funcDefMap[p][g]
      BY <1>1, <1>8, <2>1, <2>2, <2>3, EntryFacts
    <2>5. QED  BY <1>7, <1>8, <2>1, <2>4 DEF p
  <1>11. CASE HeaderStep
    <2>1. p # ProgAst /\ UNCHANGED <<globalVariableMap, funcDefMap>>
      BY <1>5, <1>11 DEF HeaderStep
    <2>2. PICK g \in FuncDecl : g.prog = ProgAst /\ funcDecls' = Append(funcDecls, g)
      BY <1>11 DEF HeaderStep
    <2>3. \A i \in DOMAIN funcDecls' : funcDecls'[i].prog # p
      <3>1. /\ DOMAIN funcDecls' = DOMAIN funcDecls \cup {Len(funcDecls) + 1}
            /\ funcDecls'[Len(funcDecls) + 1] = g
            /\ \A i \in DOMAIN funcDecls : funcDecls'[i] = funcDecls[i]
        BY <1>1, <2>2, LongerFacts
      <3>2. QED  BY <1>8, <2>1, <2>2, <3>1
    <2>4. QED  BY <1>7, <1>8, <2>1, <2>3 DEF p
  <1>12. CASE OtherStep
    <2>1. UNCHANGED <<funcDecls, globalVariableMap, funcDefMap>>  BY <1>12 DEF OtherStep
    <2>2. QED  BY <1>7, <1>8, <2>1 DEF p
  <1>13. QED  BY <1>9, <1>10, <1>11, <1>12

\* The function whose header is being parsed.
LEMMA HeaderFunction ==
    ASSUME TypeOK, FramesOK, AtHeader
    PROVE  /\ Len(funcDecls) \in DOMAIN funcDecls /\ Last(funcDecls) = funcDecls[Len(funcDecls)]
           /\ funcDecls[Len(funcDecls)].prog = ProgAst
           /\ funcDecls[Len(funcDecls)].name \in FuncName
           /\ funcDecls \in Seq(FuncDecl) /\ Len(funcDecls) \in Nat
           /\ \A i \in DOMAIN funcDecls : i # Len(funcDecls) => i < Len(funcDecls)
  <1>1. funcDecls # <<>> /\ Last(funcDecls).prog = ProgAst /\ funcDecls \in Seq(FuncDecl)
    BY DEF TypeOK, FramesOK, FlagsOK
  <1>2. Last(funcDecls) \in FuncDecl /\ Len(funcDecls) \in Nat \ {0}  BY <1>1, FrontLast
  <1>3. Last(funcDecls).name \in FuncName  BY <1>2 DEF FuncDecl
  <1>4. DOMAIN funcDecls = 1 .. Len(funcDecls)  BY <1>1
  <1>5. Len(funcDecls) \in DOMAIN funcDecls
        /\ \A i \in DOMAIN funcDecls : i # Len(funcDecls) => i < Len(funcDecls)
    BY <1>2, <1>4
  <1>6. Last(funcDecls) = funcDecls[Len(funcDecls)]  BY DEF Last
  <1>7. QED  BY <1>1, <1>2, <1>3, <1>5, <1>6

\* Functions are found, and their tables hold the first of each name.
LEMMA NextFuncTables ==
    ASSUME TypeOK, FramesOK, FuncTablesOK, FunctionsAreFound,
           VarStep \/ FuncStep \/ HeaderStep \/ OtherStep
    PROVE  FuncTablesOK' /\ FunctionsAreFound'
  <1>1. /\ funcDecls \in Seq(FuncDecl) /\ deps \in Deps
        /\ funcDefMap \in TablesWith(FuncName, {None} \cup DOMAIN funcDecls)
    BY DEF TypeOK, TablesWith, Deps
  <1>2. \A p \in File : \A f \in FuncName : funcDefMap[p][f] \in {None} \cup DOMAIN funcDecls
    BY <1>1 DEF TablesWith
  <1>3. \A p : Visible(p)' = Visible(p)
    <2>1. programList' = programList /\ deps' = deps
      BY DEF VarStep, FuncStep, HeaderStep, OtherStep, Steady
    <2>2. QED  BY <2>1, InputsStay
  <1>4. CASE VarStep \/ OtherStep
    <2>1. UNCHANGED <<funcDecls, funcDefMap>> /\ (AtHeader => AtHeader')
      BY <1>4 DEF VarStep, OtherStep
    <2>2. FuncTablesOK'  BY <2>1 DEF FuncTablesOK, Functions
    <2>3. FunctionsAreFound'  BY <1>3, <2>1 DEF FunctionsAreFound
    <2>4. QED  BY <2>2, <2>3
  <1>5. CASE HeaderStep
    <2>1. PICK g \in FuncDecl : funcDecls' = Append(funcDecls, g)
      BY <1>5 DEF HeaderStep
    <2>2. funcDefMap' = funcDefMap /\ ~AtHeader /\ AtHeader'
      BY <1>5 DEF HeaderStep
    <2>3. FuncTablesOK'
      <3> SUFFICES ASSUME NEW p \in File, NEW f \in FuncName, funcDefMap[p][f] # None
                   PROVE  /\ funcDefMap[p][f] \in Functions(f, p)'
                          /\ \A j \in Functions(f, p)' : funcDefMap[p][f] <= j
        BY <2>2 DEF FuncTablesOK, Functions
      <3> DEFINE i == funcDefMap[p][f]
      <3>1. i \in Functions(f, p) /\ \A j \in Functions(f, p) : i <= j
        BY DEF FuncTablesOK
      <3> HIDE DEF i
      <3>2. /\ Functions(f, p) \subseteq Functions(f, p)'
            /\ \A j \in Functions(f, p)' : j \in Functions(f, p) \/ j = Len(funcDecls) + 1
        BY <1>1, <2>1, FunctionFacts
      <3>3. i <= Len(funcDecls) + 1
        <4>1. i \in DOMAIN funcDecls  BY <1>1, <3>1, FunctionFacts
        <4>2. i \in 1 .. Len(funcDecls) /\ Len(funcDecls) \in Nat  BY <1>1, <4>1
        <4>3. QED  BY <4>2
      <3>4. i \in Functions(f, p)' /\ \A j \in Functions(f, p)' : i <= j
        BY <3>1, <3>2, <3>3
      <3>5. QED  BY <3>4 DEF i
    <2>4. FunctionsAreFound'
      <3>1. /\ DOMAIN funcDecls' = DOMAIN funcDecls \cup {Len(funcDecls) + 1}
            /\ Len(funcDecls') = Len(funcDecls) + 1
            /\ \A i \in DOMAIN funcDecls : funcDecls'[i] = funcDecls[i]
        BY <1>1, <2>1, LongerFacts
      <3>2. QED  BY <1>3, <2>2, <3>1 DEF FunctionsAreFound
    <2>5. QED  BY <2>3, <2>4
  <1>6. CASE FuncStep
    <2> DEFINE k == Len(funcDecls)
               f == funcDecls[k].name
    <2>1. ProgAst \in File /\ UNCHANGED <<funcDecls, deps>> /\ AtHeader /\ ~AtHeader'
      BY <1>6, ProgramIsFile DEF FuncStep, Steady
    <2>2. /\ k \in DOMAIN funcDecls /\ funcDecls[k].prog = ProgAst /\ f \in FuncName
          /\ Last(funcDecls) = funcDecls[k] /\ k \in Nat
          /\ \A i \in DOMAIN funcDecls : i # k => i < k
      BY <2>1, HeaderFunction
    <2>3. \/ funcDefMap' = funcDefMap /\ (f \in StdFunction \/ ~Unseen(funcDefMap, f))
          \/ /\ f \notin StdFunction /\ Unseen(funcDefMap, f)
             /\ funcDefMap' = Entered(funcDefMap, f, k)
      BY <1>6, <2>2 DEF FuncStep
    <2>4. f = funcDecls[k].name  OBVIOUS
    <2>5. ASSUME NEW i \in DOMAIN funcDecls, i # k, funcDecls[i].name \notin StdFunction
          PROVE  \E q \in Visible(funcDecls[i].prog) : funcDefMap[q][funcDecls[i].name] # None
      BY <2>5 DEF FunctionsAreFound
    <2>6. k # None  BY <1>1, <2>2 DEF None
    <2> HIDE DEF k, f
    <2>7. ProgAst \in Visible(ProgAst) /\ \A p \in File : Visible(p) \subseteq File
      BY <1>1, <2>1, VisibleFacts
    <2>8. CASE funcDefMap' = funcDefMap /\ (f \in StdFunction \/ ~Unseen(funcDefMap, f))
      <3>1. FuncTablesOK'  BY <2>1, <2>8 DEF FuncTablesOK, Functions
      <3>2. ASSUME NEW i \in DOMAIN funcDecls, funcDecls[i].name \notin StdFunction
            PROVE  \E q \in Visible(funcDecls[i].prog) : funcDefMap[q][funcDecls[i].name] # None
        <4>1. CASE i # k  BY <2>5, <3>2, <4>1
        <4>2. CASE i = k  BY <2>2, <2>4, <2>8, <3>2, <4>2 DEF Unseen
        <4>3. QED  BY <4>1, <4>2
      <3>3. FunctionsAreFound'  BY <1>3, <2>1, <2>8, <3>2 DEF FunctionsAreFound
      <3>4. QED  BY <3>1, <3>3
    <2>9. CASE /\ f \notin StdFunction /\ Unseen(funcDefMap, f)
               /\ funcDefMap' = Entered(funcDefMap, f, k)
      <3>1. \A p \in File : \A h \in FuncName :
                funcDefMap'[p][h] = IF p = ProgAst /\ h = f THEN k ELSE funcDefMap[p][h]
        BY <1>1, <2>1, <2>2, <2>9, EntryFacts
      <3>2. k \in Functions(f, ProgAst) /\ \A j \in Functions(f, ProgAst) : k <= j
        <4>1. k \in Functions(f, ProgAst)  BY <2>2, <2>4 DEF Functions
        <4>2. ASSUME NEW j \in Functions(f, ProgAst) PROVE j = k
          <5> SUFFICES ASSUME j # k PROVE FALSE
            OBVIOUS
          <5>1. j \in DOMAIN funcDecls /\ funcDecls[j].name = f /\ funcDecls[j].prog = ProgAst
            BY DEF Functions
          <5>2. \E q \in Visible(ProgAst) : funcDefMap[q][f] # None
            BY <2>5, <2>9, <5>1
          <5>3. QED  BY <2>9, <5>2 DEF Unseen
        <4>3. k <= k  BY <2>2
        <4>4. QED  BY <4>1, <4>2, <4>3
      <3>3. FuncTablesOK'
        <4> SUFFICES ASSUME NEW p \in File, NEW h \in FuncName, funcDefMap'[p][h] # None
                     PROVE  /\ funcDefMap'[p][h] \in Functions(h, p)
                            /\ \A j \in Functions(h, p) : funcDefMap'[p][h] <= j
          BY <2>1 DEF FuncTablesOK, Functions
        <4>1. CASE p = ProgAst /\ h = f  BY <3>1, <3>2, <4>1
        <4>2. CASE ~(p = ProgAst /\ h = f)
          <5>1. funcDefMap'[p][h] = funcDefMap[p][h]  BY <3>1, <4>2
          <5>2. QED  BY <5>1 DEF FuncTablesOK
        <4>3. QED  BY <4>1, <4>2
      <3>4. \A p \in File : \A h \in FuncName : funcDefMap[p][h] # None => funcDefMap'[p][h] # None
        BY <2>6, <3>1
      <3>5. ASSUME NEW i \in DOMAIN funcDecls, funcDecls[i].name \notin StdFunction
            PROVE  \E q \in Visible(funcDecls[i].prog) : funcDefMap'[q][funcDecls[i].name] # None
        <4>1. CASE i # k
          <5>1. PICK q \in Visible(funcDecls[i].prog) : funcDefMap[q][funcDecls[i].name] # None
            BY <2>5, <3>5, <4>1
          <5>2. funcDecls[i] \in FuncDecl  BY <1>1
          <5>3. funcDecls[i].prog \in File /\ funcDecls[i].name \in FuncName
            BY <5>2 DEF FuncDecl
          <5>4. q \in File  BY <2>7, <5>3
          <5>5. QED  BY <3>4, <5>1, <5>3, <5>4
        <4>2. CASE i = k
          <5>1. funcDefMap'[ProgAst][f] # None  BY <2>1, <2>2, <2>6, <3>1
          <5>2. QED  BY <2>2, <2>4, <2>7, <4>2, <5>1
        <4>3. QED  BY <4>1, <4>2
      <3>6. FunctionsAreFound'  BY <1>3, <2>1, <3>5 DEF FunctionsAreFound
      <3>7. QED  BY <3>3, <3>6
    <2>10. QED  BY <2>3, <2>8, <2>9
  <1>7. QED  BY <1>4, <1>5, <1>6

-----------------------------------------------------------------------------
(* Names in expressions.                                                    *)

\* What a name can be bound to.
Bindings ==
    {<<>>} \cup ({"variable"} \X VarName \X DOMAIN varDecls)
           \cup ({"function"} \X FuncName \X DOMAIN funcDecls)
\* The open scopes that declare a name, ...
ScopesWith(x) == {i \in DOMAIN OpenScopes : Declared(x, OpenScopes[i]) # {}}
\* ... and a node that is the name's by the rules of BindingIsLexical.
LexicalVariable(x, n) ==
    /\ ScopesWith(x) # {} => n = First(Declared(x, OpenScopes[Max(ScopesWith(x))]))
    /\ ScopesWith(x) = {} => /\ varDecls[n].name = x /\ varDecls[n].scope = 0
                             /\ varDecls[n].prog \in Visible(ProgAst)

\* The search from the innermost table outwards ends in the innermost scope that
\* declares the name.
LEMMA InnermostFound ==
    ASSUME ScopesOK, OpenScopes \in Seq(Nat), varDecls \in Seq(VarDecl), NEW x \in VarName
    PROVE  /\ ScopesWith(x) = {} => GetVariableNode(x) = None
           /\ ScopesWith(x) # {} =>
                  /\ GetVariableNode(x) = First(Declared(x, OpenScopes[Max(ScopesWith(x))]))
                  /\ GetVariableNode(x) # None /\ GetVariableNode(x) \in DOMAIN varDecls
  <1> DEFINE S == OpenScopes
             L == Len(S)
             D(i) == DeclaredIn(varDecls, x, S[i])
             W == ScopesWith(x)
             s == [i \in 1 .. L |-> First(D(L + 1 - i))]
  <1>1. S \in Seq(Nat) /\ L \in Nat /\ DOMAIN S = 1 .. L  OBVIOUS
  <1>2. W = {i \in 1 .. L : D(i) # {}}
    BY <1>1 DEF ScopesWith, Declared, DeclaredIn
  <1>3. \A i \in 1 .. L : Declared(x, OpenScopes[i]) = D(i)  BY DEF Declared, DeclaredIn
  <1>4. symTabMap = TablesOf(S, varDecls)  BY DEF ScopesOK, TablesFollow
  <1> HIDE DEF S
  <1>5. Len(symTabMap) = L /\ DOMAIN symTabMap = 1 .. L
        /\ \A i \in 1 .. L : symTabMap[i][x] = First(D(i))
    <2>1. Len(symTabMap) = L
          /\ \A i \in 1 .. L : symTabMap[i] = [y \in VarName |-> First(DeclaredIn(varDecls, y, S[i]))]
      BY <1>1, <1>4, TablesFacts
    <2>2. DOMAIN symTabMap = 1 .. L  BY <1>1, <1>4 DEF TablesOf
    <2>3. QED  BY <2>1, <2>2
  <1>6. ASSUME NEW i \in 1 .. L
        PROVE  /\ D(i) \in SUBSET (Nat \ {0}) /\ D(i) \subseteq DOMAIN varDecls
               /\ First(D(i)) = None <=> D(i) = {}
               /\ D(i) # {} => First(D(i)) \in DOMAIN varDecls
               /\ First(D(i)) \in Nat
    <2> DEFINE A == D(i)
    <2>1. A \in SUBSET (Nat \ {0}) /\ A \subseteq DOMAIN varDecls  BY DeclaredFacts
    <2> HIDE DEF A
    <2>2. (First(A) = None <=> A = {}) /\ (A # {} => First(A) \in A) /\ First(A) \in Nat
      BY <2>1, FirstFacts
    <2>3. QED  BY <2>1, <2>2 DEF A
  <1> HIDE DEF L, D, W
  <1>7. \A i \in 1 .. L : L + 1 - i \in 1 .. L  BY <1>1
  <1>8. s \in Seq(Nat) /\ DOMAIN s = 1 .. L /\ \A i \in 1 .. L : s[i] = First(D(L + 1 - i))
    <2>1. \A i \in 1 .. L : First(D(L + 1 - i)) \in Nat  BY <1>6, <1>7
    <2>2. QED  BY <1>1, <2>1
  <1>9. GetVariableNode(x) = FirstFound(s)
    <2> DEFINE t == [i \in DOMAIN symTabMap |-> symTabMap[Len(symTabMap) + 1 - i][x]]
    <2>1. t = s  BY <1>5, <1>7
    <2>2. GetVariableNode(x) = FirstFound(t)  BY DEF GetVariableNode
    <2> HIDE DEF s, t
    <2>3. QED  BY <2>1, <2>2
  <1> HIDE DEF s
  <1>10. \/ FirstFound(s) = None /\ \A i \in DOMAIN s : s[i] = None
         \/ \E i \in DOMAIN s : /\ FirstFound(s) = s[i] /\ s[i] # None
                                /\ \A j \in DOMAIN s : j < i => s[j] = None
    BY <1>8, FirstFoundFacts
  <1>11. CASE FirstFound(s) = None /\ \A i \in DOMAIN s : s[i] = None
    <2>1. W = {}
      <3> SUFFICES ASSUME NEW i \in W PROVE FALSE
        OBVIOUS
      <3>1. i \in 1 .. L /\ D(i) # {}  BY <1>2
      <3> DEFINE j == L + 1 - i
      <3>2. j \in 1 .. L /\ L + 1 - j = i  BY <1>1, <3>1
      <3> HIDE DEF j
      <3>3. s[j] = First(D(i))  BY <1>8, <3>2
      <3>4. QED  BY <1>6, <1>8, <1>11, <3>1, <3>2, <3>3
    <2>2. QED  BY <1>9, <1>11, <2>1 DEF W
  <1>12. CASE \E i \in DOMAIN s : /\ FirstFound(s) = s[i] /\ s[i] # None
                                  /\ \A j \in DOMAIN s : j < i => s[j] = None
    <2>1. PICK i \in 1 .. L : /\ FirstFound(s) = s[i] /\ s[i] # None
                              /\ \A j \in 1 .. L : j < i => s[j] = None
      BY <1>8, <1>12
    <2> DEFINE m == L + 1 - i
    <2>2. m \in 1 .. L /\ s[i] = First(D(m))  BY <1>7, <1>8
    <2>3. D(m) # {} /\ First(D(m)) \in DOMAIN varDecls  BY <1>6, <2>1, <2>2
    <2>4. m \in W  BY <1>2, <2>2, <2>3
    <2>5. \A k \in W : k <= m
      <3> SUFFICES ASSUME NEW k \in W, ~(k <= m) PROVE FALSE
        OBVIOUS
      <3>1. k \in 1 .. L /\ D(k) # {}  BY <1>2
      <3> DEFINE j == L + 1 - k
      <3>2. j \in 1 .. L /\ j < i /\ L + 1 - j = k  BY <1>1, <3>1
      <3> HIDE DEF j
      <3>3. s[j] = First(D(k))  BY <1>8, <3>2
      <3>4. s[j] = None  BY <2>1, <3>2
      <3>5. QED  BY <1>6, <3>1, <3>3, <3>4
    <2> HIDE DEF m
    <2>6. Max(W) = m
      <3>1. W \in SUBSET (0 .. L) /\ W # {}  BY <1>2, <2>4
      <3> DEFINE top == Max(W)
      <3>2. top \in W /\ \A k \in W : k <= top  BY <1>1, <3>1, MaxExists
      <3> HIDE DEF top
      <3>3. top <= m /\ m <= top  BY <2>4, <2>5, <3>2
      <3>4. top \in 0 .. L /\ m \in 0 .. L  BY <2>4, <3>1, <3>2
      <3>5. top = m  BY <1>1, <3>3, <3>4
      <3>6. QED  BY <3>5 DEF top
    <2>7. QED  BY <1>3, <1>9, <2>1, <2>2, <2>3, <2>4, <2>6 DEF W
  <1>13. QED  BY <1>10, <1>11, <1>12

\* What is found through the imports.
LEMMA ImportedFound ==
    ASSUME TypeOK, InputsOK, VarTablesOK, FuncTablesOK, Running
    PROVE  /\ \A x \in VarName :
                  LET n == GetVariableNodeFromGlobalMap(x) IN
                  n # None => /\ n \in DOMAIN varDecls
                              /\ varDecls[n].name = x /\ varDecls[n].scope = 0
                              /\ varDecls[n].prog \in Visible(ProgAst)
           /\ \A f \in FuncName :
                  LET n == GetFuncASTNode(f) IN
                  n # None => /\ n \in DOMAIN funcDecls
                              /\ funcDecls[n].name = f
                              /\ funcDecls[n].prog \in Visible(ProgAst)
                              /\ n = First(Functions(f, funcDecls[n].prog))
  <1>1. /\ ProgAst \in File /\ funcDecls \in Seq(FuncDecl)
        /\ globalVariableMap \in TablesWith(VarName, {None} \cup DOMAIN varDecls)
        /\ funcDefMap \in TablesWith(FuncName, {None} \cup DOMAIN funcDecls)
    BY ProgramIsFile DEF TypeOK, Table, TablesWith
  <1>2. globalVariableMap \in Maps(VarName) /\ funcDefMap \in Maps(FuncName) /\ deps \in Deps
        /\ Acyclic(deps)
    BY MapsFacts DEF InputsOK
  <1>3. Visible(ProgAst) \subseteq File  BY <1>1, <1>2, VisibleFacts
  <1>4. ASSUME NEW x \in VarName, GetVariableNodeFromGlobalMap(x) # None
        PROVE  LET n == GetVariableNodeFromGlobalMap(x) IN
               /\ n \in DOMAIN varDecls
               /\ varDecls[n].name = x /\ varDecls[n].scope = 0
               /\ varDecls[n].prog \in Visible(ProgAst)
    <2> DEFINE n == FindIn(globalVariableMap, x)[ProgAst]
    <2>1. GetVariableNodeFromGlobalMap(x) = n  BY DEF GetVariableNodeFromGlobalMap
    <2>2. n # None => \E q \in Visible(ProgAst) : n = globalVariableMap[q][x]
      BY <1>1, <1>2, FindInFacts
    <2> HIDE DEF n
    <2>3. PICK q \in Visible(ProgAst) : n = globalVariableMap[q][x]  BY <1>4, <2>1, <2>2
    <2>4. q \in File /\ n # None  BY <1>3, <1>4, <2>1
    <2>5. n \in DOMAIN varDecls  BY <1>1, <2>3, <2>4 DEF TablesWith
    <2>6. varDecls[n].name = x /\ varDecls[n].prog = q /\ varDecls[n].scope = 0
      BY <2>3, <2>4 DEF VarTablesOK
    <2>7. QED  BY <2>1, <2>5, <2>6
  <1>5. ASSUME NEW f \in FuncName, GetFuncASTNode(f) # None
        PROVE  LET n == GetFuncASTNode(f) IN
               /\ n \in DOMAIN funcDecls
               /\ funcDecls[n].name = f
               /\ funcDecls[n].prog \in Visible(ProgAst)
               /\ n = First(Functions(f, funcDecls[n].prog))
    <2> DEFINE n == FindIn(funcDefMap, f)[ProgAst]
    <2>1. GetFuncASTNode(f) = n  BY DEF GetFuncASTNode
    <2>2. n # None => \E q \in Visible(ProgAst) : n = funcDefMap[q][f]
      BY <1>1, <1>2, FindInFacts
    <2> HIDE DEF n
    <2>3. PICK q \in Visible(ProgAst) : n = funcDefMap[q][f]  BY <1>5, <2>1, <2>2
    <2>4. q \in File /\ n # None  BY <1>3, <1>5, <2>1
    <2>5. n \in DOMAIN funcDecls  BY <1>1, <2>3, <2>4 DEF TablesWith
    <2> DEFINE A == Functions(f, q)
    <2>6. n \in A /\ \A j \in A : n <= j  BY <2>3, <2>4 DEF FuncTablesOK
    <2>7. A \in SUBSET (Nat \ {0})  BY <1>1, FunctionFacts
    <2>8. funcDecls[n].name = f /\ funcDecls[n].prog = q  BY <2>6 DEF Functions
    <2> HIDE DEF A
    <2>9. First(A) = n  BY <2>6, <2>7, FirstIs
    <2>10. QED  BY <2>1, <2>5, <2>8, <2>9 DEF A
  <1>6. QED  BY <1>4, <1>5

\* A name in an expression means what it should.
LEMMA NextBinding ==
    ASSUME TypeOK, InputsOK, ScopesOK, VarTablesOK, FuncTablesOK, Next
    PROVE  BindingIsLexical' /\ CallFindsFunction' /\ binding' \in Bindings'
  <1> DEFINE Goal == BindingIsLexical' /\ CallFindsFunction' /\ binding' \in Bindings'
  <1>1. /\ frames \in Seq(Frame) /\ varDecls \in Seq(VarDecl)
    BY DEF TypeOK
  <1>2. OpenScopes \in Seq(Nat)  BY <1>1, ScopesAreNumbers DEF OpenScopes
  <1>3. ASSUME binding' = <<>> PROVE Goal
    BY <1>3 DEF BindingIsLexical, CallFindsFunction, Bindings
  <1> DEFINE Same == UNCHANGED <<inputs, cur, varDecls, funcDecls, tables, nesting>>
  <1>4. ASSUME Same
        PROVE  /\ ProgAst' = ProgAst /\ OpenScopes' = OpenScopes
               /\ varDecls' = varDecls /\ funcDecls' = funcDecls
               /\ Visible(ProgAst)' = Visible(ProgAst)
               /\ \A x, n : LexicalVariable(x, n)' <=> LexicalVariable(x, n)
    <2>1. /\ ProgAst' = ProgAst /\ OpenScopes' = OpenScopes /\ deps' = deps
          /\ varDecls' = varDecls /\ funcDecls' = funcDecls
      BY <1>4 DEF ProgAst, OpenScopes, inputs, nesting
    <2>2. Visible(ProgAst)' = Visible(ProgAst)  BY <2>1 DEF Visible
    <2>3. \A x, n : LexicalVariable(x, n)' <=> LexicalVariable(x, n)
      BY <2>1, <2>2 DEF LexicalVariable, ScopesWith, Declared
    <2>4. QED  BY <2>1, <2>2, <2>3
  <1>5. ASSUME IdRef PROVE Goal
    <2>0. PICK x \in VarName : Resolve("variable", x, VariableNode(x))  BY <1>5 DEF IdRef
    <2>1. PICK n : n = VariableNode(x) /\ Resolve("variable", x, n)  BY <2>0
    <2>2. Running /\ Same /\ binding' = IF n = None THEN <<>> ELSE <<"variable", x, n>>
      BY <1>5, <2>1 DEF IdRef, Resolve
    <2>3. n = IF GetVariableNode(x) # None THEN GetVariableNode(x)
              ELSE GetVariableNodeFromGlobalMap(x)
      BY <2>1 DEF VariableNode
    <2> HIDE DEF Same, Goal
    <2>4. CASE n = None  BY <1>3, <2>2, <2>4
    <2>5. CASE n # None
      <3> DEFINE b == <<"variable", x, n>>
                 W == ScopesWith(x)
      <3>1. b[1] = "variable" /\ b[2] = x /\ b[3] = n /\ b # <<>>  OBVIOUS
      <3>2. binding' = b  BY <2>2, <2>5
      <3>3. n \in DOMAIN varDecls
            /\ (W # {} => n = First(Declared(x, OpenScopes[Max(W)])))
            /\ (W = {} => varDecls[n].name = x /\ varDecls[n].scope = 0
                          /\ varDecls[n].prog \in Visible(ProgAst))
        <4>1. CASE W # {}
          BY <1>1, <1>2, <2>3, <4>1, InnermostFound
        <4>2. CASE W = {}
          <5>1. GetVariableNode(x) = None  BY <1>1, <1>2, <4>2, InnermostFound
          <5>2. n = GetVariableNodeFromGlobalMap(x)  BY <2>3, <5>1
          <5>3. QED  BY <2>2, <2>5, <4>2, <5>2, ImportedFound
        <4>3. QED  BY <4>1, <4>2
      <3>4. W = {i \in DOMAIN OpenScopes : Declared(x, OpenScopes[i]) # {}}  BY DEF ScopesWith
      <3>5. b \in {"variable"} \X VarName \X DOMAIN varDecls  BY <3>3
      <3> HIDE DEF b, W
      <3>6. binding' \in Bindings'
        <4>1. varDecls' = varDecls  BY <1>4, <2>2
        <4>2. QED  BY <3>2, <3>5, <4>1 DEF Bindings
      <3>7. BindingIsLexical'
        <4>1. LexicalVariable(x, n)  BY <3>3 DEF LexicalVariable, W
        <4>2. LexicalVariable(x, n)'  BY <1>4, <2>2, <4>1
        <4>3. binding'[1] = "variable" /\ binding'[2] = x /\ binding'[3] = n
          BY <3>1, <3>2
        <4>4. BindingIsLexical' <=>
                  (binding' # <<>> /\ binding'[1] = "variable"
                       => LexicalVariable(binding[2], binding[3])')
          BY DEF BindingIsLexical, LexicalVariable, ScopesWith
        <4>5. LexicalVariable(binding[2], binding[3])'
          BY <4>2, <4>3 DEF LexicalVariable, ScopesWith, Declared
        <4>6. QED  BY <4>4, <4>5
      <3>8. CallFindsFunction'
        <4>1. "variable" # "function"  OBVIOUS
        <4>2. QED  BY <3>1, <3>2, <4>1 DEF CallFindsFunction
      <3>9. QED  BY <3>6, <3>7, <3>8 DEF Goal
    <2>6. QED  BY <2>4, <2>5
  <1>6. ASSUME Call PROVE Goal
    <2>1. PICK f \in FuncName : Resolve("function", f, GetFuncASTNode(f))  BY <1>6 DEF Call
    <2> DEFINE n == GetFuncASTNode(f)
    <2>2. Running /\ Same /\ binding' = IF n = None THEN <<>> ELSE <<"function", f, n>>
      BY <1>6, <2>1 DEF Call, Resolve
    <2>3. n # None => /\ n \in DOMAIN funcDecls
                      /\ funcDecls[n].name = f
                      /\ funcDecls[n].prog \in Visible(ProgAst)
                      /\ n = First(Functions(f, funcDecls[n].prog))
      BY <2>2, ImportedFound
    <2> HIDE DEF n, Same, Goal
    <2>4. CASE n = None  BY <1>3, <2>2, <2>4
    <2>5. CASE n # None
      <3> DEFINE b == <<"function", f, n>>
      <3>1. b[1] = "function" /\ b[2] = f /\ b[3] = n /\ b # <<>>  OBVIOUS
      <3>2. binding' = b  BY <2>2, <2>5
      <3>3. b \in {"function"} \X FuncName \X DOMAIN funcDecls  BY <2>3, <2>5
      <3> HIDE DEF b
      <3>4. funcDecls' = funcDecls /\ ProgAst' = ProgAst  BY <1>4, <2>2
      <3>5. binding' \in Bindings'  BY <3>2, <3>3, <3>4 DEF Bindings
      <3>6. BindingIsLexical'
        <4>1. "variable" # "function"  OBVIOUS
        <4>2. QED  BY <3>1, <3>2, <4>1 DEF BindingIsLexical
      <3>7. CallFindsFunction'
        <4>1. Visible(ProgAst)' = Visible(ProgAst)  BY <1>4, <2>2
        <4>2. \A q : First(Functions(f, q))' = First(Functions(f, q))
          BY <3>4 DEF Functions
        <4>3. QED  BY <2>3, <2>5, <3>1, <3>2, <3>4, <4>1, <4>2 DEF CallFindsFunction, Functions
      <3>8. QED  BY <3>5, <3>6, <3>7 DEF Goal
    <2>6. QED  BY <2>4, <2>5
  <1>7. ASSUME ~IdRef, ~Call PROVE binding' = <<>>
    BY <1>7 DEF Next, GlobalVar, FinishProgram, BeginFuncExtern, BeginFuncDef, BeginFunc, Param,
                FinishFuncExtern, BeginBody, Redefined, EnterBlock, LeaveBlock, LeaveBody,
                CloseScope, LocalVar, DeclarationAsBody, DeclareVar, EnterLoop, EnterIf,
                EnterControl, SimpleStmt, SameNames, FinishLoop, FinishIf, LeaveControl,
                EnterElse, SyntaxError
  <1> HIDE DEF Goal
  <1>8. QED
    <2>1. Goal  BY <1>3, <1>5, <1>6, <1>7
    <2>2. QED  BY <2>1 DEF Goal

-----------------------------------------------------------------------------
(* The theorems.                                                            *)

\* The inductive invariant, ...
IInv ==
    /\ TypeOK /\ InputsOK /\ FramesOK /\ ScopesOK
    /\ NodesFollowNesting /\ TablesOK /\ NoDuplicateAlongImports

\* A short sequence is a sequence.
LEMMA SeqUpToFacts ==
    ASSUME NEW S, NEW n \in Nat, NEW s \in SeqUpTo(S, n)
    PROVE  s \in Seq(S)
  <1>1. PICK k \in 0 .. n : s \in [1 .. k -> S]  BY DEF SeqUpTo
  <1>2. k \in Nat  OBVIOUS
  <1>3. QED  BY <1>1, <1>2

\* The bounds are numbers.
LEMMA BoundsAreNumbers == MaxArgs \in Nat /\ MaxImports \in Nat
  BY ConstantsAssumption

\* The programs are the files the command line leads to, each once.
LEMMA InitInputs ==
    ASSUME Init
    PROVE  /\ programList \in Seq(File) /\ deps \in [File -> Seq(File)] /\ InputsOK
           /\ programList # <<>>
  <1>1. PICK args \in SeqUpTo(File, MaxArgs) \ {<<>>},
             imports \in [File -> SeqUpTo(File, MaxImports)] :
           /\ deps = [f \in File |-> IF f \in ToSet(args) THEN imports[f] ELSE <<>>]
           /\ Acyclic(deps)
           /\ programList \in SeqUpTo(File, MaxArgs * (MaxImports + 1))
           /\ InMentionOrder(programList, args, imports)
    BY DEF Init
  <1>2. args \in Seq(File) /\ args # <<>>
    BY BoundsAreNumbers, SeqUpToFacts
  <1>3. \A f \in File : imports[f] \in Seq(File)
    <2> SUFFICES ASSUME NEW f \in File PROVE imports[f] \in Seq(File)
      OBVIOUS
    <2>1. imports[f] \in SeqUpTo(File, MaxImports)  OBVIOUS
    <2>2. QED  BY <2>1, BoundsAreNumbers, SeqUpToFacts
  <1>4. deps \in [File -> Seq(File)]
    <2>1. <<>> \in Seq(File)  OBVIOUS
    <2>2. QED  BY <1>1, <1>3, <2>1
  <1>5. programList \in Seq(File)
    <2>1. MaxArgs * (MaxImports + 1) \in Nat  BY BoundsAreNumbers
    <2>2. QED  BY <1>1, <2>1, SeqUpToFacts
  <1>6. \A i, j \in DOMAIN programList : programList[i] = programList[j] => i = j
    <2>1. \A i, j \in DOMAIN programList : i < j => programList[i] # programList[j]
      BY <1>1 DEF InMentionOrder
    <2>2. \A i, j \in DOMAIN programList : i < j \/ j < i \/ i = j
      BY <1>5
    <2>3. QED  BY <2>1, <2>2
  <1>7. programList # <<>>
    <2> DEFINE m == Mentions(args, imports)
    <2>1. 1 \in DOMAIN m /\ m[1] = <<args[1]>> \o imports[args[1]] /\ args[1] \in File
      <3>1. 1 \in 1 .. Len(args)  BY <1>2
      <3>2. QED  BY <1>2, <3>1 DEF Mentions
    <2>2. m[1] # <<>> /\ 1 \in DOMAIN m[1]
      <3> DEFINE s == <<args[1]>>
                 t == imports[args[1]]
      <3>1. s \in Seq(File) /\ t \in Seq(File) /\ Len(s) = 1  BY <1>3, <2>1
      <3> HIDE DEF s, t
      <3>2. Len(s \o t) = 1 + Len(t) /\ Len(t) \in Nat /\ s \o t \in Seq(File)
        BY <3>1, ConcatProperties
      <3>3. 1 \in 1 .. Len(s \o t)  BY <3>2
      <3>4. s \o t # <<>> /\ 1 \in DOMAIN (s \o t)  BY <3>2, <3>3
      <3>5. m[1] = s \o t  BY <2>1 DEF s, t
      <3> HIDE DEF m
      <3>6. QED  BY <3>4, <3>5
    <2>3. ToSet(programList) = UNION {ToSet(m[i]) : i \in DOMAIN m}
      BY <1>1 DEF InMentionOrder
    <2> HIDE DEF m
    <2>4. m[1][1] \in ToSet(m[1])  BY <2>2 DEF ToSet
    <2>5. ToSet(programList) # {}  BY <2>1, <2>3, <2>4
    <2>6. QED  BY <2>5 DEF ToSet
  <1>8. cur = 1 /\ ~(cur > Len(programList))
    <2>1. Len(programList) \in Nat \ {0}  BY <1>5, <1>7
    <2>2. QED  BY <2>1 DEF Init
  <1>9. InputsOK  BY <1>1, <1>6, <1>8 DEF InputsOK
  <1>10. QED  BY <1>4, <1>5, <1>7, <1>9

\* The stack of a program that begins.
LEMMA RootZero == Root(0) = <<"program">> /\ Root(0) \o <<>> = Root(0)
  <1>1. [i \in 1 .. 2 * 0 |-> "func"] = <<>>  OBVIOUS
  <1>2. <<"program">> \o <<>> = <<"program">>  OBVIOUS
  <1>3. Root(0) \in Seq(NodeClass)  BY RootFacts
  <1>4. Root(0) \o <<>> = Root(0)  BY <1>3, ConcatEmptySeq
  <1>5. QED  BY <1>1, <1>2, <1>4 DEF Root

\* The invariant holds at first, and no name has been resolved.
LEMMA InitInv == Init => IInv /\ binding = <<>>
  <1> SUFFICES ASSUME Init PROVE IInv /\ binding = <<>>
    OBVIOUS
  <1>1. /\ programList \in Seq(File) /\ deps \in [File -> Seq(File)] /\ InputsOK
        /\ programList # <<>>
    BY InitInputs
  <1>2. /\ cur = 1 /\ varDecls = <<>> /\ funcDecls = <<>> /\ symTabMap = <<>> /\ frames = <<>>
        /\ funcDefMap = [f \in File |-> NoNames(FuncName)]
        /\ globalVariableMap = [f \in File |-> NoNames(VarName)]
        /\ isFuncScope = FALSE /\ stmtDone = FALSE /\ nodeStack = <<"program">> /\ scopes = 0
        /\ binding = <<>> /\ status = "running"
    BY DEF Init
  <1>3. /\ \A p \in File : \A x \in VarName : globalVariableMap[p][x] = None
        /\ \A p \in File : \A f \in FuncName : funcDefMap[p][f] = None
        /\ DOMAIN varDecls = {} /\ DOMAIN funcDecls = {}
    BY <1>2 DEF NoNames
  <1>4. TypeOK
    <2>1. cur \in 1 .. Len(programList) + 1  BY <1>1, <1>2
    <2>2. /\ varDecls \in Seq(VarDecl) /\ funcDecls \in Seq(FuncDecl) /\ symTabMap \in Seq(Table)
          /\ frames \in Seq(Frame)
      BY <1>2
    <2>3. /\ funcDefMap \in [File -> [FuncName -> {None} \cup DOMAIN funcDecls]]
          /\ globalVariableMap \in [File -> Table]
      BY <1>2 DEF Table, NoNames
    <2>4. nodeStack \in Seq(NodeClass) /\ nodeStack # <<>>
      <3>1. "program" \in NodeClass  BY DEF NodeClass
      <3> HIDE DEF NodeClass
      <3>2. QED  BY <1>2, <3>1
    <2>5. QED  BY <1>1, <1>2, <2>1, <2>2, <2>3, <2>4 DEF TypeOK
  <1>5. FramesOK
    BY <1>2 DEF FramesOK, Shape, FlagsOK, AtHeader, HeaderOf
  <1>6. OpenScopes = <<>> /\ NodesIn(frames) = <<>>  BY <1>2, NoFrames DEF OpenScopes
  <1>7. ScopesOK
    <2>1. TablesOf(<<>>, varDecls) = <<>>  BY DEF TablesOf
    <2>2. Rising(<<>>, scopes)  BY DEF Rising
    <2>3. QED  BY <1>2, <1>3, <1>6, <2>1, <2>2 DEF ScopesOK, NumbersOK, TablesFollow
  <1>8. NodesFollowNesting
    <2>1. Externs = {}  BY <1>3 DEF Externs
    <2>2. Cardinality(Externs) = 0  BY <2>1, FS_EmptySet
    <2>3. nodeStack = Root(0) \o FrameNodes  BY <1>2, <1>6, RootZero DEF FrameNodes
    <2>4. QED  BY <2>2, <2>3 DEF NodesFollowNesting, Root
  <1>9. TablesOK
    <2>1. VarTablesOK  BY <1>3 DEF VarTablesOK
    <2>2. FuncTablesOK  BY <1>3 DEF FuncTablesOK
    <2>3. LaterUnparsed  BY <1>1, <1>3 DEF LaterUnparsed, Unparsed
    <2>4. FunctionsAreFound  BY <1>3 DEF FunctionsAreFound
    <2>5. QED  BY <2>1, <2>2, <2>3, <2>4 DEF TablesOK
  <1>10. NoDuplicateAlongImports  BY <1>3 DEF NoDuplicateAlongImports
  <1>11. QED  BY <1>1, <1>2, <1>4, <1>5, <1>7, <1>8, <1>9, <1>10 DEF IInv

\* The inputs keep their properties, and the flags and the status their types.
LEMMA NextInputs ==
    ASSUME TypeOK, InputsOK, Next
    PROVE  /\ InputsOK' /\ UNCHANGED <<programList, deps>>
           /\ cur' \in 1 .. Len(programList') + 1
           /\ isFuncScope' \in BOOLEAN /\ stmtDone' \in BOOLEAN
           /\ status' \in {"running", "done", "failed"}
  <1>1. programList \in Seq(File) /\ cur \in 1 .. Len(programList) + 1
        /\ isFuncScope \in BOOLEAN /\ stmtDone \in BOOLEAN
        /\ status \in {"running", "done", "failed"}
    BY DEF TypeOK
  <1>2. FinishProgram \/ Steady  BY SteadySteps
  <1>3. InputsOK' /\ UNCHANGED <<programList, deps>> /\ cur' \in 1 .. Len(programList') + 1
    <2>1. CASE Steady
      <3>1. UNCHANGED <<programList, deps, cur>> /\ cur <= Len(programList)
        BY <2>1 DEF Steady, Running
      <3>2. ~(cur' > Len(programList'))  BY <1>1, <3>1
      <3>3. QED  BY <1>1, <3>1, <3>2 DEF InputsOK, Acyclic
    <2>2. CASE FinishProgram
      <3>1. /\ UNCHANGED <<programList, deps>> /\ cur' = cur + 1 /\ cur <= Len(programList)
            /\ status' = (IF cur = Len(programList) THEN "done" ELSE status) /\ frames' = <<>>
        BY <2>2 DEF FinishProgram, TopLevel, Running, inputs
      <3>2. cur' > Len(programList') => cur = Len(programList)  BY <1>1, <3>1
      <3>3. cur' \in 1 .. Len(programList') + 1  BY <1>1, <3>1
      <3>4. QED  BY <3>1, <3>2, <3>3 DEF InputsOK, Acyclic
    <2>3. QED  BY <1>2, <2>1, <2>2
  <1>4. status' \in {"running", "done", "failed"}
    BY <1>1 DEF Next, GlobalVar, FinishProgram, BeginFuncExtern, BeginFuncDef, BeginFunc, Param,
                FinishFuncExtern, BeginBody, Redefined, EnterBlock, LeaveBlock, LeaveBody,
                CloseScope, LocalVar, DeclarationAsBody, DeclareVar, EnterLoop, EnterIf,
                EnterControl, SimpleStmt, SameNames, FinishLoop, FinishIf, LeaveControl,
                EnterElse, SyntaxError, IdRef, Call, Resolve
  <1>5. isFuncScope' = isFuncScope \/ isFuncScope' = TRUE \/ isFuncScope' = FALSE
    BY DEF Next, GlobalVar, FinishProgram, BeginFuncExtern, BeginFuncDef, BeginFunc, Param,
           FinishFuncExtern, BeginBody, OpenBlock, Redefined, EnterBlock, LeaveBlock, LeaveBody,
           CloseScope, LocalVar, DeclarationAsBody, DeclareVar, EnterLoop, EnterIf,
           EnterControl, SimpleStmt, SameNames, FinishLoop, FinishIf, LeaveControl,
           EnterElse, SyntaxError, IdRef, Call, Resolve, nesting
  <1>6. \/ stmtDone' = stmtDone \/ stmtDone' = TRUE \/ stmtDone' = FALSE
        \/ stmtDone' = Returns(Front(frames))
    BY DEF Next, GlobalVar, FinishProgram, BeginFuncExtern, BeginFuncDef, BeginFunc, Param,
           FinishFuncExtern, BeginBody, OpenBlock, Redefined, EnterBlock, LeaveBlock, LeaveBody,
           CloseScope, LocalVar, DeclarationAsBody, DeclareVar, EnterLoop, EnterIf,
           EnterControl, SimpleStmt, SameNames, FinishLoop, FinishIf, LeaveControl,
           EnterElse, SyntaxError, IdRef, Call, Resolve, nesting
  <1>7. Returns(Front(frames)) \in BOOLEAN  BY DEF Returns
  <1>8. isFuncScope' \in BOOLEAN  BY <1>1, <1>5
  <1>9. stmtDone' \in BOOLEAN  BY <1>1, <1>6, <1>7
  <1>10. QED  BY <1>3, <1>4, <1>8, <1>9

\* Every step keeps the invariant, and resolves names as the properties say.
LEMMA NextInv ==
    ASSUME IInv, Next
    PROVE  IInv' /\ BindingIsLexical' /\ CallFindsFunction'
  <1>1. /\ TypeOK /\ InputsOK /\ FramesOK /\ ScopesOK
        /\ NodesFollowNesting /\ VarTablesOK /\ FuncTablesOK /\ LaterUnparsed
        /\ FunctionsAreFound /\ NoDuplicateAlongImports
    BY DEF IInv, TablesOK
  <1>2. FramesOK' /\ frames' \in Seq(Frame)  BY <1>1, NextFrames
  <1>3. NodesFollowNesting' /\ nodeStack' \in Seq(NodeClass) /\ nodeStack' # <<>>
    BY <1>1, NextNodes
  <1>4. ScopesOK' /\ scopes' \in Nat /\ varDecls' \in Seq(VarDecl)
    BY <1>1, <1>3, NextScopes
  <1>5. VarStep \/ FuncStep \/ HeaderStep \/ OtherStep  BY <1>1, <1>3, TableSteps
  <1>6. /\ funcDecls' \in Seq(FuncDecl)
        /\ funcDefMap' \in TablesWith(FuncName, {None} \cup DOMAIN funcDecls')
        /\ globalVariableMap' \in TablesWith(VarName, {None} \cup DOMAIN varDecls')
    BY <1>1, <1>5, NextTablesTyped
  <1>7. NoDuplicateAlongImports'  BY <1>1, <1>5, NextNoDup
  <1>8. VarTablesOK'  BY <1>1, <1>5, NextVarTables
  <1>9. LaterUnparsed'  BY <1>1, <1>5, NextUnparsed
  <1>10. FuncTablesOK' /\ FunctionsAreFound'  BY <1>1, <1>5, NextFuncTables
  <1>11. BindingIsLexical' /\ CallFindsFunction' /\ binding' \in Bindings'
    BY <1>1, NextBinding
  <1>12. /\ InputsOK' /\ UNCHANGED <<programList, deps>>
         /\ cur' \in 1 .. Len(programList') + 1
         /\ isFuncScope' \in BOOLEAN /\ stmtDone' \in BOOLEAN
         /\ status' \in {"running", "done", "failed"}
    BY <1>1, NextInputs
  <1>13. symTabMap' \in Seq(Table')
    <2>1. ScopesIn(frames') \in Seq(Nat)  BY <1>2, ScopesAreNumbers
    <2>2. symTabMap' = TablesOf(ScopesIn(frames'), varDecls')
      BY <1>4 DEF ScopesOK, TablesFollow, OpenScopes
    <2>3. QED  BY <1>4, <2>1, <2>2, TablesFacts DEF Table
  <1>14. TypeOK'
    <2>1. programList' \in Seq(File) /\ deps' \in [File -> Seq(File)]
      BY <1>1, <1>12 DEF TypeOK
    <2>2. /\ funcDefMap' \in [File -> [FuncName -> {None} \cup DOMAIN funcDecls']]
          /\ globalVariableMap' \in [File -> Table']
      BY <1>6 DEF TablesWith, Table
    <2>3. binding' \in {<<>>} \cup ({"variable"} \X VarName \X DOMAIN varDecls')
                              \cup ({"function"} \X FuncName \X DOMAIN funcDecls')
      BY <1>11 DEF Bindings
    <2>4. QED  BY <1>2, <1>3, <1>4, <1>6, <1>12, <1>13, <2>1, <2>2, <2>3 DEF TypeOK
  <1>15. QED
    BY <1>2, <1>3, <1>4, <1>7, <1>8, <1>9, <1>10, <1>11, <1>12, <1>14 DEF IInv, TablesOK

\* A step that changes nothing changes no property.
LEMMA StutterInv ==
    ASSUME UNCHANGED vars
    PROVE  /\ IInv => IInv'
           /\ BindingIsLexical => BindingIsLexical'
           /\ CallFindsFunction => CallFindsFunction'
  <1>1. UNCHANGED <<programList, deps, cur, varDecls, funcDecls, funcDefMap, globalVariableMap,
                    symTabMap, isFuncScope, nodeStack, frames, stmtDone, scopes, binding, status>>
    BY DEF vars, inputs, tables, nesting
  <1>2. OpenScopes' = OpenScopes /\ ProgAst' = ProgAst /\ AtHeader' = AtHeader
    BY <1>1 DEF OpenScopes, ProgAst, AtHeader
  <1>3. (\A p : Visible(p)' = Visible(p)) /\ (\A p, q : ParsedBefore(p, q)' <=> ParsedBefore(p, q))
    BY <1>1, InputsStay
  <1>4. TypeOK => TypeOK'  BY <1>1 DEF TypeOK, Table
  <1>5. InputsOK => InputsOK'  BY <1>1 DEF InputsOK, Acyclic
  <1>6. FramesOK => FramesOK'  BY <1>1, <1>2 DEF FramesOK, FlagsOK
  <1>7. ScopesOK => ScopesOK'  BY <1>1, <1>2 DEF ScopesOK, NumbersOK, TablesFollow
  <1>8. NodesFollowNesting => NodesFollowNesting'
    <2>1. Externs' = Externs  BY <1>1, <1>2 DEF Externs
    <2>2. QED  BY <1>1, <2>1 DEF NodesFollowNesting, FrameNodes
  <1>9. VarTablesOK => VarTablesOK'  BY <1>1 DEF VarTablesOK
  <1>10. FuncTablesOK => FuncTablesOK'  BY <1>1 DEF FuncTablesOK, Functions
  <1>11. LaterUnparsed => LaterUnparsed'  BY <1>1 DEF LaterUnparsed, Unparsed
  <1>12. FunctionsAreFound => FunctionsAreFound'  BY <1>1, <1>2, <1>3 DEF FunctionsAreFound
  <1>13. NoDuplicateAlongImports => NoDuplicateAlongImports'
    BY <1>1, <1>3 DEF NoDuplicateAlongImports
  <1>14. BindingIsLexical => BindingIsLexical'
    BY <1>1, <1>2, <1>3 DEF BindingIsLexical, Declared
  <1>15. CallFindsFunction => CallFindsFunction'
    BY <1>1, <1>2, <1>3 DEF CallFindsFunction, Functions
  <1>16. QED
    BY <1>4, <1>5, <1>6, <1>7, <1>8, <1>9, <1>10, <1>11, <1>12, <1>13, <1>14, <1>15
       DEF IInv, TablesOK

\* ... and what follows from it for a name that has just been resolved.
Inv == IInv /\ BindingIsLexical /\ CallFindsFunction

\* All of it holds in every state.
THEOREM Invariant == Spec => []Inv
  <1>1. Init => Inv
    BY InitInv DEF Inv, BindingIsLexical, CallFindsFunction
  <1>2. Inv /\ [Next]_vars => Inv'
    <2> SUFFICES ASSUME Inv, [Next]_vars PROVE Inv'
      OBVIOUS
    <2>1. CASE Next  BY <2>1, NextInv DEF Inv
    <2>2. CASE UNCHANGED vars  BY <2>2, StutterInv DEF Inv
    <2>3. QED  BY <2>1, <2>2
  <1>3. QED  BY <1>1, <1>2, PTL DEF Spec

\* Every variable of the parser keeps its type.
THEOREM TypeCorrect == Spec => []TypeOK
  <1>1. Inv => TypeOK  BY DEF Inv, IInv
  <1>2. QED  BY <1>1, Invariant, PTL

\* The tables are those of the scopes around the current token.
THEOREM TablesFollowScopes == Spec => []ScopesFollowBlocks
  <1>1. Inv => ScopesFollowBlocks  BY FollowMeans DEF Inv, IInv, ScopesOK
  <1>2. QED  BY <1>1, Invariant, PTL

\* The stack of nodes is the constructs under way.
THEOREM ParentsAreRight == Spec => []NodesFollowNesting
  <1>1. Inv => NodesFollowNesting  BY DEF Inv, IInv
  <1>2. QED  BY <1>1, Invariant, PTL

\* A variable reference means the innermost declaration.
THEOREM NamesAreLexical == Spec => []BindingIsLexical
  <1>1. Inv => BindingIsLexical  BY DEF Inv
  <1>2. QED  BY <1>1, Invariant, PTL

\* A call means the first declaration of the function that is in sight.
THEOREM CallsAreResolved == Spec => []CallFindsFunction
  <1>1. Inv => CallFindsFunction  BY DEF Inv
  <1>2. QED  BY <1>1, Invariant, PTL

\* Programs that see each other share no name.
THEOREM NamesStayApart == Spec => []NoDuplicateAlongImports
  <1>1. Inv => NoDuplicateAlongImports  BY DEF Inv, IInv
  <1>2. QED  BY <1>1, Invariant, PTL

-----------------------------------------------------------------------------
(* Texts: tokens, and where they stand.                                     *)

Words == Seq(Token)

\* the token behind a position
TokenAt(s, i) == IF i < Len(s) THEN s[i + 1] ELSE "eof"

\* s has the tokens of u between two positions
Spans(s, u, i, j) ==
    /\ i \in Nat /\ j = i + Len(u) /\ j <= Len(s)
    /\ \A k \in 1 .. Len(u) : s[i + k] = u[k]

\* Two texts one behind the other.
LEMMA SpansBoth ==
    ASSUME NEW s \in Words, NEW u \in Words, NEW v \in Words, NEW i, NEW j,
           Spans(s, u \o v, i, j)
    PROVE  Spans(s, u, i, i + Len(u)) /\ Spans(s, v, i + Len(u), j)
  <1>1. /\ i \in Nat /\ Len(u) \in Nat /\ Len(v) \in Nat /\ Len(s) \in Nat
        /\ Len(u \o v) = Len(u) + Len(v)
        /\ \A k \in 1 .. Len(u) : (u \o v)[k] = u[k]
        /\ \A k \in 1 .. Len(v) : (u \o v)[Len(u) + k] = v[k]
    BY DEF Spans, Words
  <1> DEFINE uv == u \o v
  <1>2. /\ j = i + Len(u) + Len(v) /\ j <= Len(s)
        /\ \A k \in 1 .. Len(u) + Len(v) : s[i + k] = uv[k]
    BY <1>1 DEF Spans
  <1> HIDE DEF uv
  <1>3. \A k \in 1 .. Len(u) : s[i + k] = u[k]
    <2>1. \A k \in 1 .. Len(u) : k \in 1 .. Len(u) + Len(v)  BY <1>1
    <2>2. QED  BY <1>1, <1>2, <2>1 DEF uv
  <1>4. \A k \in 1 .. Len(v) : s[i + Len(u) + k] = v[k]
    <2>1. \A k \in 1 .. Len(v) :
              Len(u) + k \in 1 .. Len(u) + Len(v) /\ i + (Len(u) + k) = i + Len(u) + k
      BY <1>1
    <2>2. QED  BY <1>1, <1>2, <2>1 DEF uv
  <1>5. i + Len(u) <= Len(s) /\ i + Len(u) \in Nat  BY <1>1, <1>2
  <1>6. QED  BY <1>1, <1>2, <1>3, <1>4, <1>5 DEF Spans

\* One token.
LEMMA SpansOne ==
    ASSUME NEW s \in Words, NEW x, NEW i, NEW j, Spans(s, <<x>>, i, j)
    PROVE  i \in Nat /\ j = i + 1 /\ TokenAt(s, i) = x
  <1>1. Len(<<x>>) = 1 /\ <<x>>[1] = x  OBVIOUS
  <1>2. i \in Nat /\ j = i + 1 /\ j <= Len(s) /\ s[i + 1] = x
    <2>1. 1 \in 1 .. Len(<<x>>)  BY <1>1
    <2>2. QED  BY <1>1, <2>1 DEF Spans
  <1>3. i < Len(s)  BY <1>2 DEF Words
  <1>4. QED  BY <1>2, <1>3 DEF TokenAt

-----------------------------------------------------------------------------
(* Priorities.                                                              *)

\* A binary operator is one of the level of its priority, and of no level below.
LEMMA PriorityFacts ==
    ASSUME NEW op \in BinOp
    PROVE  /\ Priority(op) \in Binary /\ op \in OpSet[Priority(op)]
           /\ \A level \in Binary : op \in OpSet[level] => Priority(op) <= level
  <1>1. CASE op \in {"*", "/"}
    <2>1. Priority(op) = 2  BY <1>1 DEF Priority
    <2>2. QED  BY <1>1, <2>1 DEF Binary, OpSet
  <1>2. CASE op \in {"+", "-"}
    <2>1. Priority(op) = 3  BY <1>2 DEF Priority
    <2>2. op \notin OpSet[2]  BY <1>2 DEF Binary, OpSet
    <2>3. QED  BY <1>2, <2>1, <2>2 DEF Binary, OpSet
  <1>3. CASE op \in {"<<", "<<<", ">>", ">>>"}
    <2>1. Priority(op) = 4  BY <1>3 DEF Priority
    <2>2. op \notin OpSet[2] /\ op \notin OpSet[3]  BY <1>3 DEF Binary, OpSet
    <2>3. QED  BY <1>3, <2>1, <2>2 DEF Binary, OpSet
  <1>4. CASE op \in {"<", "<=", ">", ">=", "==", "!="}
    <2>1. Priority(op) = 5  BY <1>4 DEF Priority
    <2>2. op \notin OpSet[2] /\ op \notin OpSet[3] /\ op \notin OpSet[4]
      BY <1>4 DEF Binary, OpSet
    <2>3. QED  BY <1>4, <2>1, <2>2 DEF Binary, OpSet
  <1>5. CASE op \in {"&", "|", "^"}
    <2>1. Priority(op) = 6  BY <1>5 DEF Priority
    <2>2. op \notin OpSet[2] /\ op \notin OpSet[3] /\ op \notin OpSet[4] /\ op \notin OpSet[5]
      BY <1>5 DEF Binary, OpSet
    <2>3. QED  BY <1>5, <2>1, <2>2 DEF Binary, OpSet
  <1>6. CASE op = "||"
    <2>1. Priority(op) = 7  BY <1>6 DEF Priority
    <2>2. /\ op \notin OpSet[2] /\ op \notin OpSet[3] /\ op \notin OpSet[4]
          /\ op \notin OpSet[5] /\ op \notin OpSet[6]
      BY <1>6 DEF Binary, OpSet
    <2>3. QED  BY <1>6, <2>1, <2>2 DEF Binary, OpSet
  <1>7. QED  BY <1>1, <1>2, <1>3, <1>4, <1>5, <1>6 DEF BinOp


-----------------------------------------------------------------------------
(* One step of the parse, as a function of the tokens and the configuration:  *)
(* where it stands, the functions under way and the value returned.  f is the *)
(* top function, b those below it, x the next token and e the position behind *)
(* it.                                                                        *)

CallStep(x, p, e, b, f) ==
    IF f.level = Brackets
    THEN IF x = ")" THEN <<e, b, <<f.op>> \o f.parts>>
                    ELSE <<p, Append(b, f) \o Calls(Assignment), <<>>>>
    ELSE IF x \in UnaryOpSet THEN <<e, Append(b, [f EXCEPT !.op = x]) \o Calls(Unary), <<>>>>
    ELSE IF x \in {"a", "1"} THEN <<e, b, <<x>>>>
    ELSE IF x = "f(" THEN <<e, Append(b, Bracket("f(")), <<>>>>
    ELSE <<e, Append(b, Bracket(x)) \o Calls(Assignment), <<>>>>

LhsOf(f, v) == IF f.op = "none" THEN v ELSE <<f.op, f.parts[1], v>>

BracketStep(x, p, e, b, f, v) ==
    IF f.op = "f(" /\ x = ","
    THEN <<e, Append(b, [f EXCEPT !.parts = Append(@, v)]), <<>>>>
    ELSE IF f.op = "a[" /\ x = "]["
    THEN <<e, Append(b, [f EXCEPT !.parts = Append(@, v)]) \o Calls(Assignment), <<>>>>
    ELSE <<e, b, IF f.op = "(" THEN v ELSE <<f.op>> \o Append(f.parts, v)>>

AssignStep(x, p, e, b, f, v) ==
    IF f.op = "none" /\ x = "="
    THEN <<e, Append(b, [f EXCEPT !.op = "=", !.parts = <<v>>]) \o Calls(Logic), <<>>>>
    ELSE <<p, b, LhsOf(f, v)>>

OperandStep(x, p, e, b, f, v) ==
    IF x \in OpSet[f.level]
    THEN <<e, Append(b, [f EXCEPT !.op = x, !.parts = <<LhsOf(f, v)>>]) \o Calls(f.level - 1),
           <<>>>>
    ELSE <<p, b, LhsOf(f, v)>>

ReturnStep(x, p, e, b, f, v) ==
    IF f.level = Brackets THEN BracketStep(x, p, e, b, f, v)
    ELSE IF f.level = Unary THEN <<p, b, <<f.op, v>>>>
    ELSE IF f.level = Assignment THEN AssignStep(x, p, e, b, f, v)
    ELSE OperandStep(x, p, e, b, f, v)

\* an error: the parse stays where it is
Stuck(x, k, v) ==
    \/ k = <<>>
    \/ v = <<>> /\ k[Len(k)].level = Unary
       /\ x \notin UnaryOpSet \cup {"a", "1", "(", "f(", "a["}
    \/ v # <<>> /\ k[Len(k)].level = Assignment /\ k[Len(k)].op = "none" /\ x = "=" /\ ~IsTarget(v)

After(s, p, k, v) ==
    LET x == TokenAt(s, p)
        e == IF p < Len(s) THEN p + 1 ELSE p
        b == SubSeq(k, 1, Len(k) - 1)
        f == k[Len(k)]
    IN  IF Stuck(x, k, v) THEN <<p, k, v>>
        ELSE IF v = <<>> THEN CallStep(x, p, e, b, f) ELSE ReturnStep(x, p, e, b, f, v)

\* A set of configurations that the steps do not leave, and that one configuration
\* leads to another: the second is in every such set with the first.
Kept(s, S) == \A c \in S : After(s, c[1], c[2], c[3]) \in S
Leads(s, c, d) == \A S : c \in S /\ Kept(s, S) => d \in S

\* A configuration leads to itself, ...
LEMMA LeadsNowhere ==
    ASSUME NEW s, NEW c
    PROVE  Leads(s, c, c)
  BY DEF Leads

\* ... and to all that those lead to that it leads to.
LEMMA LeadsOn ==
    ASSUME NEW s, NEW c, NEW d, NEW e, Leads(s, c, d), Leads(s, d, e)
    PROVE  Leads(s, c, e)
  BY DEF Leads

\* A step, and then the way behind it.
LEMMA LeadsStep ==
    ASSUME NEW s, NEW p, NEW k, NEW v, NEW e, Leads(s, After(s, p, k, v), e)
    PROVE  Leads(s, <<p, k, v>>, e)
  <1> DEFINE c == <<p, k, v>>
  <1>1. c[1] = p /\ c[2] = k /\ c[3] = v  OBVIOUS
  <1> HIDE DEF c
  <1>2. ASSUME NEW S, c \in S, Kept(s, S) PROVE e \in S
    <2>1. After(s, p, k, v) \in S  BY <1>1, <1>2 DEF Kept
    <2>2. QED  BY <1>2, <2>1 DEF Leads
  <1>3. Leads(s, c, e)  BY <1>2 DEF Leads
  <1>4. QED  BY <1>3 DEF c

\* There is only one step: a configuration that leads to another does so by it.
LEMMA LeadsByStep ==
    ASSUME NEW s, NEW p, NEW k, NEW v, NEW e, Leads(s, <<p, k, v>>, e), <<p, k, v>> # e
    PROVE  Leads(s, After(s, p, k, v), e)
  <1> DEFINE c == <<p, k, v>>
  <1>1. c[1] = p /\ c[2] = k /\ c[3] = v /\ Leads(s, c, e) /\ c # e  OBVIOUS
  <1> HIDE DEF c
  <1>2. ASSUME NEW S, After(s, p, k, v) \in S, Kept(s, S) PROVE e \in S
    <2>1. Kept(s, S \cup {c})  BY <1>1, <1>2 DEF Kept
    <2>2. c \in S \cup {c}  OBVIOUS
    <2>3. e \in S \cup {c}  BY <1>1, <2>1, <2>2 DEF Leads
    <2>4. QED  BY <1>1, <2>3
  <1>3. QED  BY <1>2 DEF Leads

\* Where there is no step, there is nothing to lead to.
LEMMA LeadsNoFurther ==
    ASSUME NEW s, NEW p, NEW k, NEW v, NEW e, Leads(s, <<p, k, v>>, e),
           After(s, p, k, v) = <<p, k, v>>
    PROVE  e = <<p, k, v>>
  <1> DEFINE c == <<p, k, v>>
  <1>1. c[1] = p /\ c[2] = k /\ c[3] = v /\ Leads(s, c, e) /\ After(s, p, k, v) = c
    OBVIOUS
  <1> HIDE DEF c
  <1>2. Kept(s, {c})  BY <1>1 DEF Kept
  <1>3. e \in {c}  BY <1>1, <1>2 DEF Leads
  <1>4. QED  BY <1>3 DEF c


\* The actions take these steps.
Eaten == IF pos < Len(source.toks) THEN pos + 1 ELSE pos
Moves ==
    /\ outcome = "running" /\ outcome' = outcome /\ source' = source
    /\ stack = <<>> => value = <<>>
    /\ <<pos', stack', value'>> = After(source.toks, pos, stack, value)

\* An action that fails is where no step is.
Fails ==
    /\ stack = <<>> => value = <<>>
    /\ After(source.toks, pos, stack, value) = <<pos, stack, value>>

\* The step, in the terms of the actions.
LEMMA AfterMeans ==
    ASSUME ~Stuck(NextToken, stack, value)
    PROVE  After(source.toks, pos, stack, value) =
               IF value = <<>> THEN CallStep(NextToken, pos, Eaten, Below, Top)
                               ELSE ReturnStep(NextToken, pos, Eaten, Below, Top, value)
  BY DEF After, TokenAt, NextToken, Below, Top, Eaten

\* The actions of a function that has just been called take its step, ...
LEMMA CallsMove ==
    ASSUME stack # <<>>,
           UnaryOp \/ Leaf \/ Open \/ OpenCall \/ Argument \/ EndOfArguments
    PROVE  Moves
  <1> DEFINE x == NextToken
             d == CallStep(NextToken, pos, Eaten, Below, Top)
  <1>1. SUFFICES /\ outcome = "running" /\ outcome' = outcome /\ source' = source
                 /\ value = <<>> /\ ~Stuck(NextToken, stack, value)
                 /\ <<pos', stack', value'>> = d
    BY AfterMeans DEF Moves
  <1>2. value = <<>> /\ (Top.level = Unary => x \in UnaryOpSet \cup {"a", "1", "(", "f(", "a["})
          => ~Stuck(NextToken, stack, value)
    BY DEF Stuck, Top
  <1> USE <1>2 DEF Calling, Eat, Eaten, NoEat, Go, GoOn, Return, Unary, Brackets
  <1>3. CASE UnaryOp
    <2>1. Top.level # Brackets /\ x \in UnaryOpSet  BY <1>3 DEF UnaryOp
    <2> DEFINE f == [Top EXCEPT !.op = NextToken]
    <2>2. d = <<Eaten, Append(Below, f) \o Calls(Unary), <<>>>>
      BY <2>1 DEF CallStep
    <2>3. stack' = Append(Below, f) \o Calls(Unary)  BY <1>3 DEF UnaryOp
    <2> HIDE DEF f, d
    <2>4. QED  BY <1>3, <2>2, <2>3 DEF UnaryOp
  <1>4. CASE Leaf
    <2>1. x \notin UnaryOpSet  BY <1>4 DEF Leaf, UnaryOpSet
    <2>2. QED  BY <1>4, <2>1 DEF Leaf, CallStep
  <1>5. CASE Open
    <2>1. x \notin UnaryOpSet /\ x \notin {"a", "1"} /\ x # "f("
      BY <1>5 DEF Open, UnaryOpSet
    <2>2. QED  BY <1>5, <2>1 DEF Open, CallStep
  <1>6. CASE OpenCall
    <2>1. x \notin UnaryOpSet /\ x \notin {"a", "1"}
      BY <1>6 DEF OpenCall, UnaryOpSet
    <2>2. QED  BY <1>6, <2>1 DEF OpenCall, CallStep
  <1>7. CASE Argument  BY <1>7 DEF Argument, CallStep
  <1>8. CASE EndOfArguments  BY <1>8 DEF EndOfArguments, CallStep
  <1>9. QED  BY <1>3, <1>4, <1>5, <1>6, <1>7, <1>8

\* ... and so do those of a function to which another has returned.
LEMMA ReturnsMove ==
    ASSUME FinishUnary \/ NextArgument \/ NextIndex \/ Close \/ RightOperand
             \/ NoMoreOperands \/ AssignTo \/ FinishAssign
    PROVE  Moves
  <1> DEFINE x == NextToken
             d == ReturnStep(NextToken, pos, Eaten, Below, Top, value)
  <1>1. SUFFICES /\ outcome = "running" /\ outcome' = outcome /\ source' = source
                 /\ stack # <<>> /\ value # <<>> /\ ~Stuck(NextToken, stack, value)
                 /\ <<pos', stack', value'>> = d
    BY AfterMeans DEF Moves
  <1>2. stack # <<>> /\ value # <<>>
            /\ (Top.level = Assignment /\ Top.op = "none" /\ x = "=" => IsTarget(value))
          => ~Stuck(NextToken, stack, value)
    BY DEF Stuck, Top
  <1>3. Lhs = LhsOf(Top, value)  BY DEF Lhs, LhsOf
  <1> HIDE DEF x
  <1>4. x = NextToken  BY DEF x
  <1> USE DEF ReturnStep, Returning, Eat, Eaten, NoEat, Go, GoOn, Return
  <1>5. CASE FinishUnary
    <2>1. Top.level = Unary /\ Top.level # Brackets /\ Top.level # Assignment
      BY <1>5 DEF FinishUnary, Unary, Brackets, Assignment
    <2>2. QED  BY <1>2, <1>5, <2>1 DEF FinishUnary
  <1>6. CASE NextArgument \/ NextIndex \/ Close
    <2>0. Returning({Brackets})  BY <1>6 DEF NextArgument, NextIndex, Close
    <2>1. Top.level = Brackets /\ Top.level # Assignment
      BY <2>0 DEF Brackets, Assignment
    <2>2. /\ outcome = "running" /\ outcome' = outcome /\ source' = source
          /\ stack # <<>> /\ value # <<>> /\ d = BracketStep(x, pos, Eaten, Below, Top, value)
      BY <1>4, <1>6, <2>1 DEF NextArgument, NextIndex, Close
    <2>3. <<pos', stack', value'>> = BracketStep(x, pos, Eaten, Below, Top, value)
      BY <1>4, <1>6 DEF NextArgument, NextIndex, Close, BracketStep
    <2>4. QED  BY <1>2, <2>1, <2>2, <2>3
  <1>7. CASE RightOperand \/ NoMoreOperands
    <2>1. PICK level \in Binary : Operand(level, level - 1) \/ (NoMoreOperands /\ Top.level = level)
      BY <1>7 DEF RightOperand, NoMoreOperands, Binary
    <2>2. Top.level = level /\ level # Unary /\ level # Brackets /\ level # Assignment
      BY <2>1 DEF Binary, Operand, Unary, Brackets, Assignment
    <2>3. /\ outcome = "running" /\ outcome' = outcome /\ source' = source
          /\ stack # <<>> /\ value # <<>> /\ d = OperandStep(x, pos, Eaten, Below, Top, value)
      BY <1>4, <2>1, <2>2 DEF Operand, NoMoreOperands
    <2>4. <<pos', stack', value'>> = OperandStep(x, pos, Eaten, Below, Top, value)
      <3>1. CASE Operand(level, level - 1)
        BY <1>3, <1>4, <2>2, <3>1 DEF Operand, OperandStep
      <3>2. CASE NoMoreOperands
        BY <1>3, <1>4, <3>2 DEF NoMoreOperands, OperandStep
      <3>3. QED  BY <2>1, <3>1, <3>2
    <2>5. QED  BY <1>2, <2>2, <2>3, <2>4
  <1>8. CASE AssignTo \/ FinishAssign
    <2>0. Returning({Assignment})  BY <1>8 DEF AssignTo, FinishAssign
    <2>1. Top.level = Assignment /\ Top.level # Unary /\ Top.level # Brackets
      BY <2>0 DEF Unary, Brackets, Assignment
    <2>2. /\ outcome = "running" /\ outcome' = outcome /\ source' = source
          /\ stack # <<>> /\ value # <<>> /\ d = AssignStep(x, pos, Eaten, Below, Top, value)
      BY <1>4, <1>8, <2>1 DEF AssignTo, FinishAssign
    <2>3. <<pos', stack', value'>> = AssignStep(x, pos, Eaten, Below, Top, value)
      BY <1>3, <1>4, <1>8 DEF AssignTo, FinishAssign, AssignStep
    <2>4. Top.op = "none" /\ x = "=" => IsTarget(value)
      BY <1>4, <1>8 DEF AssignTo, FinishAssign
    <2>5. QED  BY <1>2, <2>2, <2>3, <2>4
  <1>9. QED  BY <1>5, <1>6, <1>7, <1>8

\* The actions that fail do so where there is no step.
LEMMA ErrorsFail ==
    ASSUME NoOperand \/ NotATarget, stack # <<>>
    PROVE  Fails
  <1>1. SUFFICES Stuck(NextToken, stack, value)
    BY DEF Fails, After, NextToken, TokenAt
  <1>2. CASE NoOperand  BY <1>2 DEF NoOperand, Stuck, Calling, Top
  <1>3. CASE NotATarget  BY <1>3 DEF NotATarget, Stuck, Returning, Top
  <1>4. QED  BY <1>2, <1>3


-----------------------------------------------------------------------------
(* Call stacks.                                                             *)

Frames == [level : 0 .. 8, op : Token \cup {"none"}, parts : Seq(Trees)]
Stacks == Seq(Frames)

\* A function on top of the others.
LEMMA TopFacts ==
    ASSUME NEW k \in Stacks, NEW f \in Frames
    PROVE  /\ Append(k, f) \in Stacks /\ Append(k, f) # <<>>
           /\ Append(k, f)[Len(Append(k, f))] = f
           /\ SubSeq(Append(k, f), 1, Len(Append(k, f)) - 1) = k
  <1> DEFINE kf == Append(k, f)
  <1>1. kf \in Stacks /\ Len(k) \in Nat /\ Len(kf) = Len(k) + 1 /\ kf[Len(k) + 1] = f
        /\ \A i \in 1 .. Len(k) : kf[i] = k[i]
    BY DEF Stacks
  <1> HIDE DEF kf
  <1>2. kf # <<>>
    <2>1. Len(<<>>) = 0  OBVIOUS
    <2>2. Len(kf) # 0  BY <1>1
    <2>3. QED  BY <2>1, <2>2
  <1>3. SubSeq(kf, 1, Len(kf) - 1) = k
    <2>1. Len(kf) - 1 = Len(k)  BY <1>1
    <2>2. SubSeq(kf, 1, Len(k)) = [i \in 1 .. Len(k) |-> kf[i]]
      BY <1>1 DEF Stacks
    <2>3. k = [i \in 1 .. Len(k) |-> k[i]]  BY DEF Stacks
    <2>4. [i \in 1 .. Len(k) |-> kf[i]] = [i \in 1 .. Len(k) |-> k[i]]  BY <1>1
    <2>5. QED  BY <2>1, <2>2, <2>3, <2>4
  <1>4. QED  BY <1>1, <1>2, <1>3 DEF kf

\* Functions as they are called.
LEMMA FunFacts ==
    ASSUME NEW level \in 0 .. 8, NEW op \in Token \cup {"none"}, NEW parts \in Seq(Trees)
    PROVE  /\ [level |-> level, op |-> op, parts |-> parts] \in Frames
           /\ Fun(level) \in Frames /\ Bracket(op) \in Frames
           /\ \A f \in Frames : /\ [f EXCEPT !.op = op] \in Frames
                                /\ [f EXCEPT !.parts = parts] \in Frames
                                /\ [f EXCEPT !.op = op, !.parts = parts] \in Frames
  <1>1. <<>> \in Seq(Trees)  BY EmptySeq
  <1>0. Brackets \in 0 .. 8  BY DEF Brackets
  <1> DEFINE Ops == Token \cup {"none"}
  <1>2. op \in Ops /\ "none" \in Ops  OBVIOUS
  <1> HIDE DEF Ops
  <1>3. Frames = [level : 0 .. 8, op : Ops, parts : Seq(Trees)]  BY DEF Frames, Ops
  <1>4. [level |-> level, op |-> op, parts |-> parts] \in Frames  BY <1>2, <1>3
  <1>5. Fun(level) \in Frames /\ Bracket(op) \in Frames
    BY <1>0, <1>1, <1>2, <1>3 DEF Fun, Bracket
  <1>6. ASSUME NEW f \in Frames
        PROVE  /\ [f EXCEPT !.op = op] \in Frames
               /\ [f EXCEPT !.parts = parts] \in Frames
               /\ [f EXCEPT !.op = op, !.parts = parts] \in Frames
    BY <1>2, <1>3
  <1>7. QED  BY <1>4, <1>5, <1>6

\* A call of a level is one of the level below on top of its function.
LEMMA CallsAre ==
    ASSUME NEW k \in Stacks, NEW level \in 1 .. 8
    PROVE  /\ level = 1 => k \o Calls(1) = Append(k, Fun(1))
           /\ level > 1 => k \o Calls(level) = Append(k, Fun(level)) \o Calls(level - 1)
  <1>1. ASSUME NEW n \in 1 .. 8 PROVE /\ Calls(n) \in Stacks /\ Len(Calls(n)) = n
                                      /\ \A i \in 1 .. n : Calls(n)[i] = Fun(n + 1 - i)
    <2> DEFINE F(m) == Fun(m)
    <2>1. \A i \in 1 .. n : n + 1 - i \in 0 .. 8  OBVIOUS
    <2>2. \A i \in 1 .. n : F(n + 1 - i) \in Frames
      <3>1. "none" \in Token \cup {"none"} /\ <<>> \in Seq(Trees)  BY EmptySeq
      <3>2. QED  BY <2>1, <3>1, FunFacts
    <2> HIDE DEF F
    <2>3. Calls(n) = [i \in 1 .. n |-> F(n + 1 - i)]  BY DEF Calls, F
    <2>4. [i \in 1 .. n |-> F(n + 1 - i)] \in Stacks
          /\ Len([i \in 1 .. n |-> F(n + 1 - i)]) = n
          /\ \A j \in 1 .. n : [i \in 1 .. n |-> F(n + 1 - i)][j] = F(n + 1 - j)
      BY <2>2 DEF Stacks
    <2>5. QED  BY <2>3, <2>4 DEF F
  <1>2. Fun(level) \in Frames /\ Fun(1) \in Frames
    <2>1. level \in 0 .. 8 /\ 1 \in 0 .. 8 /\ "none" \in Token \cup {"none"}
          /\ <<>> \in Seq(Trees)
      BY EmptySeq
    <2>2. QED  BY <2>1, FunFacts
  <1>3. ASSUME level = 1 PROVE k \o Calls(1) = Append(k, Fun(1))
    <2> DEFINE c == Calls(1)
               f == Fun(1)
    <2>1. c \in Stacks /\ Len(c) = 1 /\ c[1] = f  BY <1>1
    <2> HIDE DEF c, f
    <2>2. c \in Seq(Frames) /\ k \in Seq(Frames) /\ f \in Frames
      BY <1>2, <2>1 DEF f, Stacks
    <2>3. /\ k \o c \in Seq(Frames) /\ Append(k, f) \in Seq(Frames) /\ Len(k) \in Nat
          /\ Len(k \o c) = Len(k) + 1 /\ Len(Append(k, f)) = Len(k) + 1
      <3>1. k \o c \in Seq(Frames) /\ Len(k \o c) = Len(k) + Len(c)
        BY <2>2, ConcatProperties
      <3>2. Append(k, f) \in Seq(Frames) /\ Len(Append(k, f)) = Len(k) + 1 /\ Len(k) \in Nat
        BY <2>2
      <3>3. QED  BY <2>1, <3>1, <3>2
    <2>4. ASSUME NEW i \in 1 .. Len(k) + 1 PROVE (k \o c)[i] = Append(k, f)[i]
      <3>1. CASE i <= Len(k)  BY <2>1, <2>2, <2>3, <3>1
      <3>2. CASE i = Len(k) + 1
        <4>1. (k \o c)[i] = c[1]  BY <2>1, <2>2, <2>3, <3>2, ConcatProperties
        <4>2. QED  BY <2>1, <2>2, <2>3, <3>2, <4>1
      <3>3. QED  BY <2>3, <3>1, <3>2
    <2>5. k \o c = Append(k, f)  BY <2>3, <2>4, SeqEqual
    <2>6. QED  BY <2>5 DEF c, f
  <1>4. ASSUME level > 1
        PROVE  k \o Calls(level) = Append(k, Fun(level)) \o Calls(level - 1)
    <2> DEFINE c == Calls(level)
               d == Calls(level - 1)
               f == Fun(level)
    <2>1. level - 1 \in 1 .. 8 /\ level \in 1 .. 8  BY <1>4
    <2>2. c \in Stacks /\ Len(c) = level /\ c[1] = f
          /\ d \in Stacks /\ Len(d) = level - 1
          /\ \A i \in 1 .. level - 1 : c[i + 1] = d[i]
      <3>1. 1 \in 1 .. level /\ level + 1 - 1 = level  BY <2>1
      <3>2. c[1] = f  BY <1>1, <2>1, <3>1
      <3>3. ASSUME NEW i \in 1 .. level - 1 PROVE c[i + 1] = d[i]
        <4>1. i + 1 \in 1 .. level /\ level + 1 - (i + 1) = (level - 1) + 1 - i  BY <2>1
        <4>2. c[i + 1] = Fun(level + 1 - (i + 1))  BY <1>1, <2>1, <4>1
        <4>3. d[i] = Fun((level - 1) + 1 - i)  BY <1>1, <2>1
        <4>4. QED  BY <4>1, <4>2, <4>3
      <3>4. QED  BY <1>1, <2>1, <3>2, <3>3
    <2>3. f \in Frames  BY <1>2
    <2> HIDE DEF c, d, f
    <2> DEFINE l == k \o c
               r == Append(k, f) \o d
    <2>4. Len(k) \in Nat /\ l \in Stacks /\ r \in Stacks
          /\ Len(l) = Len(k) + level /\ Len(r) = Len(k) + level
      BY <2>1, <2>2, <2>3 DEF Stacks
    <2>5. ASSUME NEW i \in 1 .. Len(k) + level PROVE l[i] = r[i]
      <3>1. CASE i <= Len(k)
        BY <2>2, <2>3, <2>4, <3>1 DEF Stacks
      <3>2. CASE i = Len(k) + 1
        BY <2>1, <2>2, <2>3, <2>4, <3>2 DEF Stacks
      <3>3. CASE i > Len(k) + 1
        <4>1. i - Len(k) - 1 \in 1 .. level - 1 /\ i - Len(k) = (i - Len(k) - 1) + 1
              /\ i - Len(k) \in 1 .. level
          BY <2>1, <2>4, <3>3
        <4>2. l[i] = c[i - Len(k)]  BY <2>1, <2>2, <2>4, <3>3, <4>1 DEF Stacks
        <4>3. r[i] = d[i - Len(k) - 1]  BY <2>1, <2>2, <2>3, <2>4, <3>3, <4>1 DEF Stacks
        <4>4. QED  BY <2>2, <4>1, <4>2, <4>3
      <3>4. QED  BY <2>4, <3>1, <3>2, <3>3
    <2>6. l = r
      <3> HIDE DEF l, r
      <3>1. l = [i \in 1 .. Len(l) |-> l[i]] /\ r = [i \in 1 .. Len(r) |-> r[i]]
        BY <2>4 DEF Stacks
      <3>2. QED  BY <2>4, <2>5, <3>1
    <2>7. QED  BY <2>6 DEF c, d, f
  <1>5. QED  BY <1>3, <1>4


-----------------------------------------------------------------------------
(* The steps of a function that is on top of others.                        *)

Starts == UnaryOpSet \cup {"a", "1", "(", "f(", "a["}
Behind(s, p) == IF p < Len(s) THEN p + 1 ELSE p

\* The end of the file is no token of a text.
LEMMA TokenFacts ==
    ASSUME NEW s, NEW p, TokenAt(s, p) \in Token
    PROVE  Behind(s, p) = p + 1
  <1>1. "eof" \notin Token  BY DEF Token, BinOp, UnaryOpSet
  <1>2. QED  BY <1>1 DEF Behind, TokenAt

\* A function that has just been called leads to all that its step leads to, ...
LEMMA CallLeads ==
    ASSUME NEW s, NEW p, NEW k \in Stacks, NEW f \in Frames, NEW e,
           f.level = Brackets \/ TokenAt(s, p) \in Starts,
           Leads(s, CallStep(TokenAt(s, p), p, Behind(s, p), k, f), e)
    PROVE  Leads(s, <<p, Append(k, f), <<>>>>, e)
  <1> DEFINE kf == Append(k, f)
             x == TokenAt(s, p)
             d == CallStep(x, p, Behind(s, p), k, f)
  <1>1. kf # <<>> /\ kf[Len(kf)] = f /\ SubSeq(kf, 1, Len(kf) - 1) = k  BY TopFacts
  <1> HIDE DEF kf, x, d
  <1>2. ~Stuck(x, kf, <<>>)
    <2>1. Brackets # Unary  BY DEF Brackets, Unary
    <2>2. QED  BY <1>1, <2>1 DEF Stuck, Starts, x
  <1>3. After(s, p, kf, <<>>) = d
    BY <1>1, <1>2 DEF After, x, d, Behind
  <1>4. Leads(s, After(s, p, kf, <<>>), e)  BY <1>3 DEF d, x
  <1>5. Leads(s, <<p, kf, <<>>>>, e)  BY <1>4, LeadsStep
  <1>6. QED  BY <1>5 DEF kf

\* ... and so does one to which another has returned.
LEMMA ReturnLeads ==
    ASSUME NEW s, NEW p, NEW k \in Stacks, NEW f \in Frames, NEW v, NEW e, v # <<>>,
           f.level = Assignment /\ f.op = "none" /\ TokenAt(s, p) = "=" => IsTarget(v),
           Leads(s, ReturnStep(TokenAt(s, p), p, Behind(s, p), k, f, v), e)
    PROVE  Leads(s, <<p, Append(k, f), v>>, e)
  <1> DEFINE kf == Append(k, f)
             x == TokenAt(s, p)
             d == ReturnStep(x, p, Behind(s, p), k, f, v)
  <1>1. kf # <<>> /\ kf[Len(kf)] = f /\ SubSeq(kf, 1, Len(kf) - 1) = k  BY TopFacts
  <1> HIDE DEF kf, x, d
  <1>2. ~Stuck(x, kf, v)  BY <1>1 DEF Stuck, x
  <1>3. After(s, p, kf, v) = d
    BY <1>1, <1>2 DEF After, x, d, Behind
  <1>4. Leads(s, After(s, p, kf, v), e)  BY <1>3 DEF d, x
  <1>5. Leads(s, <<p, kf, v>>, e)  BY <1>4, LeadsStep
  <1>6. QED  BY <1>5 DEF kf

-----------------------------------------------------------------------------
(* What is behind an expression where an operator of the given priority is the *)
(* loosest, and what its parse does.                                        *)

Ends == {")", ",", "][", "]", "eof"}
Follow(level) ==
    {op \in BinOp : Priority(op) > level} \cup Ends \cup (IF level < 8 THEN {"="} ELSE {})

\* What is behind an operand of a level is none of its operators, and may be behind
\* one of the level below.
LEMMA FollowFacts ==
    ASSUME NEW level \in 2 .. 8
    PROVE  /\ Follow(level) \subseteq Follow(level - 1)
           /\ level < 8 => Follow(level) \cap OpSet[level] = {}
           /\ "=" \in Follow(7) /\ "=" \notin Follow(8)
           /\ Ends \subseteq Follow(8)
           /\ \A op \in BinOp : Priority(op) = level => op \in Follow(level - 1)
  <1>1. \A op \in BinOp : Priority(op) \in 2 .. 7  BY PriorityFacts DEF Binary
  <1>2. Follow(level) \subseteq Follow(level - 1)
    <2>1. ASSUME NEW op \in BinOp, Priority(op) > level PROVE Priority(op) > level - 1
      BY <1>1, <2>1
    <2>2. level < 8 => level - 1 < 8  OBVIOUS
    <2>3. QED  BY <2>1, <2>2 DEF Follow
  <1>3. ASSUME level < 8 PROVE Follow(level) \cap OpSet[level] = {}
    <2>1. level \in Binary  BY <1>3 DEF Binary
    <2>2. ASSUME NEW op \in BinOp, Priority(op) > level, op \in OpSet[level] PROVE FALSE
      <3>1. Priority(op) <= level  BY <2>1, <2>2, PriorityFacts
      <3>2. QED  BY <1>1, <2>2, <3>1
    <2>3. ASSUME NEW x \in Ends \cup {"="}, x \in OpSet[level] PROVE FALSE
      <3>1. x \in BinOp  BY <2>1, <2>3 DEF OpSet, BinOp, Binary
      <3>2. x \notin BinOp  BY <2>3 DEF Ends, BinOp
      <3>3. QED  BY <3>1, <3>2
    <2>4. QED  BY <2>2, <2>3 DEF Follow
  <1>4. "=" \in Follow(7)  BY DEF Follow
  <1>5. "=" \notin Follow(8)
    <2>1. "=" \notin BinOp /\ "=" \notin Ends /\ ~(8 < 8)  BY DEF BinOp, Ends
    <2>2. QED  BY <2>1 DEF Follow
  <1>6. ASSUME NEW op \in BinOp, Priority(op) = level PROVE op \in Follow(level - 1)
    <2>1. Priority(op) > level - 1  BY <1>6
    <2>2. QED  BY <2>1 DEF Follow
  <1>7. Ends \subseteq Follow(8)  BY DEF Follow
  <1>8. QED  BY <1>2, <1>3, <1>4, <1>5, <1>6, <1>7

\* The function of a level reads x between two positions.
Reads(s, level, x, i, j) ==
    \A k \in Stacks : Leads(s, <<i, k \o Calls(level), <<>>>>, <<j, k, x>>)

\* A binary function has read x, but its loop goes on.
Holds(s, level, x, i, j, k, f, v) ==
    /\ f.level = level /\ LhsOf(f, v) = x
    /\ Leads(s, <<i, k \o Calls(level), <<>>>>, <<j, Append(k, f), v>>)
Loops(s, level, x, i, j) ==
    \A k \in Stacks : \E f \in Frames, v \in Trees : Holds(s, level, x, i, j, k, f, v)

\* ... wherever x is written as w.
Parsed(w, x, level) ==
    \A s \in Words, i \in Nat, j \in Nat :
        Spans(s, w, i, j) /\ TokenAt(s, j) \in Follow(level) => Reads(s, level, x, i, j)
Looped(w, x, level) ==
    \A s \in Words, i \in Nat, j \in Nat :
        Spans(s, w, i, j) /\ TokenAt(s, j) \in Follow(level - 1) => Loops(s, level, x, i, j)


\* A token between two texts.
LEMMA SpansAround ==
    ASSUME NEW s \in Words, NEW u \in Words, NEW x \in Token, NEW v \in Words,
           NEW i, NEW j, Spans(s, u \o <<x>> \o v, i, j)
    PROVE  \E m \in Nat : /\ i \in Nat /\ j \in Nat /\ m + 1 \in Nat
                          /\ Spans(s, u, i, m) /\ TokenAt(s, m) = x
                          /\ Spans(s, v, m + 1, j)
  <1> DEFINE t == <<x>>
             ut == u \o t
  <1>1. t \in Words  BY DEF Words
  <1>2. ut \in Words /\ Len(u) \in Nat /\ Len(v) \in Nat /\ Len(ut) \in Nat
    BY <1>1, ConcatProperties DEF Words
  <1> HIDE DEF ut
  <1>3. Spans(s, ut, i, i + Len(ut)) /\ Spans(s, v, i + Len(ut), j)
    BY <1>2, SpansBoth DEF ut
  <1> HIDE DEF t
  <1>4. Spans(s, u, i, i + Len(u)) /\ Spans(s, t, i + Len(u), i + Len(ut))
    BY <1>1, <1>3, SpansBoth DEF ut
  <1>5. /\ i + Len(u) \in Nat /\ i + Len(ut) = i + Len(u) + 1
        /\ TokenAt(s, i + Len(u)) = x
    BY <1>4, SpansOne DEF t
  <1>6. i \in Nat /\ j \in Nat  BY <1>2, <1>3, <1>5 DEF Spans
  <1>7. QED  BY <1>3, <1>4, <1>5, <1>6

\* What a tree is made of.
LEMMA TreeFacts ==
    ASSUME NEW x \in Trees
    PROVE  /\ Len(x) \in Nat /\ Len(x) >= 1 /\ x # <<>> /\ Formed(x)
           /\ Tokens(x) \in Words /\ Tokens(x) = Written(x)
           /\ \A i \in 2 .. Len(x) : x[i] \in Trees
           /\ Len(x) = 1 => x = <<x[1]>>
           /\ Len(x) = 2 => x = <<x[1], x[2]>>
           /\ Len(x) = 3 => x = <<x[1], x[2], x[3]>>
  <1>1. /\ Len(x) \in Nat /\ x = [i \in 1 .. Len(x) |-> x[i]] /\ Formed(x)
        /\ Tokens(x) \in Words /\ Tokens(x) = Written(x)
    BY TreesAssumption DEF Words
  <1>2. \A i \in 2 .. Len(x) : x[i] \in Trees  BY TreesAssumption
  <1>3. Len(x) >= 1  BY <1>1 DEF Formed
  <1>4. x # <<>>
    <2>1. Len(<<>>) = 0  OBVIOUS
    <2>2. QED  BY <1>1, <1>3, <2>1
  <1>5. ASSUME Len(x) = 1 PROVE x = <<x[1]>>
    <2>1. x = [i \in 1 .. 1 |-> x[i]]  BY <1>1, <1>5
    <2>2. QED  BY <2>1
  <1>6. ASSUME Len(x) = 2 PROVE x = <<x[1], x[2]>>
    <2>1. x = [i \in 1 .. 2 |-> x[i]]  BY <1>1, <1>6
    <2>2. QED  BY <2>1
  <1>7. ASSUME Len(x) = 3 PROVE x = <<x[1], x[2], x[3]>>
    <2>1. x = [i \in 1 .. 3 |-> x[i]]  BY <1>1, <1>7
    <2>2. QED  BY <2>1
  <1>8. QED  BY <1>1, <1>2, <1>3, <1>4, <1>5, <1>6, <1>7

\* What the level below reads as a whole, the loop of a level holds.
LEMMA LoopStarts ==
    ASSUME NEW w, NEW x \in Trees, NEW level \in Binary, Parsed(w, x, level - 1)
    PROVE  Looped(w, x, level)
  <1>1. SUFFICES ASSUME NEW s \in Words, NEW i \in Nat, NEW j \in Nat,
                        Spans(s, w, i, j), TokenAt(s, j) \in Follow(level - 1), NEW k \in Stacks
                 PROVE  \E f \in Frames, v \in Trees : Holds(s, level, x, i, j, k, f, v)
    BY DEF Looped, Loops
  <1>2. level \in 1 .. 8 /\ level > 1 /\ level \in 0 .. 8  BY DEF Binary
  <1>3. Fun(level) \in Frames /\ Fun(level).level = level /\ LhsOf(Fun(level), x) = x
    <2>1. "none" \in Token \cup {"none"} /\ <<>> \in Seq(Trees)  BY EmptySeq
    <2>2. Fun(level) \in Frames  BY <1>2, <2>1, FunFacts
    <2>3. QED  BY <2>2 DEF Fun, LhsOf
  <1>4. Reads(s, level - 1, x, i, j)  BY <1>1 DEF Parsed
  <1>5. Append(k, Fun(level)) \in Stacks  BY <1>3, TopFacts
  <1>6. k \o Calls(level) = Append(k, Fun(level)) \o Calls(level - 1)
    BY <1>2, CallsAre
  <1>7. Leads(s, <<i, k \o Calls(level), <<>>>>, <<j, Append(k, Fun(level)), x>>)
    BY <1>4, <1>5, <1>6 DEF Reads
  <1>8. Holds(s, level, x, i, j, k, Fun(level), x)  BY <1>3, <1>7 DEF Holds
  <1>9. QED  BY <1>3, <1>8

\* An operator of the level's: the loop goes on with the right operand.
LEMMA LoopGoesOn ==
    ASSUME NEW u \in Words, NEW v \in Words, NEW l \in Trees, NEW r \in Trees,
           NEW op \in BinOp, NEW x, x = <<op, l, r>>,
           Looped(u, l, Priority(op)), Parsed(v, r, Priority(op) - 1)
    PROVE  Looped(u \o <<op>> \o v, x, Priority(op))
  <1> DEFINE level == Priority(op)
             w == u \o <<op>> \o v
  <1>1. level \in Binary /\ op \in OpSet[level]  BY PriorityFacts
  <1>2. op \in Follow(level - 1)
    <2>1. level \in 2 .. 8  BY <1>1 DEF Binary
    <2>2. QED  BY <2>1, FollowFacts
  <1>3. op \in Token /\ op # "none"  BY DEF Token, BinOp
  <1>4. Looped(u, l, level) /\ Parsed(v, r, level - 1)  OBVIOUS
  <1> HIDE DEF level
  <1>5. SUFFICES ASSUME NEW s \in Words, NEW i \in Nat, NEW j \in Nat,
                        Spans(s, w, i, j), TokenAt(s, j) \in Follow(level - 1), NEW k \in Stacks
                 PROVE  \E f \in Frames, q \in Trees : Holds(s, level, x, i, j, k, f, q)
    BY DEF Looped, Loops, level
  <1>6. PICK m \in Nat : /\ m + 1 \in Nat /\ Spans(s, u, i, m) /\ TokenAt(s, m) = op
                         /\ Spans(s, v, m + 1, j)
    BY <1>3, <1>5, SpansAround
  <1>7. Loops(s, level, l, i, m)  BY <1>2, <1>4, <1>6 DEF Looped
  <1>8. PICK f \in Frames, q \in Trees : Holds(s, level, l, i, m, k, f, q)
    BY <1>7 DEF Loops
  <1>9. Reads(s, level - 1, r, m + 1, j)  BY <1>4, <1>5, <1>6 DEF Parsed
  <1> DEFINE g == [f EXCEPT !.op = op, !.parts = <<l>>]
  <1>10. g \in Frames /\ g.level = level /\ LhsOf(g, r) = x
    <2>1. f.level = level  BY <1>8 DEF Holds
    <2>2. op \in Token \cup {"none"} /\ <<l>> \in Seq(Trees) /\ 0 \in 0 .. 8  BY <1>3
    <2>3. g \in Frames  BY <2>2, FunFacts
    <2>4. g.level = f.level /\ g.op = op /\ g.parts = <<l>>  BY DEF Frames
    <2> HIDE DEF g
    <2>5. LhsOf(g, r) = <<op, l, r>>  BY <1>3, <2>4 DEF LhsOf
    <2>6. QED  BY <2>1, <2>3, <2>4, <2>5
  <1>11. ReturnStep(op, m, Behind(s, m), k, f, q)
             = <<m + 1, Append(k, g) \o Calls(level - 1), <<>>>>
    <2>1. Behind(s, m) = m + 1  BY <1>3, <1>6, TokenFacts
    <2>2. f.level = level /\ LhsOf(f, q) = l  BY <1>8 DEF Holds
    <2>3. level # Brackets /\ level # Unary /\ level # Assignment
      BY <1>1 DEF Binary, Brackets, Unary, Assignment
    <2>4. ReturnStep(op, m, Behind(s, m), k, f, q) = OperandStep(op, m, m + 1, k, f, q)
      BY <2>1, <2>2, <2>3 DEF ReturnStep
    <2>5. OperandStep(op, m, m + 1, k, f, q) = <<m + 1, Append(k, g) \o Calls(level - 1), <<>>>>
      BY <1>1, <2>2 DEF OperandStep
    <2>6. QED  BY <2>4, <2>5
  <1> HIDE DEF g
  <1>12. Leads(s, <<m + 1, Append(k, g) \o Calls(level - 1), <<>>>>, <<j, Append(k, g), r>>)
    <2>1. Append(k, g) \in Stacks  BY <1>10, TopFacts
    <2>2. QED  BY <1>9, <2>1 DEF Reads
  <1>13. Leads(s, <<m, Append(k, f), q>>, <<j, Append(k, g), r>>)
    <2>1. q # <<>>  BY TreeFacts
    <2>2. op # "="  BY DEF BinOp
    <2>3. Leads(s, ReturnStep(op, m, Behind(s, m), k, f, q), <<j, Append(k, g), r>>)
      BY <1>11, <1>12
    <2>4. QED  BY <1>6, <2>1, <2>2, <2>3, ReturnLeads
  <1>14. Leads(s, <<i, k \o Calls(level), <<>>>>, <<j, Append(k, g), r>>)
    <2>1. Leads(s, <<i, k \o Calls(level), <<>>>>, <<m, Append(k, f), q>>)
      BY <1>8 DEF Holds
    <2>2. QED  BY <1>13, <2>1, LeadsOn
  <1>15. Holds(s, level, x, i, j, k, g, r)  BY <1>10, <1>14 DEF Holds
  <1>16. QED  BY <1>10, <1>15

\* No operator of the level's: the loop ends.
LEMMA LoopEnds ==
    ASSUME NEW w, NEW x \in Trees, NEW level \in Binary, Looped(w, x, level)
    PROVE  Parsed(w, x, level)
  <1>1. SUFFICES ASSUME NEW s \in Words, NEW i \in Nat, NEW j \in Nat,
                        Spans(s, w, i, j), TokenAt(s, j) \in Follow(level), NEW k \in Stacks
                 PROVE  Leads(s, <<i, k \o Calls(level), <<>>>>, <<j, k, x>>)
    BY DEF Parsed, Reads
  <1>2. TokenAt(s, j) \in Follow(level - 1) /\ TokenAt(s, j) \notin OpSet[level]
    <2>1. level \in 2 .. 8 /\ level < 8  BY DEF Binary
    <2>2. QED  BY <1>1, <2>1, FollowFacts
  <1>3. PICK f \in Frames, q \in Trees : Holds(s, level, x, i, j, k, f, q)
    BY <1>1, <1>2 DEF Looped, Loops
  <1>4. f.level = level /\ LhsOf(f, q) = x
        /\ Leads(s, <<i, k \o Calls(level), <<>>>>, <<j, Append(k, f), q>>)
    BY <1>3 DEF Holds
  <1>5. level # Brackets /\ level # Unary /\ level # Assignment
    BY DEF Binary, Brackets, Unary, Assignment
  <1>6. ReturnStep(TokenAt(s, j), j, Behind(s, j), k, f, q) = <<j, k, x>>
    BY <1>2, <1>4, <1>5 DEF ReturnStep, OperandStep
  <1>7. Leads(s, <<j, k, x>>, <<j, k, x>>)  BY LeadsNowhere
  <1>8. q # <<>>  BY TreeFacts
  <1>9. Leads(s, <<j, Append(k, f), q>>, <<j, k, x>>)
    BY <1>4, <1>5, <1>6, <1>7, <1>8, ReturnLeads
  <1>10. QED  BY <1>4, <1>9, LeadsOn


\* parseAssignExpr without an assignment.
LEMMA AssignPasses ==
    ASSUME NEW w, NEW x \in Trees, Parsed(w, x, 7)
    PROVE  Parsed(w, x, 8)
  <1>1. SUFFICES ASSUME NEW s \in Words, NEW i \in Nat, NEW j \in Nat,
                        Spans(s, w, i, j), TokenAt(s, j) \in Follow(8), NEW k \in Stacks
                 PROVE  Leads(s, <<i, k \o Calls(8), <<>>>>, <<j, k, x>>)
    BY DEF Parsed, Reads
  <1>2. TokenAt(s, j) \in Follow(7) /\ TokenAt(s, j) # "="
    <2>1. 8 \in 2 .. 8 /\ 8 - 1 = 7  OBVIOUS
    <2>2. Follow(8) \subseteq Follow(7) /\ "=" \notin Follow(8)  BY <2>1, FollowFacts
    <2>3. QED  BY <1>1, <2>2
  <1> DEFINE f == Fun(8)
  <1>3. f \in Frames /\ f.level = 8 /\ LhsOf(f, x) = x
    <2>1. "none" \in Token \cup {"none"} /\ <<>> \in Seq(Trees) /\ 8 \in 0 .. 8  BY EmptySeq
    <2>2. f \in Frames  BY <2>1, FunFacts
    <2>3. QED  BY <2>2 DEF Fun, LhsOf
  <1>4. k \o Calls(8) = Append(k, f) \o Calls(7)
    <2>1. 8 \in 1 .. 8 /\ 8 > 1 /\ 8 - 1 = 7  OBVIOUS
    <2>2. QED  BY <2>1, CallsAre
  <1> HIDE DEF f
  <1>5. Leads(s, <<i, Append(k, f) \o Calls(7), <<>>>>, <<j, Append(k, f), x>>)
    <2>1. Append(k, f) \in Stacks  BY <1>3, TopFacts
    <2>2. QED  BY <1>1, <1>2, <2>1 DEF Parsed, Reads
  <1>6. ReturnStep(TokenAt(s, j), j, Behind(s, j), k, f, x) = <<j, k, x>>
    BY <1>2, <1>3 DEF ReturnStep, AssignStep, Assignment, Unary, Brackets
  <1>7. Leads(s, <<j, Append(k, f), x>>, <<j, k, x>>)
    BY <1>2, <1>3, <1>6, LeadsNowhere, ReturnLeads, TreeFacts
  <1>8. QED  BY <1>4, <1>5, <1>7, LeadsOn

\* ... and with one.
LEMMA AssignmentParsed ==
    ASSUME NEW u \in Words, NEW v \in Words, NEW l \in Trees, NEW r \in Trees, IsTarget(l),
           NEW x, x = <<"=", l, r>>, Parsed(u, l, 7), Parsed(v, r, 7)
    PROVE  Parsed(u \o <<"=">> \o v, x, 8)
  <1> DEFINE w == u \o <<"=">> \o v
  <1>1. SUFFICES ASSUME NEW s \in Words, NEW i \in Nat, NEW j \in Nat,
                        Spans(s, w, i, j), TokenAt(s, j) \in Follow(8), NEW k \in Stacks
                 PROVE  Leads(s, <<i, k \o Calls(8), <<>>>>, <<j, k, x>>)
    BY DEF Parsed, Reads
  <1>2. TokenAt(s, j) \in Follow(7) /\ "=" \in Follow(7)
    <2>1. 8 \in 2 .. 8 /\ 8 - 1 = 7  OBVIOUS
    <2>2. Follow(8) \subseteq Follow(7) /\ "=" \in Follow(7)  BY <2>1, FollowFacts
    <2>3. QED  BY <1>1, <2>2
  <1>3. "=" \in Token  BY DEF Token
  <1>4. PICK m \in Nat : /\ m + 1 \in Nat /\ Spans(s, u, i, m) /\ TokenAt(s, m) = "="
                         /\ Spans(s, v, m + 1, j)
    BY <1>1, <1>3, SpansAround
  <1> DEFINE f == Fun(8)
             g == [f EXCEPT !.op = "=", !.parts = <<l>>]
  <1>5. f \in Frames /\ f.level = 8 /\ f.op = "none"
    <2>1. "none" \in Token \cup {"none"} /\ <<>> \in Seq(Trees) /\ 8 \in 0 .. 8  BY EmptySeq
    <2>2. f \in Frames  BY <2>1, FunFacts
    <2>3. QED  BY <2>2 DEF Fun
  <1>6. k \o Calls(8) = Append(k, f) \o Calls(7)
    <2>1. 8 \in 1 .. 8 /\ 8 > 1 /\ 8 - 1 = 7  OBVIOUS
    <2>2. QED  BY <2>1, CallsAre
  <1> HIDE DEF f
  <1>7. g \in Frames /\ g.level = 8 /\ g.op = "=" /\ LhsOf(g, r) = x
    <2>1. "=" \in Token \cup {"none"} /\ <<l>> \in Seq(Trees) /\ 0 \in 0 .. 8  BY <1>3
    <2>2. g \in Frames  BY <1>5, <2>1, FunFacts
    <2>3. g.level = f.level /\ g.op = "=" /\ g.parts = <<l>>  BY <1>5 DEF Frames
    <2> HIDE DEF g
    <2>4. LhsOf(g, r) = <<"=", l, r>>  BY <2>3 DEF LhsOf
    <2>5. QED  BY <1>5, <2>2, <2>3, <2>4
  <1>8. Append(k, f) \in Stacks /\ Append(k, g) \in Stacks  BY <1>5, <1>7, TopFacts
  <1>9. Leads(s, <<i, Append(k, f) \o Calls(7), <<>>>>, <<m, Append(k, f), l>>)
    BY <1>2, <1>4, <1>8 DEF Parsed, Reads
  <1>10. ReturnStep("=", m, Behind(s, m), k, f, l)
             = <<m + 1, Append(k, g) \o Calls(7), <<>>>>
    <2>1. Behind(s, m) = m + 1  BY <1>3, <1>4, TokenFacts
    <2>2. ReturnStep("=", m, Behind(s, m), k, f, l) = AssignStep("=", m, m + 1, k, f, l)
      BY <1>5, <2>1 DEF ReturnStep, Assignment, Unary, Brackets
    <2>3. AssignStep("=", m, m + 1, k, f, l) = <<m + 1, Append(k, g) \o Calls(7), <<>>>>
      BY <1>5 DEF AssignStep, Logic
    <2>4. QED  BY <2>2, <2>3
  <1> HIDE DEF g
  <1>11. Leads(s, <<m + 1, Append(k, g) \o Calls(7), <<>>>>, <<j, Append(k, g), r>>)
    BY <1>1, <1>2, <1>4, <1>8 DEF Parsed, Reads
  <1>12. ReturnStep(TokenAt(s, j), j, Behind(s, j), k, g, r) = <<j, k, x>>
    BY <1>7 DEF ReturnStep, AssignStep, Assignment, Unary, Brackets
  <1>13. Leads(s, <<j, Append(k, g), r>>, <<j, k, x>>)
    <2>1. g.op # "none"  BY <1>7
    <2>2. QED  BY <1>7, <1>12, <2>1, LeadsNowhere, ReturnLeads, TreeFacts
  <1>14. Leads(s, <<m, Append(k, f), l>>, <<j, k, x>>)
    <2>1. Leads(s, <<m + 1, Append(k, g) \o Calls(7), <<>>>>, <<j, k, x>>)
      BY <1>11, <1>13, LeadsOn
    <2>2. Leads(s, ReturnStep(TokenAt(s, m), m, Behind(s, m), k, f, l), <<j, k, x>>)
      BY <1>4, <1>10, <2>1
    <2>3. QED  BY <1>5, <2>2, ReturnLeads, TreeFacts
  <1>15. QED  BY <1>6, <1>9, <1>14, LeadsOn

\* What a level reads, those above it read as well, and their loops hold it.
LEMMA Climbs ==
    ASSUME NEW w, NEW x \in Trees, NEW lowest \in 1 .. 8, Parsed(w, x, lowest)
    PROVE  \A level \in lowest .. 8 :
               Parsed(w, x, level) /\ (level \in Binary /\ level > lowest => Looped(w, x, level))
  <1> DEFINE S == {n \in Nat : n \in lowest .. 8 => Parsed(w, x, n)}
  <1>1. 0 \in S  OBVIOUS
  <1>2. ASSUME NEW n \in Nat, n \in S PROVE n + 1 \in S
    <2> SUFFICES ASSUME n + 1 \in lowest .. 8 PROVE Parsed(w, x, n + 1)
      OBVIOUS
    <2>1. CASE n + 1 = lowest  BY <2>1
    <2>2. CASE n + 1 # lowest /\ n + 1 < 8
      <3>1. n \in lowest .. 8 /\ n + 1 \in Binary /\ (n + 1) - 1 = n  BY <2>2 DEF Binary
      <3>2. Looped(w, x, n + 1)  BY <1>2, <3>1, LoopStarts
      <3>3. QED  BY <3>1, <3>2, LoopEnds
    <2>3. CASE n + 1 # lowest /\ n + 1 = 8
      <3>1. n \in lowest .. 8 /\ n = 7  BY <2>3
      <3>2. QED  BY <1>2, <2>3, <3>1, AssignPasses
    <2>4. QED  BY <2>1, <2>2, <2>3
  <1>3. Nat \subseteq S
    <2> HIDE DEF S
    <2>1. QED  BY <1>1, <1>2, InductionOnSet
  <1>4. ASSUME NEW level \in lowest .. 8 PROVE Parsed(w, x, level)
    BY <1>3
  <1>5. ASSUME NEW level \in lowest .. 8, level \in Binary, level > lowest
        PROVE  Looped(w, x, level)
    <2>1. level - 1 \in lowest .. 8  BY <1>5
    <2>2. Parsed(w, x, level - 1)  BY <1>4, <2>1
    <2>3. QED  BY <1>5, <2>2, LoopStarts
  <1>6. QED  BY <1>4, <1>5


-----------------------------------------------------------------------------
(* The operands: parseUnaryExpr and what it calls.                          *)

\* A token in front of a text, ...
LEMMA SpansFrom ==
    ASSUME NEW s \in Words, NEW x \in Token, NEW v \in Words, NEW i, NEW j,
           Spans(s, <<x>> \o v, i, j)
    PROVE  /\ i \in Nat /\ i + 1 \in Nat /\ j \in Nat
           /\ TokenAt(s, i) = x /\ Spans(s, v, i + 1, j)
  <1> DEFINE t == <<x>>
  <1>1. t \in Words /\ Len(t) = 1  BY DEF Words
  <1> HIDE DEF t
  <1>2. Spans(s, t, i, i + Len(t)) /\ Spans(s, v, i + Len(t), j)
    BY <1>1, SpansBoth DEF t
  <1>3. i \in Nat /\ TokenAt(s, i) = x  BY <1>2, SpansOne DEF t
  <1>4. Len(v) \in Nat /\ j = i + 1 + Len(v)  BY <1>1, <1>2 DEF Spans, Words
  <1>5. QED  BY <1>1, <1>2, <1>3, <1>4

\* ... and behind one.
LEMMA SpansUpTo ==
    ASSUME NEW s \in Words, NEW x \in Token, NEW v \in Words, NEW i, NEW j,
           Spans(s, v \o <<x>>, i, j)
    PROVE  \E m \in Nat : /\ i \in Nat /\ j \in Nat /\ j = m + 1
                          /\ TokenAt(s, m) = x /\ Spans(s, v, i, m)
  <1> DEFINE t == <<x>>
  <1>1. t \in Words /\ Len(t) = 1  BY DEF Words
  <1> HIDE DEF t
  <1>2. Spans(s, v, i, i + Len(v)) /\ Spans(s, t, i + Len(v), j)
    BY <1>1, SpansBoth DEF t
  <1>3. i + Len(v) \in Nat /\ j = i + Len(v) + 1 /\ TokenAt(s, i + Len(v)) = x
    BY <1>2, SpansOne DEF t
  <1>4. i \in Nat  BY <1>2 DEF Spans
  <1>5. QED  BY <1>2, <1>3, <1>4

\* The function of a unary level on top of the others, in front of a token.
LEMMA UnaryCall ==
    ASSUME NEW s, NEW i, NEW k \in Stacks, NEW e, TokenAt(s, i) \in Starts,
           Leads(s, CallStep(TokenAt(s, i), i, i + 1, k, Fun(1)), e)
    PROVE  Leads(s, <<i, k \o Calls(1), <<>>>>, e)
  <1>1. Fun(1) \in Frames
    <2>1. "none" \in Token \cup {"none"} /\ <<>> \in Seq(Trees) /\ 1 \in 0 .. 8  BY EmptySeq
    <2>2. QED  BY <2>1, FunFacts
  <1>2. TokenAt(s, i) \in Token  BY DEF Starts, Token
  <1>3. Behind(s, i) = i + 1  BY <1>2, TokenFacts
  <1>4. k \o Calls(1) = Append(k, Fun(1))
    <2>1. 1 \in 1 .. 8  OBVIOUS
    <2>2. QED  BY <2>1, CallsAre
  <1>5. Leads(s, <<i, Append(k, Fun(1)), <<>>>>, e)  BY <1>1, <1>3, CallLeads
  <1>6. QED  BY <1>4, <1>5

\* A variable or a constant.
LEMMA LeafParsed ==
    ASSUME NEW op \in {"a", "1"}, NEW x, x = <<op>>
    PROVE  Parsed(<<op>>, x, 1)
  <1> DEFINE w == <<op>>
  <1>1. SUFFICES ASSUME NEW s \in Words, NEW i \in Nat, NEW j \in Nat,
                        Spans(s, w, i, j), NEW k \in Stacks
                 PROVE  Leads(s, <<i, k \o Calls(1), <<>>>>, <<j, k, x>>)
    BY DEF Parsed, Reads
  <1>2. j = i + 1 /\ TokenAt(s, i) = op  BY <1>1, SpansOne
  <1>3. op \in Starts /\ op \notin UnaryOpSet  BY DEF Starts, UnaryOpSet
  <1>4. Fun(1).level # Brackets  BY DEF Fun, Brackets
  <1>5. CallStep(op, i, i + 1, k, Fun(1)) = <<i + 1, k, <<op>>>>
    BY <1>3, <1>4 DEF CallStep
  <1>6. Leads(s, CallStep(TokenAt(s, i), i, i + 1, k, Fun(1)), <<j, k, x>>)
    BY <1>2, <1>5, LeadsNowhere
  <1>7. QED  BY <1>2, <1>3, <1>6, UnaryCall

\* A unary operator and its operand.
LEMMA UnaryParsed ==
    ASSUME NEW op \in UnaryOpSet, NEW v \in Words, NEW y \in Trees, NEW x, x = <<op, y>>,
           Parsed(v, y, 1)
    PROVE  Parsed(<<op>> \o v, x, 1)
  <1> DEFINE w == <<op>> \o v
  <1>1. SUFFICES ASSUME NEW s \in Words, NEW i \in Nat, NEW j \in Nat,
                        Spans(s, w, i, j), TokenAt(s, j) \in Follow(1), NEW k \in Stacks
                 PROVE  Leads(s, <<i, k \o Calls(1), <<>>>>, <<j, k, x>>)
    BY DEF Parsed, Reads
  <1>2. op \in Token /\ op \in Starts /\ op # "none"  BY DEF Token, Starts, UnaryOpSet
  <1>3. i + 1 \in Nat /\ TokenAt(s, i) = op /\ Spans(s, v, i + 1, j)
    BY <1>1, <1>2, SpansFrom
  <1> DEFINE f == Fun(1)
             g == [f EXCEPT !.op = op]
  <1>4. f \in Frames /\ f.level = 1
    <2>1. "none" \in Token \cup {"none"} /\ <<>> \in Seq(Trees) /\ 1 \in 0 .. 8  BY EmptySeq
    <2>2. f \in Frames  BY <2>1, FunFacts
    <2>3. QED  BY <2>2 DEF Fun
  <1> HIDE DEF f
  <1>5. g \in Frames /\ g.level = 1 /\ g.op = op
    <2>1. op \in Token \cup {"none"} /\ <<>> \in Seq(Trees) /\ 0 \in 0 .. 8
      BY <1>2, EmptySeq
    <2>2. g \in Frames  BY <1>4, <2>1, FunFacts
    <2>3. QED  BY <1>4, <2>2 DEF Frames
  <1>6. CallStep(op, i, i + 1, k, f) = <<i + 1, Append(k, g) \o Calls(1), <<>>>>
    <2>1. f.level # Brackets  BY <1>4 DEF Brackets
    <2> HIDE DEF g
    <2>2. CallStep(op, i, i + 1, k, f) = <<i + 1, Append(k, g) \o Calls(Unary), <<>>>>
      BY <2>1 DEF CallStep, g
    <2>3. QED  BY <2>2 DEF Unary
  <1> HIDE DEF g
  <1>7. Leads(s, <<i + 1, Append(k, g) \o Calls(1), <<>>>>, <<j, Append(k, g), y>>)
    <2>1. Append(k, g) \in Stacks  BY <1>5, TopFacts
    <2>2. QED  BY <1>1, <1>3, <2>1 DEF Parsed, Reads
  <1>8. ReturnStep(TokenAt(s, j), j, Behind(s, j), k, g, y) = <<j, k, x>>
    BY <1>5 DEF ReturnStep, Brackets, Unary
  <1>9. Leads(s, <<j, Append(k, g), y>>, <<j, k, x>>)
    <2>1. g.level # Assignment  BY <1>5 DEF Assignment
    <2>2. QED  BY <1>5, <1>8, <2>1, LeadsNowhere, ReturnLeads, TreeFacts
  <1>10. Leads(s, CallStep(TokenAt(s, i), i, i + 1, k, Fun(1)), <<j, k, x>>)
    <2>1. CallStep(TokenAt(s, i), i, i + 1, k, Fun(1)) = <<i + 1, Append(k, g) \o Calls(1), <<>>>>
      BY <1>3, <1>6 DEF f
    <2>2. QED  BY <1>7, <1>9, <2>1, LeadsOn
  <1>11. QED  BY <1>2, <1>3, <1>10, UnaryCall

\* Parentheses leave no trace.
LEMMA ParensParsed ==
    ASSUME NEW v \in Words, NEW x \in Trees, Parsed(v, x, 8)
    PROVE  Parsed(<<"(">> \o v \o <<")">>, x, 1)
  <1> DEFINE w == <<"(">> \o v \o <<")">>
  <1>1. SUFFICES ASSUME NEW s \in Words, NEW i \in Nat, NEW j \in Nat,
                        Spans(s, w, i, j), NEW k \in Stacks
                 PROVE  Leads(s, <<i, k \o Calls(1), <<>>>>, <<j, k, x>>)
    BY DEF Parsed, Reads
  <1>2. "(" \in Token /\ ")" \in Token /\ "(" \in Starts /\ "(" \notin UnaryOpSet
    BY DEF Token, Starts, UnaryOpSet
  <1>3. <<"(">> \o v \in Words
    <2>1. <<"(">> \in Words  BY <1>2 DEF Words
    <2>2. QED  BY <2>1, ConcatProperties DEF Words
  <1>4. PICK m \in Nat : /\ j = m + 1 /\ TokenAt(s, m) = ")"
                         /\ Spans(s, <<"(">> \o v, i, m)
    BY <1>1, <1>2, <1>3, SpansUpTo
  <1>5. i + 1 \in Nat /\ TokenAt(s, i) = "(" /\ Spans(s, v, i + 1, m)
    BY <1>2, <1>4, SpansFrom
  <1> DEFINE f == Bracket("(")
  <1>6. f \in Frames /\ f.level = 0 /\ f.op = "("
    <2>1. "(" \in Token \cup {"none"} /\ <<>> \in Seq(Trees) /\ 0 \in 0 .. 8
      BY <1>2, EmptySeq
    <2>2. f \in Frames  BY <2>1, FunFacts
    <2>3. QED  BY <2>2 DEF Bracket, Brackets
  <1>7. CallStep("(", i, i + 1, k, Fun(1)) = <<i + 1, Append(k, f) \o Calls(8), <<>>>>
    <2>1. Fun(1).level # Brackets  BY DEF Fun, Brackets
    <2>2. QED  BY <1>2, <2>1 DEF CallStep, Assignment
  <1> HIDE DEF f
  <1>8. Leads(s, <<i + 1, Append(k, f) \o Calls(8), <<>>>>, <<m, Append(k, f), x>>)
    <2>1. Append(k, f) \in Stacks  BY <1>6, TopFacts
    <2>2. 8 \in 2 .. 8  OBVIOUS
    <2>3. TokenAt(s, m) \in Follow(8)  BY <1>4, <2>2, FollowFacts DEF Ends
    <2>4. QED  BY <1>4, <1>5, <2>1, <2>3 DEF Parsed, Reads
  <1>9. ReturnStep(")", m, Behind(s, m), k, f, x) = <<j, k, x>>
    <2>1. Behind(s, m) = m + 1  BY <1>2, <1>4, TokenFacts
    <2>2. QED  BY <1>4, <1>6, <2>1 DEF ReturnStep, BracketStep, Brackets
  <1>10. Leads(s, <<m, Append(k, f), x>>, <<j, k, x>>)
    <2>1. f.level # Assignment  BY <1>6 DEF Assignment
    <2>2. Leads(s, ReturnStep(TokenAt(s, m), m, Behind(s, m), k, f, x), <<j, k, x>>)
      BY <1>4, <1>9, LeadsNowhere
    <2>3. QED  BY <1>6, <2>1, <2>2, ReturnLeads, TreeFacts
  <1>11. Leads(s, CallStep(TokenAt(s, i), i, i + 1, k, Fun(1)), <<j, k, x>>)
    BY <1>5, <1>7, <1>8, <1>10, LeadsOn
  <1>12. QED  BY <1>2, <1>5, <1>11, UnaryCall


-----------------------------------------------------------------------------
(* Arguments and indexes.                                                   *)

\* How the first m operands of x are written, for all m.
Lists(x, separator, first) ==
    /\ first \in [0 .. Len(x) - 1 -> Words]
    /\ first[0] = <<>>
    /\ Len(x) >= 2 => first[1] = Tokens(x[2])
    /\ \A m \in 1 .. Len(x) - 2 :
           first[m + 1] = first[m] \o <<separator>> \o Tokens(x[m + 2])
    /\ List(x, separator) = first[Len(x) - 1]

\* The recursive definition of List has its values.
LEMMA ListExists ==
    ASSUME NEW x \in Trees, NEW separator \in Token
    PROVE  \E first : Lists(x, separator, first)
  <1> DEFINE n == Len(x) - 1
             sep(m) == IF m = 1 THEN <<>> ELSE <<separator>>
             text(m) == Tokens(x[m + 1])
             Is(f) == f = [m \in 0 .. n |-> IF m = 0 THEN <<>> ELSE f[m - 1] \o sep(m) \o text(m)]
             first == CHOOSE f : Is(f)
             step == [p \in Words \X (1 .. n) |-> p[1] \o sep(p[2]) \o text(p[2])]
  <1>1. n \in Nat /\ n = Len(x) - 1 /\ Len(x) \in Nat  BY TreeFacts
  <1>2. ASSUME NEW m \in 1 .. n PROVE text(m) \in Words /\ sep(m) \in Words
    <2>1. m + 1 \in 2 .. Len(x)  BY <1>1
    <2>2. x[m + 1] \in Trees  BY <2>1, TreeFacts
    <2>3. <<>> \in Words /\ <<separator>> \in Words  BY EmptySeq DEF Words
    <2>4. QED  BY <2>2, <2>3, TreeFacts
  <1>3. List(x, separator) = first[n]
    BY DEF List
  <1>4. step \in Steps(Words, n)
    <2>1. ASSUME NEW p \in Words \X (1 .. n) PROVE p[1] \o sep(p[2]) \o text(p[2]) \in Words
      <3>1. p[1] \in Words /\ p[2] \in 1 .. n  OBVIOUS
      <3> HIDE DEF sep, text
      <3>2. sep(p[2]) \in Words /\ text(p[2]) \in Words  BY <1>2, <3>1
      <3>3. p[1] \o sep(p[2]) \in Words  BY <3>1, <3>2, ConcatProperties DEF Words
      <3>4. QED  BY <3>2, <3>3, ConcatProperties DEF Words
    <2> HIDE DEF sep, text
    <2>2. QED  BY <2>1 DEF Steps
  <1> HIDE DEF n, sep, text
  <1>5. PICK g : Computes(g, Words, <<>>, n, step)
    <2>1. <<>> \in Words  BY EmptySeq DEF Words
    <2> HIDE DEF step
    <2>2. QED  BY <1>1, <1>4, <2>1, RecursiveFunction
  <1>6. g \in [0 .. n -> Words] /\ g[0] = <<>>
        /\ \A m \in 1 .. n : g[m] = g[m - 1] \o sep(m) \o text(m)
    <2>1. g \in [0 .. n -> Words] /\ g[0] = <<>> /\ \A m \in 1 .. n : g[m] = step[<<g[m - 1], m>>]
      BY <1>5 DEF Computes
    <2>2. ASSUME NEW m \in 1 .. n PROVE g[m] = g[m - 1] \o sep(m) \o text(m)
      <3>1. m - 1 \in 0 .. n  BY <1>1
      <3>2. <<g[m - 1], m>> \in Words \X (1 .. n)  BY <2>1, <3>1
      <3>3. QED  BY <2>1, <3>2
    <2>3. QED  BY <2>1, <2>2
  <1>7. Is(g)
    <2>1. g = [m \in 0 .. n |-> g[m]]  BY <1>6
    <2>2. ASSUME NEW m \in 0 .. n
          PROVE  g[m] = IF m = 0 THEN <<>> ELSE g[m - 1] \o sep(m) \o text(m)
      <3>1. m = 0 \/ m \in 1 .. n  BY <1>1
      <3>2. QED  BY <1>6, <3>1
    <2>3. QED  BY <2>1, <2>2
  <1>8. Is(first)
    <2> HIDE DEF Is
    <2>1. QED  BY <1>7
  <1> HIDE DEF first
  <1>9. first[0] = <<>> /\ \A m \in 1 .. n : first[m] = first[m - 1] \o sep(m) \o text(m)
    <2>1. 0 \in 0 .. n /\ \A m \in 1 .. n : m \in 0 .. n /\ m # 0  BY <1>1
    <2>2. QED  BY <1>8, <2>1
  <1>10. \A m \in 0 .. n : first[m] = g[m]
    <2>1. Alike(first, g, n)
      <3>1. ASSUME NEW m \in 1 .. n, first[m - 1] = g[m - 1] PROVE first[m] = g[m]
        BY <1>6, <1>9, <3>1
      <3>2. QED  BY <1>6, <1>9, <3>1 DEF Alike
    <2>2. QED  BY <1>1, <2>1, SameSteps
  <1>11. first \in [0 .. n -> Words]
    <2>1. first = [m \in 0 .. n |-> first[m]]
      <3>1. DOMAIN first = 0 .. n  BY <1>8
      <3>2. QED  BY <1>8
    <2>2. \A m \in 0 .. n : first[m] \in Words  BY <1>6, <1>10
    <2>3. QED  BY <2>1, <2>2
  <1>12. ASSUME Len(x) >= 2 PROVE first[1] = Tokens(x[2])
    <2>1. 1 \in 1 .. n /\ 1 - 1 = 0  BY <1>1, <1>12
    <2>2. first[1] = <<>> \o sep(1) \o text(1)  BY <1>9, <2>1
    <2>3. sep(1) = <<>> /\ text(1) = Tokens(x[2]) /\ text(1) \in Words
      BY <1>2, <2>1 DEF sep, text
    <2>4. <<>> \in Words  BY EmptySeq DEF Words
    <2>5. <<>> \o <<>> = <<>> /\ <<>> \o text(1) = text(1)
      BY <2>3, <2>4, ConcatEmptySeq DEF Words
    <2>6. QED  BY <2>2, <2>3, <2>5
  <1>13. ASSUME NEW m \in 1 .. Len(x) - 2
         PROVE  first[m + 1] = first[m] \o <<separator>> \o Tokens(x[m + 2])
    <2>1. m + 1 \in 1 .. n /\ (m + 1) - 1 = m /\ m + 1 # 1 /\ (m + 1) + 1 = m + 2
      BY <1>1
    <2>2. first[m + 1] = first[m] \o sep(m + 1) \o text(m + 1)  BY <1>9, <2>1
    <2>3. sep(m + 1) = <<separator>>  BY <2>1 DEF sep
    <2>4. text(m + 1) = Tokens(x[m + 2])  BY <2>1 DEF text
    <2>5. QED  BY <2>2, <2>3, <2>4
  <1>14. QED  BY <1>1, <1>3, <1>9, <1>11, <1>12, <1>13 DEF Lists


\* An operand is no longer than the operands together.
LEMMA OperandsAreShorter ==
    ASSUME NEW x \in Trees, NEW separator \in Token, NEW h \in 2 .. Len(x)
    PROVE  /\ List(x, separator) \in Words
           /\ Len(Tokens(x[h])) <= Len(List(x, separator))
  <1>1. PICK first : Lists(x, separator, first)  BY ListExists
  <1>2. Len(x) \in Nat /\ \A m \in 2 .. Len(x) : x[m] \in Trees /\ Tokens(x[m]) \in Words
    BY TreeFacts
  <1> DEFINE n == Len(x) - 1
             S == {m \in Nat : h - 1 <= m /\ m <= n => Len(Tokens(x[h])) <= Len(first[m])}
  <1>3. /\ n \in Nat /\ h - 1 \in 1 .. n /\ Len(Tokens(x[h])) \in Nat
        /\ \A m \in 0 .. n : first[m] \in Words /\ Len(first[m]) \in Nat
    <2>1. Tokens(x[h]) \in Words  BY <1>2
    <2>2. \A m \in 0 .. n : first[m] \in Words  BY <1>1 DEF Lists
    <2>3. QED  BY <1>2, <2>1, <2>2 DEF Words
  <1>4. 0 \in S  BY <1>3
  <1>5. ASSUME NEW m \in Nat, m \in S PROVE m + 1 \in S
    <2> SUFFICES ASSUME h - 1 <= m + 1, m + 1 <= n
                 PROVE  Len(Tokens(x[h])) <= Len(first[m + 1])
      OBVIOUS
    <2>1. CASE m = 0
      <3>1. h = 2 /\ Len(x) >= 2  BY <1>3, <2>1
      <3>2. first[1] = Tokens(x[2])  BY <1>1, <3>1 DEF Lists
      <3>3. QED  BY <1>3, <2>1, <3>1, <3>2
    <2>2. CASE m > 0
      <3>1. m \in 1 .. Len(x) - 2 /\ m + 2 \in 2 .. Len(x) /\ m \in 0 .. n  BY <1>2, <2>2
      <3> DEFINE t == Tokens(x[m + 2])
                 s == <<separator>>
                 p == first[m]
      <3>2. first[m + 1] = p \o s \o t  BY <1>1, <3>1 DEF Lists
      <3>3. p \in Words /\ s \in Words /\ t \in Words  BY <1>2, <1>3, <3>1 DEF Words
      <3> HIDE DEF p, s, t
      <3>4. p \o s \in Words /\ Len(p \o s) = Len(p) + Len(s)
        BY <3>3, ConcatProperties DEF Words
      <3>5. Len(p \o s \o t) = Len(p \o s) + Len(t)
        BY <3>3, <3>4, ConcatProperties DEF Words
      <3>6. Len(p) \in Nat /\ Len(s) \in Nat /\ Len(t) \in Nat  BY <3>3 DEF Words
      <3>7. CASE h - 1 <= m
        <4>1. Len(Tokens(x[h])) <= Len(p)  BY <1>5, <1>3, <3>7 DEF p
        <4>2. QED  BY <1>3, <3>2, <3>4, <3>5, <3>6, <4>1
      <3>8. CASE h - 1 = m + 1
        <4>1. Len(Tokens(x[h])) = Len(t)
          <5>1. h = m + 2  BY <3>8
          <5>2. QED  BY <5>1 DEF t
        <4>2. QED  BY <1>3, <3>2, <3>4, <3>5, <3>6, <4>1
      <3>9. QED  BY <3>7, <3>8
    <2>3. QED  BY <2>1, <2>2
  <1>6. Nat \subseteq S
    <2> HIDE DEF S
    <2>1. QED  BY <1>4, <1>5, InductionOnSet
  <1>7. Len(Tokens(x[h])) <= Len(first[n])  BY <1>3, <1>6
  <1>8. List(x, separator) = first[n]  BY <1>1 DEF Lists
  <1>9. QED  BY <1>3, <1>7, <1>8

\* A call or an index whose first m operands are known.
Items(x, m) == [h \in 1 .. m |-> x[h + 1]]
Held(x, m) == [level |-> Brackets, op |-> x[1], parts |-> Items(x, m)]

\* Operands one after the other, and the frame that holds them.
LEMMA ItemFacts ==
    ASSUME NEW x \in Trees, x[1] \in {"f(", "a["}, NEW m \in 0 .. Len(x) - 1
    PROVE  /\ Items(x, m) \in Seq(Trees) /\ Held(x, m) \in Frames
           /\ Held(x, 0) = Bracket(x[1])
           /\ m > 0 => Append(Items(x, m - 1), x[m + 1]) = Items(x, m)
           /\ <<x[1]>> \o Items(x, Len(x) - 1) = x
  <1>1. Len(x) \in Nat /\ Len(x) >= 1 /\ \A h \in 2 .. Len(x) : x[h] \in Trees
    BY TreeFacts
  <1>2. ASSUME NEW q \in 0 .. Len(x) - 1
        PROVE  /\ Items(x, q) \in Seq(Trees) /\ Len(Items(x, q)) = q
               /\ \A h \in 1 .. q : Items(x, q)[h] = x[h + 1]
    <2>1. \A h \in 1 .. q : x[h + 1] \in Trees
      <3>1. \A h \in 1 .. q : h + 1 \in 2 .. Len(x)  BY <1>1
      <3>2. QED  BY <1>1, <3>1
    <2>2. q \in Nat  OBVIOUS
    <2>3. QED  BY <2>1, <2>2 DEF Items
  <1>3. Held(x, m) \in Frames
    <2> DEFINE p == Items(x, m)
               op == x[1]
    <2>1. p \in Seq(Trees)  BY <1>2
    <2>2. op \in Token \cup {"none"}  BY DEF Token
    <2>3. 0 \in 0 .. 8  OBVIOUS
    <2> HIDE DEF p, op
    <2>4. [level |-> 0, op |-> op, parts |-> p] \in Frames  BY <2>1, <2>2, <2>3, FunFacts
    <2>5. QED  BY <2>4 DEF Held, p, op, Brackets
  <1>4. Held(x, 0) = Bracket(x[1])
    <2>1. Items(x, 0) = <<>>
      <3>1. 0 \in 0 .. Len(x) - 1  BY <1>1
      <3>2. Items(x, 0) \in Seq(Trees) /\ Len(Items(x, 0)) = 0  BY <1>2, <3>1
      <3>3. QED  BY <3>2, EmptySeq
    <2>2. QED  BY <2>1 DEF Held, Bracket
  <1>5. ASSUME m > 0 PROVE Append(Items(x, m - 1), x[m + 1]) = Items(x, m)
    <2> DEFINE p == Items(x, m - 1)
               q == Items(x, m)
               y == x[m + 1]
    <2>1. m - 1 \in 0 .. Len(x) - 1 /\ m + 1 \in 2 .. Len(x)  BY <1>1, <1>5
    <2>2. p \in Seq(Trees) /\ Len(p) = m - 1 /\ \A h \in 1 .. m - 1 : p[h] = x[h + 1]
      BY <1>2, <2>1
    <2>3. q \in Seq(Trees) /\ Len(q) = m /\ \A h \in 1 .. m : q[h] = x[h + 1]  BY <1>2
    <2>4. y \in Trees  BY <1>1, <2>1
    <2> HIDE DEF p, q
    <2>5. Append(p, y) \in Seq(Trees) /\ Len(Append(p, y)) = m
          /\ Append(p, y)[m] = y /\ \A h \in 1 .. m - 1 : Append(p, y)[h] = p[h]
      BY <1>5, <2>2, <2>4
    <2>6. ASSUME NEW h \in 1 .. m PROVE Append(p, y)[h] = q[h]
      <3>1. h = m \/ h \in 1 .. m - 1  OBVIOUS
      <3>2. QED  BY <2>2, <2>3, <2>5, <3>1
    <2>7. Append(p, y) = q  BY <2>3, <2>5, <2>6, SeqEqual
    <2>8. QED  BY <2>7 DEF p, q
  <1>6. <<x[1]>> \o Items(x, Len(x) - 1) = x
    <2> DEFINE n == Len(x) - 1
               p == Items(x, n)
               U == Trees \cup {"f(", "a["}
               y == <<x[1]>>
    <2>1. n \in 0 .. Len(x) - 1 /\ n \in Nat  BY <1>1
    <2>2. p \in Seq(U) /\ Len(p) = n /\ \A h \in 1 .. n : p[h] = x[h + 1]
      <3>1. p \in Seq(Trees) /\ Len(p) = n /\ \A h \in 1 .. n : p[h] = x[h + 1]
        BY <1>2, <2>1
      <3> HIDE DEF p
      <3>2. QED  BY <3>1
    <2>3. y \in Seq(U) /\ Len(y) = 1 /\ y[1] = x[1]  OBVIOUS
    <2>4. x = [i \in 1 .. Len(x) |-> x[i]]  BY TreesAssumption
    <2>5. \A i \in 1 .. Len(x) : x[i] \in U
      <3>1. \A i \in 1 .. Len(x) : i = 1 \/ i \in 2 .. Len(x)  BY <1>1
      <3>2. QED  BY <1>1, <3>1
    <2>6. x \in Seq(U)  BY <1>1, <2>4, <2>5
    <2> HIDE DEF p, U, y
    <2>7. y \o p \in Seq(U) /\ Len(y \o p) = 1 + n
          /\ \A i \in 1 .. 1 + n : (y \o p)[i] = IF i <= 1 THEN y[i] ELSE p[i - 1]
      <3> HIDE DEF n
      <3>1. y \o p \in Seq(U) /\ Len(y \o p) = Len(y) + Len(p)
            /\ \A i \in 1 .. Len(y) + Len(p) :
                   (y \o p)[i] = IF i <= Len(y) THEN y[i] ELSE p[i - Len(y)]
        BY <2>2, <2>3, ConcatProperties
      <3>2. QED  BY <2>2, <2>3, <3>1
    <2>8. ASSUME NEW i \in 1 .. Len(x) PROVE (y \o p)[i] = x[i]
      <3>1. i \in 1 .. 1 + n  BY <1>1
      <3>2. CASE i = 1  BY <2>3, <2>7, <3>1, <3>2
      <3>3. CASE i # 1
        <4>1. i - 1 \in 1 .. n /\ ~(i <= 1) /\ (i - 1) + 1 = i
          <5>1. i \in Nat /\ i > 1 /\ i <= 1 + n  BY <2>1, <3>1, <3>3
          <5>2. QED  BY <2>1, <5>1
        <4>2. QED  BY <2>2, <2>7, <3>1, <4>1
      <3>4. QED  BY <3>2, <3>3
    <2>9. Len(y \o p) = Len(x)  BY <1>1, <2>7
    <2>10. y \o p = x  BY <2>6, <2>7, <2>8, <2>9, SeqEqual
    <2>11. QED  BY <2>10 DEF y, p
  <1>7. QED  BY <1>2, <1>3, <1>4, <1>5, <1>6


\* What is known of a smaller expression; what begins one.
Begins(w) == Len(w) >= 1 /\ w[1] \in Starts
Known(x) == Parsed(Tokens(x), x, 8) /\ Begins(Tokens(x))

\* The token in front of which a text stands is its first one.
LEMMA FirstToken ==
    ASSUME NEW s \in Words, NEW w \in Words, NEW i, NEW j, Spans(s, w, i, j), Begins(w)
    PROVE  TokenAt(s, i) \in Starts
  <1>1. Len(w) \in Nat /\ Len(s) \in Nat  BY DEF Words
  <1>2. 1 \in 1 .. Len(w) /\ i \in Nat /\ i < Len(s) /\ i + 1 = i + 1
    BY <1>1 DEF Spans, Begins
  <1>3. s[i + 1] = w[1]  BY <1>2 DEF Spans
  <1>4. QED  BY <1>2, <1>3 DEF Begins, TokenAt

Separator(x) == IF x[1] = "f(" THEN "," ELSE "]["
Closing(x) == IF x[1] = "f(" THEN ")" ELSE "]"

\* A frame with other operands.
LEMMA OtherParts ==
    ASSUME NEW f \in Frames, NEW p
    PROVE  [f EXCEPT !.parts = p] = [level |-> f.level, op |-> f.op, parts |-> p]
  <1> DEFINE Levels == 0 .. 8
             Ops == Token \cup {"none"}
             Parts == Seq(Trees)
  <1>1. f \in [level : Levels, op : Ops, parts : Parts]  BY DEF Frames
  <1> HIDE DEF Levels, Ops, Parts
  <1>2. QED  BY <1>1

\* From one operand to the next.
LEMMA NextItem ==
    ASSUME NEW x \in Trees, x[1] \in {"f(", "a["}, NEW m \in 1 .. Len(x) - 1,
           NEW s, NEW j, NEW k \in Stacks, NEW e,
           TokenAt(s, j) = Separator(x), TokenAt(s, j + 1) \in Starts,
           Leads(s, <<j + 1, Append(k, Held(x, m)) \o Calls(8), <<>>>>, e)
    PROVE  Leads(s, <<j, Append(k, Held(x, m - 1)), x[m + 1]>>, e)
  <1> DEFINE f == Held(x, m - 1)
             g == Held(x, m)
             v == x[m + 1]
             t == Separator(x)
  <1>1. Len(x) \in Nat /\ m - 1 \in 0 .. Len(x) - 1 /\ m \in 0 .. Len(x) - 1 /\ m > 0
        /\ m + 1 \in 2 .. Len(x)
    BY TreeFacts
  <1>2. f \in Frames /\ g \in Frames /\ v \in Trees /\ Append(Items(x, m - 1), v) = Items(x, m)
    BY <1>1, ItemFacts, TreeFacts
  <1>3. f.level = Brackets /\ f.op = x[1] /\ f.parts = Items(x, m - 1)
        /\ g.level = Brackets /\ g.op = x[1]
    BY DEF Held
  <1>4. [f EXCEPT !.parts = Append(f.parts, v)] = g
    <2>1. Append(f.parts, v) = Items(x, m)  BY <1>2, <1>3
    <2>2. g = [level |-> Brackets, op |-> x[1], parts |-> Items(x, m)]  BY DEF Held
    <2> HIDE DEF f, v, g
    <2>3. [f EXCEPT !.parts = Items(x, m)]
              = [level |-> f.level, op |-> f.op, parts |-> Items(x, m)]
      BY <1>2, OtherParts
    <2>4. QED  BY <1>3, <2>1, <2>2, <2>3
  <1>5. Behind(s, j) = j + 1
    <2>1. TokenAt(s, j) \in Token  BY DEF Separator, Token
    <2>2. QED  BY <2>1, TokenFacts
  <1>6. Leads(s, <<j + 1, Append(k, g) \o Calls(8), <<>>>>, e)  OBVIOUS
  <1>7. TokenAt(s, j) = t /\ v # <<>>  BY <1>2, TreeFacts
  <1> HIDE DEF f, g, v, t
  <1>8. Leads(s, ReturnStep(t, j, j + 1, k, f, v), e)
    <2>1. ReturnStep(t, j, j + 1, k, f, v) = BracketStep(t, j, j + 1, k, f, v)
      BY <1>3 DEF ReturnStep
    <2>2. CASE x[1] = "f("
      <3>1. t = ","  BY <2>2 DEF t, Separator
      <3>2. BracketStep(t, j, j + 1, k, f, v) = <<j + 1, Append(k, g), <<>>>>
        BY <1>3, <1>4, <2>2, <3>1 DEF BracketStep
      <3>3. TokenAt(s, j + 1) # ")"  BY DEF Starts, UnaryOpSet
      <3>4. CallStep(TokenAt(s, j + 1), j + 1, Behind(s, j + 1), k, g)
                = <<j + 1, Append(k, g) \o Calls(8), <<>>>>
        BY <1>3, <3>3 DEF CallStep, Assignment
      <3>5. Leads(s, <<j + 1, Append(k, g), <<>>>>, e)
        BY <1>2, <1>3, <1>6, <3>4, CallLeads
      <3>6. QED  BY <2>1, <3>2, <3>5
    <2>3. CASE x[1] = "a["
      <3>1. t = "]["  BY <2>3 DEF t, Separator
      <3>2. BracketStep(t, j, j + 1, k, f, v) = <<j + 1, Append(k, g) \o Calls(8), <<>>>>
        BY <1>3, <1>4, <2>3, <3>1 DEF BracketStep, Assignment
      <3>3. QED  BY <1>6, <2>1, <3>2
    <2>4. QED  BY <2>2, <2>3
  <1>9. f.level # Assignment  BY <1>3 DEF Brackets, Assignment
  <1>10. Leads(s, <<j, Append(k, f), v>>, e)
    BY <1>2, <1>5, <1>7, <1>8, <1>9, ReturnLeads
  <1>11. QED  BY <1>10 DEF f, v

\* The last operand, and the end.
LEMMA LastItem ==
    ASSUME NEW x \in Trees, x[1] \in {"f(", "a["}, NEW m \in 1 .. Len(x) - 1, m = Len(x) - 1,
           NEW s, NEW j, NEW k \in Stacks, TokenAt(s, j) = Closing(x)
    PROVE  Leads(s, <<j, Append(k, Held(x, m - 1)), x[m + 1]>>, <<j + 1, k, x>>)
  <1> DEFINE f == Held(x, m - 1)
             v == x[m + 1]
             t == Closing(x)
  <1>1. Len(x) \in Nat /\ m - 1 \in 0 .. Len(x) - 1 /\ m \in 0 .. Len(x) - 1 /\ m > 0
        /\ m + 1 \in 2 .. Len(x)
    BY TreeFacts
  <1>2. f \in Frames /\ v \in Trees /\ Append(Items(x, m - 1), v) = Items(x, m)
        /\ <<x[1]>> \o Items(x, m) = x
    BY <1>1, ItemFacts, TreeFacts
  <1>3. f.level = Brackets /\ f.op = x[1] /\ f.parts = Items(x, m - 1)  BY DEF Held
  <1>4. t \in {")", "]"} /\ TokenAt(s, j) = t  BY DEF Closing
  <1>5. Behind(s, j) = j + 1
    <2>1. TokenAt(s, j) \in Token  BY <1>4 DEF Token
    <2>2. QED  BY <2>1, TokenFacts
  <1>6. v # <<>>  BY <1>2, TreeFacts
  <1> HIDE DEF f, v, t
  <1>7. ReturnStep(t, j, j + 1, k, f, v) = <<j + 1, k, x>>
    <2>1. ReturnStep(t, j, j + 1, k, f, v) = BracketStep(t, j, j + 1, k, f, v)
      BY <1>3 DEF ReturnStep
    <2>2. t # "," /\ t # "][" /\ f.op # "("  BY <1>3, <1>4
    <2>3. BracketStep(t, j, j + 1, k, f, v) = <<j + 1, k, <<f.op>> \o Append(f.parts, v)>>
      BY <2>2 DEF BracketStep
    <2>4. <<f.op>> \o Append(f.parts, v) = x  BY <1>2, <1>3
    <2>5. QED  BY <2>1, <2>3, <2>4
  <1>8. f.level # Assignment  BY <1>3 DEF Brackets, Assignment
  <1>9. Leads(s, <<j, Append(k, f), v>>, <<j + 1, k, x>>)
    BY <1>2, <1>4, <1>5, <1>6, <1>7, <1>8, LeadsNowhere, ReturnLeads
  <1>10. QED  BY <1>9 DEF f, v


\* The first m operands are read, the last of them by the functions that are called.
ReadTo(x, s, i, m, j, k) ==
    Leads(s, <<i, Append(k, Bracket(x[1])) \o Calls(8), <<>>>>,
          <<j, Append(k, Held(x, m - 1)), x[m + 1]>>)

\* Operand for operand, by induction on their number.
LEMMA ItemsRead ==
    ASSUME NEW x \in Trees, x[1] \in {"f(", "a["}, NEW first, Lists(x, Separator(x), first),
           \A h \in 2 .. Len(x) : Known(x[h]),
           NEW s \in Words, NEW i \in Nat, NEW k \in Stacks
    PROVE  \A m \in 1 .. Len(x) - 1, j \in Nat :
               Spans(s, first[m], i, j) /\ TokenAt(s, j) \in Ends
                 => TokenAt(s, i) \in Starts /\ ReadTo(x, s, i, m, j, k)
  <1> DEFINE n == Len(x) - 1
             Right(m) == \A j \in Nat :
                             Spans(s, first[m], i, j) /\ TokenAt(s, j) \in Ends
                               => TokenAt(s, i) \in Starts /\ ReadTo(x, s, i, m, j, k)
             S == {m \in Nat : m \in 1 .. n => Right(m)}
  <1>1. Len(x) \in Nat /\ \A h \in 2 .. Len(x) : x[h] \in Trees /\ Tokens(x[h]) \in Words
    BY TreeFacts
  <1>2. \A m \in 0 .. n : first[m] \in Words  BY DEF Lists
  <1>3. Ends \subseteq Follow(8)
    <2>1. 8 \in 2 .. 8  OBVIOUS
    <2>2. QED  BY <2>1, FollowFacts
  <1>4. ASSUME NEW m \in 0 .. n - 1, NEW q \in Nat, NEW j \in Nat,
               Spans(s, Tokens(x[m + 2]), q, j), TokenAt(s, j) \in Ends
        PROVE  /\ TokenAt(s, q) \in Starts
               /\ Leads(s, <<q, Append(k, Held(x, m)) \o Calls(8), <<>>>>,
                        <<j, Append(k, Held(x, m)), x[m + 2]>>)
    <2>1. m + 2 \in 2 .. Len(x) /\ m \in 0 .. Len(x) - 1  BY <1>1
    <2>2. Known(x[m + 2]) /\ x[m + 2] \in Trees /\ Tokens(x[m + 2]) \in Words
      BY <1>1, <2>1
    <2>3. TokenAt(s, q) \in Starts  BY <1>4, <2>2, FirstToken DEF Known
    <2>4. Append(k, Held(x, m)) \in Stacks  BY <2>1, ItemFacts, TopFacts
    <2>5. Reads(s, 8, x[m + 2], q, j)  BY <1>3, <1>4, <2>2 DEF Known, Parsed
    <2>6. QED  BY <2>3, <2>4, <2>5 DEF Reads
  <1>5. 0 \in S  OBVIOUS
  <1>6. ASSUME NEW m \in Nat, m \in S PROVE m + 1 \in S
    <2> SUFFICES ASSUME m + 1 \in 1 .. n, NEW j \in Nat,
                        Spans(s, first[m + 1], i, j), TokenAt(s, j) \in Ends
                 PROVE  TokenAt(s, i) \in Starts /\ ReadTo(x, s, i, m + 1, j, k)
      OBVIOUS
    <2>1. m \in 0 .. n - 1 /\ (m + 1) - 1 = m /\ (m + 1) + 1 = m + 2  BY <1>1
    <2>2. CASE m = 0
      <3>1. first[1] = Tokens(x[2])  BY <1>1, <2>2 DEF Lists
      <3>2. Spans(s, Tokens(x[m + 2]), i, j)  BY <2>2, <3>1
      <3>3. Held(x, 0) = Bracket(x[1])
        <4>1. 0 \in 0 .. Len(x) - 1  BY <1>1
        <4>2. QED  BY <4>1, ItemFacts
      <3>4. /\ TokenAt(s, i) \in Starts
            /\ Leads(s, <<i, Append(k, Held(x, m)) \o Calls(8), <<>>>>,
                     <<j, Append(k, Held(x, m)), x[m + 2]>>)
        BY <1>4, <2>1, <3>2
      <3>5. QED  BY <2>1, <2>2, <3>3, <3>4 DEF ReadTo
    <2>3. CASE m > 0
      <3>1. m \in 1 .. Len(x) - 2 /\ m \in 1 .. n /\ m \in 0 .. n /\ m + 2 \in 2 .. Len(x)
        BY <1>1, <2>3
      <3>2. first[m + 1] = first[m] \o <<Separator(x)>> \o Tokens(x[m + 2])
        BY <3>1 DEF Lists
      <3>3. Separator(x) \in Token /\ Separator(x) \in Ends  BY DEF Separator, Token, Ends
      <3>4. PICK q \in Nat : /\ q + 1 \in Nat /\ Spans(s, first[m], i, q)
                             /\ TokenAt(s, q) = Separator(x)
                             /\ Spans(s, Tokens(x[m + 2]), q + 1, j)
        <4>1. first[m] \in Words /\ Tokens(x[m + 2]) \in Words  BY <1>1, <1>2, <3>1
        <4>2. Spans(s, first[m] \o <<Separator(x)>> \o Tokens(x[m + 2]), i, j)  BY <3>2
        <4>3. QED  BY <3>3, <4>1, <4>2, SpansAround
      <3>5. TokenAt(s, i) \in Starts /\ ReadTo(x, s, i, m, q, k)
        BY <1>6, <3>1, <3>3, <3>4
      <3>6. /\ TokenAt(s, q + 1) \in Starts
            /\ Leads(s, <<q + 1, Append(k, Held(x, m)) \o Calls(8), <<>>>>,
                     <<j, Append(k, Held(x, m)), x[m + 2]>>)
        BY <1>4, <2>1, <3>4
      <3>7. Leads(s, <<q, Append(k, Held(x, m - 1)), x[m + 1]>>,
                  <<j, Append(k, Held(x, m)), x[m + 2]>>)
        BY <3>1, <3>4, <3>6, NextItem
      <3>8. QED  BY <2>1, <3>5, <3>7, LeadsOn DEF ReadTo
    <2>4. QED  BY <2>2, <2>3
  <1>7. Nat \subseteq S
    <2> HIDE DEF S
    <2>1. QED  BY <1>5, <1>6, InductionOnSet
  <1>8. \A m \in 1 .. n : m \in Nat  BY <1>1
  <1>9. QED  BY <1>7, <1>8

\* A call and an index.
LEMMA BracketsParsed ==
    ASSUME NEW x \in Trees, x[1] \in {"f(", "a["}, x[1] = "a[" => Len(x) >= 2,
           \A h \in 2 .. Len(x) : Known(x[h])
    PROVE  Parsed(<<x[1]>> \o List(x, Separator(x)) \o <<Closing(x)>>, x, 1)
  <1> DEFINE l == List(x, Separator(x))
             w == <<x[1]>> \o l \o <<Closing(x)>>
  <1>1. Separator(x) \in Token /\ Closing(x) \in Token /\ Closing(x) \in Ends
        /\ x[1] \in Token /\ x[1] \in Starts /\ x[1] \notin UnaryOpSet
    BY DEF Separator, Closing, Token, Ends, Starts, UnaryOpSet
  <1>2. PICK first : Lists(x, Separator(x), first)  BY <1>1, ListExists
  <1> DEFINE n == Len(x) - 1
  <1>3. Len(x) \in Nat /\ n \in Nat /\ n \in 0 .. n /\ Len(x) = n + 1  BY TreeFacts
  <1>4. l = first[n] /\ l \in Words
    BY <1>2, <1>3 DEF Lists
  <1>5. SUFFICES ASSUME NEW s \in Words, NEW i \in Nat, NEW j \in Nat,
                        Spans(s, w, i, j), NEW k \in Stacks
                 PROVE  Leads(s, <<i, k \o Calls(1), <<>>>>, <<j, k, x>>)
    BY DEF Parsed, Reads
  <1> HIDE DEF l
  <1>6. <<x[1]>> \o l \in Words
    <2>1. <<x[1]>> \in Words  BY <1>1 DEF Words
    <2>2. QED  BY <1>4, <2>1, ConcatProperties DEF Words
  <1>7. PICK m \in Nat : /\ j = m + 1 /\ TokenAt(s, m) = Closing(x)
                         /\ Spans(s, <<x[1]>> \o l, i, m)
    BY <1>1, <1>5, <1>6, SpansUpTo
  <1>8. i + 1 \in Nat /\ TokenAt(s, i) = x[1] /\ Spans(s, l, i + 1, m)
    BY <1>1, <1>4, <1>7, SpansFrom
  <1> DEFINE f == Bracket(x[1])
  <1>9. f \in Frames /\ f.level = Brackets /\ f.op = x[1] /\ f.parts = <<>>
    <2>1. x[1] \in Token \cup {"none"} /\ <<>> \in Seq(Trees) /\ 0 \in 0 .. 8
      BY <1>1, EmptySeq
    <2>2. f \in Frames  BY <2>1, FunFacts
    <2>3. QED  BY <2>2 DEF Bracket
  <1>10. SUFFICES Leads(s, CallStep(x[1], i, i + 1, k, Fun(1)), <<j, k, x>>)
    BY <1>1, <1>8, UnaryCall
  <1>11. Fun(1).level # Brackets  BY DEF Fun, Brackets
  <1>12. CallStep(x[1], i, i + 1, k, Fun(1))
            = IF x[1] = "f(" THEN <<i + 1, Append(k, f), <<>>>>
                             ELSE <<i + 1, Append(k, f) \o Calls(8), <<>>>>
    BY <1>1, <1>11 DEF CallStep, Assignment
  <1> HIDE DEF f
  <1>13. CASE n = 0
    <2>0. Len(x) = 1 /\ ~(Len(x) >= 2)
      <3> HIDE DEF n
      <3>1. Len(x) = 1  BY <1>3, <1>13
      <3>2. QED  BY <3>1
    <2>1. x[1] = "f(" /\ Len(x) = 1  BY <2>0, Zenon
    <2>2. l = <<>>  BY <1>2, <1>4, <1>13 DEF Lists
    <2>3. m = i + 1
      <3>1. Len(<<>>) = 0  OBVIOUS
      <3>2. m = i + 1 + Len(l)  BY <1>8 DEF Spans
      <3>3. QED  BY <1>8, <2>2, <3>1, <3>2
    <2>4. TokenAt(s, i + 1) = ")"  BY <1>7, <2>1, <2>3 DEF Closing
    <2>5. Behind(s, i + 1) = m + 1
      <3>1. TokenAt(s, i + 1) \in Token  BY <2>4 DEF Token
      <3>2. QED  BY <2>3, <3>1, TokenFacts
    <2>6. <<f.op>> \o f.parts = x
      <3>1. x = <<x[1]>>  BY <2>1, TreeFacts
      <3>2. <<x[1]>> \o <<>> = <<x[1]>>
        <4>1. <<x[1]>> \in Seq(Token)  BY <1>1
        <4>2. QED  BY <4>1, ConcatEmptySeq
      <3>3. QED  BY <1>9, <3>1, <3>2
    <2>7. CallStep(")", i + 1, m + 1, k, f) = <<j, k, x>>
      BY <1>7, <1>9, <2>6 DEF CallStep
    <2>8. Leads(s, <<i + 1, Append(k, f), <<>>>>, <<j, k, x>>)
      BY <1>9, <2>4, <2>5, <2>7, CallLeads, LeadsNowhere
    <2>9. QED  BY <1>12, <2>1, <2>8
  <1>14. CASE n > 0
    <2>1. n \in 1 .. Len(x) - 1  BY <1>3, <1>14
    <2>2. TokenAt(s, i + 1) \in Starts /\ ReadTo(x, s, i + 1, n, m, k)
      BY <1>1, <1>2, <1>4, <1>7, <1>8, <2>1, ItemsRead
    <2>3. Leads(s, <<m, Append(k, Held(x, n - 1)), x[n + 1]>>, <<m + 1, k, x>>)
      BY <1>7, <2>1, LastItem
    <2>4. Leads(s, <<i + 1, Append(k, f) \o Calls(8), <<>>>>, <<j, k, x>>)
      BY <1>7, <2>2, <2>3, LeadsOn DEF ReadTo, f
    <2>5. Leads(s, <<i + 1, Append(k, f), <<>>>>, <<j, k, x>>)
      <3>1. TokenAt(s, i + 1) # ")"  BY <2>2 DEF Starts, UnaryOpSet
      <3>2. CallStep(TokenAt(s, i + 1), i + 1, Behind(s, i + 1), k, f)
                = <<i + 1, Append(k, f) \o Calls(8), <<>>>>
        BY <1>9, <3>1 DEF CallStep, Assignment
      <3>3. QED  BY <1>9, <2>4, <3>2, CallLeads
    <2>6. QED  BY <1>12, <2>4, <2>5
  <1>15. n = 0 \/ n > 0  BY <1>3
  <1>16. QED  BY <1>13, <1>14, <1>15


-----------------------------------------------------------------------------
(* Every expression is read, by induction on its length.                    *)

\* How an expression of each form is written, and its priority: a variable or a
\* constant, ...
LEMMA LeafWritten ==
    ASSUME NEW x \in Trees, Len(x) = 1, x[1] \in {"a", "1"}
    PROVE  Tokens(x) = <<x[1]>> /\ PriorityOf(x) = 0
  <1>1. /\ x[1] # "=" /\ x[1] \notin UnaryOpSet /\ x[1] \notin BinOp
        /\ x[1] # "f(" /\ x[1] # "a["
    BY DEF UnaryOpSet, BinOp
  <1>2. Written(x) = <<x[1]>>  BY <1>1 DEF Written
  <1>3. PriorityOf(x) = 0  BY <1>1 DEF PriorityOf, Brackets
  <1>4. QED  BY <1>2, <1>3, TreeFacts

\* ... with a unary operator, ...
LEMMA UnaryWritten ==
    ASSUME NEW x \in Trees, Len(x) = 2, x[1] \in UnaryOpSet
    PROVE  Tokens(x) = <<x[1]>> \o In(x[2], 1) /\ PriorityOf(x) = 1
  <1>1. /\ x[1] # "=" /\ x[1] \notin {"a", "1"} /\ x[1] # "f(" /\ x[1] # "a[" /\ Len(x) # 3
    BY DEF UnaryOpSet
  <1>2. Written(x) = <<x[1]>> \o In(x[2], Unary)
    BY <1>1 DEF Written
  <1>3. PriorityOf(x) = 1  BY <1>1 DEF PriorityOf, Unary
  <1>4. QED  BY <1>2, <1>3, TreeFacts DEF Unary

\* ... with a binary operator, ...
LEMMA BinaryWritten ==
    ASSUME NEW x \in Trees, Len(x) = 3, x[1] \in BinOp
    PROVE  /\ Tokens(x) = In(x[2], Priority(x[1])) \o <<x[1]>> \o In(x[3], Priority(x[1]) - 1)
           /\ PriorityOf(x) = Priority(x[1])
  <1>1. /\ x[1] # "=" /\ x[1] \notin {"a", "1"} /\ x[1] # "f(" /\ x[1] # "a[" /\ Len(x) # 2
    BY DEF BinOp
  <1>2. Written(x) = In(x[2], Priority(x[1])) \o <<x[1]>> \o In(x[3], Priority(x[1]) - 1)
    BY <1>1 DEF Written
  <1>3. PriorityOf(x) = Priority(x[1])  BY <1>1 DEF PriorityOf
  <1>4. QED  BY <1>2, <1>3, TreeFacts

\* ... an assignment, ...
LEMMA AssignmentWritten ==
    ASSUME NEW x \in Trees, Len(x) = 3, x[1] = "="
    PROVE  Tokens(x) = In(x[2], 7) \o <<"=">> \o In(x[3], 7) /\ PriorityOf(x) = 8
  <1>1. /\ x[1] \notin UnaryOpSet /\ x[1] \notin BinOp /\ x[1] \notin {"a", "1"}
        /\ x[1] # "f(" /\ x[1] # "a["
    BY DEF UnaryOpSet, BinOp
  <1>2. Written(x) = In(x[2], Logic) \o <<"=">> \o In(x[3], Logic)
    BY <1>1 DEF Written
  <1>3. PriorityOf(x) = 8  BY <1>1 DEF PriorityOf, Assignment
  <1>4. QED  BY <1>2, <1>3, TreeFacts DEF Logic

\* ... a call or an index.
LEMMA BracketsWritten ==
    ASSUME NEW x \in Trees, x[1] \in {"f(", "a["}
    PROVE  /\ Tokens(x) = <<x[1]>> \o List(x, Separator(x)) \o <<Closing(x)>>
           /\ PriorityOf(x) = 0
  <1>1. /\ x[1] \notin UnaryOpSet /\ x[1] \notin BinOp /\ x[1] \notin {"a", "1"} /\ x[1] # "="
    BY DEF UnaryOpSet, BinOp
  <1>2. PriorityOf(x) = 0  BY <1>1 DEF PriorityOf, Brackets
  <1>3. CASE x[1] = "f("
    <2>1. Written(x) = <<"f(">> \o List(x, ",") \o <<")">>
      BY <1>1, <1>3 DEF Written
    <2>2. Separator(x) = "," /\ Closing(x) = ")"  BY <1>3 DEF Separator, Closing
    <2>3. QED  BY <1>2, <1>3, <2>1, <2>2, TreeFacts
  <1>4. CASE x[1] = "a["
    <2>1. Written(x) = <<"a[">> \o List(x, "][") \o <<"]">>
      BY <1>1, <1>4 DEF Written
    <2>2. Separator(x) = "][" /\ Closing(x) = "]"  BY <1>4 DEF Separator, Closing
    <2>3. QED  BY <1>2, <1>4, <2>1, <2>2, TreeFacts
  <1>5. QED  BY <1>2, <1>3, <1>4

\* Priorities are levels.
LEMMA PriorityTyped ==
    ASSUME NEW x \in Trees
    PROVE  PriorityOf(x) \in 0 .. 8
  <1>1. Formed(x)  BY TreeFacts
  <1>2. CASE Len(x) = 3 /\ x[1] \in BinOp
    <2>1. Priority(x[1]) \in 2 .. 7  BY <1>2, PriorityFacts DEF Binary
    <2>2. PriorityOf(x) = Priority(x[1])  BY <1>2, BinaryWritten
    <2>3. QED  BY <2>1, <2>2
  <1>3. CASE ~(Len(x) = 3 /\ x[1] \in BinOp)
    <2>1. PriorityOf(x) \in {0, 1, 8}
      BY <1>1, <1>3, LeafWritten, UnaryWritten, AssignmentWritten, BracketsWritten DEF Formed
    <2>2. QED  BY <2>1
  <1>4. QED  BY <1>2, <1>3

\* A text that begins with another begins as it does.
LEMMA BeginsLonger ==
    ASSUME NEW u \in Words, NEW v \in Words, Begins(u)
    PROVE  Begins(u \o v)
  <1> DEFINE uv == u \o v
  <1>1. Len(u) \in Nat /\ Len(v) \in Nat /\ Len(uv) = Len(u) + Len(v)
        /\ \A i \in 1 .. Len(u) : uv[i] = u[i]
    BY DEF Words
  <1> HIDE DEF uv
  <1>2. 1 \in 1 .. Len(u) /\ Len(uv) >= 1  BY <1>1 DEF Begins
  <1>3. Begins(uv)  BY <1>1, <1>2 DEF Begins
  <1>4. QED  BY <1>3 DEF uv

\* An operand, with parentheses if it needs them.
LEMMA InFacts ==
    ASSUME NEW x \in Trees, NEW level \in 1 .. 8
    PROVE  /\ In(x, level) \in Words /\ Len(In(x, level)) >= Len(Tokens(x))
           /\ Len(Tokens(x)) \in Nat
           /\ Begins(Tokens(x)) => Begins(In(x, level))
           /\ PriorityOf(x) <= level => In(x, level) = Tokens(x)
  <1> DEFINE t == Tokens(x)
             o == <<"(">>
             c == <<")">>
  <1>1. t \in Words /\ o \in Words /\ c \in Words /\ Len(o) = 1 /\ Len(c) = 1 /\ Begins(o)
    <2>1. t \in Words  BY TreeFacts
    <2>2. "(" \in Token /\ ")" \in Token /\ "(" \in Starts  BY DEF Token, Starts
    <2>3. o \in Words /\ c \in Words /\ Len(o) = 1 /\ Len(c) = 1 /\ o[1] = "("
      BY <2>2 DEF Words
    <2>4. QED  BY <2>1, <2>2, <2>3 DEF Begins
  <1>2. In(x, level) = IF PriorityOf(x) > level THEN o \o t \o c ELSE t  BY DEF In
  <1>3. PriorityOf(x) \in 0 .. 8  BY PriorityTyped
  <1> HIDE DEF t, o, c
  <1>4. Len(t) \in Nat /\ o \o t \in Words /\ Len(o \o t) = 1 + Len(t)
    <2>1. Len(t) \in Nat  BY <1>1 DEF Words
    <2>2. o \o t \in Words /\ Len(o \o t) = Len(o) + Len(t)
      BY <1>1, ConcatProperties DEF Words
    <2>3. QED  BY <1>1, <2>1, <2>2
  <1>5. o \o t \o c \in Words /\ Len(o \o t \o c) = Len(o \o t) + 1
    BY <1>1, <1>4, ConcatProperties DEF Words
  <1>6. Begins(o \o t \o c)  BY <1>1, <1>4, BeginsLonger
  <1>7. /\ In(x, level) \in Words /\ Len(In(x, level)) >= Len(t)
        /\ Begins(t) => Begins(In(x, level))
    <2>1. CASE PriorityOf(x) > level
      <3>1. In(x, level) = o \o t \o c  BY <1>2, <2>1
      <3>2. Len(o \o t \o c) = Len(t) + 2  BY <1>4, <1>5
      <3>3. QED  BY <1>4, <1>5, <1>6, <3>1, <3>2
    <2>2. CASE ~(PriorityOf(x) > level)
      <3>1. In(x, level) = t  BY <1>2, <2>2
      <3>2. QED  BY <1>1, <1>4, <3>1
    <2>3. QED  BY <2>1, <2>2
  <1>8. PriorityOf(x) <= level => In(x, level) = t  BY <1>2, <1>3
  <1>9. QED  BY <1>4, <1>7, <1>8 DEF t


\* Where its operators need no parentheses, x is read as it is written; ...
Lowest(x) == IF PriorityOf(x) > 1 THEN PriorityOf(x) ELSE 1
Own(x) ==
    /\ Begins(Tokens(x))
    /\ Parsed(Tokens(x), x, Lowest(x))
    /\ PriorityOf(x) \in Binary => Looped(Tokens(x), x, PriorityOf(x))

\* ... and then it is read everywhere.
Complete(x) ==
    /\ Known(x)
    /\ \A level \in 1 .. 8 : /\ Parsed(In(x, level), x, level)
                             /\ level \in Binary => Looped(In(x, level), x, level)

\* The levels above its own read x as it is, and those below in parentheses.
LEMMA OwnIsComplete ==
    ASSUME NEW x \in Trees, Own(x)
    PROVE  Complete(x)
  <1> DEFINE p == PriorityOf(x)
             t == Tokens(x)
             b == Lowest(x)
             u == <<"(">> \o t \o <<")">>
  <1>1. p \in 0 .. 8 /\ t \in Words  BY PriorityTyped, TreeFacts
  <1>2. b = IF p > 1 THEN p ELSE 1  BY DEF Lowest
  <1>3. Parsed(t, x, b) /\ (p \in Binary => Looped(t, x, p)) /\ Begins(t)  BY DEF Own
  <1>4. \A level \in 1 .. 8 : In(x, level) = IF p > level THEN u ELSE t  BY DEF In
  <1> HIDE DEF p, t, b, u
  <1>5. b \in 1 .. 8  BY <1>1, <1>2
  <1>6. \A level \in b .. 8 :
            Parsed(t, x, level) /\ (level \in Binary /\ level > b => Looped(t, x, level))
    BY <1>3, <1>5, Climbs
  <1>7. Parsed(t, x, 8)
    <2>1. 8 \in b .. 8  BY <1>5
    <2>2. QED  BY <1>6, <2>1
  <1>8. Parsed(u, x, 1)  BY <1>1, <1>7, ParensParsed DEF u
  <1>9. \A level \in 1 .. 8 :
            Parsed(u, x, level) /\ (level \in Binary /\ level > 1 => Looped(u, x, level))
    <2>1. 1 \in 1 .. 8  OBVIOUS
    <2>2. QED  BY <1>8, <2>1, Climbs
  <1>10. ASSUME NEW level \in 1 .. 8
         PROVE  /\ Parsed(In(x, level), x, level)
                /\ level \in Binary => Looped(In(x, level), x, level)
    <2>1. CASE p > level
      <3>1. In(x, level) = u  BY <1>4, <2>1
      <3>2. level \in Binary => level > 1  BY DEF Binary
      <3>3. QED  BY <1>9, <3>1, <3>2
    <2>2. CASE ~(p > level)
      <3>1. In(x, level) = t  BY <1>4, <2>2
      <3>2. level \in b .. 8  BY <1>1, <1>2, <2>2
      <3>3. ASSUME level \in Binary PROVE Looped(t, x, level)
        <4>1. CASE level > b  BY <1>6, <3>2, <3>3, <4>1
        <4>2. CASE level = b
          <5>1. p = level  BY <1>1, <1>2, <3>3, <4>2 DEF Binary
          <5>2. QED  BY <1>3, <3>3, <5>1
        <4>3. level > b \/ level = b  BY <1>5, <3>2
        <4>4. QED  BY <4>1, <4>2, <4>3
      <3>4. QED  BY <1>6, <3>1, <3>2, <3>3
    <2>3. QED  BY <2>1, <2>2
  <1>11. Known(x)  BY <1>3, <1>7 DEF Known, t
  <1>12. QED  BY <1>10, <1>11 DEF Complete

\* The forms of expressions: a variable or a constant, ...
LEMMA OwnLeaf ==
    ASSUME NEW x \in Trees, Len(x) = 1, x[1] \in {"a", "1"}
    PROVE  Own(x)
  <1>1. Tokens(x) = <<x[1]>> /\ PriorityOf(x) = 0  BY LeafWritten
  <1>2. Parsed(<<x[1]>>, x, 1)
    <2>1. x = <<x[1]>>  BY TreeFacts
    <2>2. QED  BY <2>1, LeafParsed
  <1>3. Lowest(x) = 1 /\ PriorityOf(x) \notin Binary  BY <1>1 DEF Lowest, Binary
  <1>4. Begins(<<x[1]>>)
    <2>1. x[1] \in Starts  BY DEF Starts
    <2>2. Len(<<x[1]>>) = 1 /\ <<x[1]>>[1] = x[1]  OBVIOUS
    <2>3. QED  BY <2>1, <2>2 DEF Begins
  <1>5. QED  BY <1>1, <1>2, <1>3, <1>4 DEF Own

\* ... a unary operator in front of an expression that is read, ...
LEMMA OwnUnary ==
    ASSUME NEW x \in Trees, Len(x) = 2, x[1] \in UnaryOpSet, Complete(x[2])
    PROVE  Own(x)
  <1> DEFINE v == In(x[2], 1)
             o == <<x[1]>>
  <1>1. Tokens(x) = o \o v /\ PriorityOf(x) = 1  BY UnaryWritten
  <1>2. x[2] \in Trees /\ x = <<x[1], x[2]>>
    <2>1. 2 \in 2 .. Len(x)  OBVIOUS
    <2>2. QED  BY <2>1, TreeFacts
  <1>3. v \in Words /\ Parsed(v, x[2], 1)
    <2>1. 1 \in 1 .. 8  OBVIOUS
    <2>2. QED  BY <1>2, <2>1, InFacts DEF Complete
  <1>4. Parsed(o \o v, x, 1)
    <2> HIDE DEF v
    <2>1. QED  BY <1>2, <1>3, UnaryParsed
  <1>5. Lowest(x) = 1 /\ PriorityOf(x) \notin Binary  BY <1>1 DEF Lowest, Binary
  <1>6. Begins(o \o v)
    <2>1. x[1] \in Starts /\ x[1] \in Token  BY DEF Starts, Token
    <2>2. Len(o) = 1 /\ o[1] = x[1] /\ o \in Words  BY <2>1 DEF Words
    <2> HIDE DEF o, v
    <2>3. QED  BY <1>3, <2>1, <2>2, BeginsLonger DEF Begins
  <1>7. QED  BY <1>1, <1>4, <1>5, <1>6 DEF Own

\* ... a binary operator between two of them, ...
LEMMA OwnBinary ==
    ASSUME NEW x \in Trees, Len(x) = 3, x[1] \in BinOp, Complete(x[2]), Complete(x[3])
    PROVE  Own(x)
  <1> DEFINE p == Priority(x[1])
             u == In(x[2], p)
             v == In(x[3], p - 1)
  <1>1. Tokens(x) = u \o <<x[1]>> \o v /\ PriorityOf(x) = p  BY BinaryWritten
  <1>2. p \in Binary /\ p \in 1 .. 8 /\ p - 1 \in 1 .. 8
    <2>1. p \in Binary  BY PriorityFacts
    <2>2. QED  BY <2>1 DEF Binary
  <1>3. x[2] \in Trees /\ x[3] \in Trees /\ x = <<x[1], x[2], x[3]>>
    <2>1. 2 \in 2 .. Len(x) /\ 3 \in 2 .. Len(x)  OBVIOUS
    <2>2. QED  BY <2>1, TreeFacts
  <1>4. u \in Words /\ v \in Words /\ Looped(u, x[2], p) /\ Parsed(v, x[3], p - 1)
    BY <1>2, <1>3, InFacts DEF Complete
  <1>5. Begins(u)  BY <1>2, <1>3, InFacts DEF Complete, Known
  <1>6. Looped(u \o <<x[1]>> \o v, x, p)
    <2> HIDE DEF u, v
    <2>1. QED  BY <1>3, <1>4, LoopGoesOn
  <1> HIDE DEF u, v, p
  <1>7. Parsed(u \o <<x[1]>> \o v, x, p)  BY <1>2, <1>6, LoopEnds
  <1>8. Begins(u \o <<x[1]>> \o v)
    <2> DEFINE o == <<x[1]>>
    <2>0. x[1] \in Token  BY DEF Token
    <2>1. o \in Words  BY <2>0 DEF Words
    <2> HIDE DEF o
    <2>2. u \o o \in Words  BY <1>4, <2>1, ConcatProperties DEF Words
    <2>3. Begins(u \o o)  BY <1>4, <1>5, <2>1, BeginsLonger
    <2>4. Begins(u \o o \o v)  BY <1>4, <2>2, <2>3, BeginsLonger
    <2>5. QED  BY <2>4 DEF o
  <1>9. Lowest(x) = p  BY <1>1, <1>2 DEF Lowest, Binary
  <1>10. QED  BY <1>1, <1>6, <1>7, <1>8, <1>9 DEF Own

\* ... an assignment, ...
LEMMA OwnAssignment ==
    ASSUME NEW x \in Trees, Len(x) = 3, x[1] = "=", IsTarget(x[2]), Complete(x[2]), Complete(x[3])
    PROVE  Own(x)
  <1> DEFINE u == In(x[2], 7)
             v == In(x[3], 7)
             o == <<"=">>
  <1>1. Tokens(x) = u \o o \o v /\ PriorityOf(x) = 8  BY AssignmentWritten
  <1>2. x[2] \in Trees /\ x[3] \in Trees /\ x = <<"=", x[2], x[3]>>
    <2>1. 2 \in 2 .. Len(x) /\ 3 \in 2 .. Len(x)  OBVIOUS
    <2>2. QED  BY <2>1, TreeFacts
  <1>3. u \in Words /\ v \in Words /\ Parsed(u, x[2], 7) /\ Parsed(v, x[3], 7)
    <2>1. 7 \in 1 .. 8  OBVIOUS
    <2>2. QED  BY <1>2, <2>1, InFacts DEF Complete
  <1>4. Begins(u)
    <2>1. 7 \in 1 .. 8  OBVIOUS
    <2>2. QED  BY <1>2, <2>1, InFacts DEF Complete, Known
  <1> HIDE DEF u, v
  <1>5. Parsed(u \o o \o v, x, 8)  BY <1>2, <1>3, AssignmentParsed
  <1>6. Begins(u \o o \o v)
    <2>1. o \in Words  BY DEF Words, Token
    <2> HIDE DEF o
    <2>2. u \o o \in Words  BY <1>3, <2>1, ConcatProperties DEF Words
    <2>3. Begins(u \o o)  BY <1>3, <1>4, <2>1, BeginsLonger
    <2>4. QED  BY <1>3, <2>2, <2>3, BeginsLonger
  <1>7. Lowest(x) = 8 /\ PriorityOf(x) \notin Binary  BY <1>1 DEF Lowest, Binary
  <1>8. QED  BY <1>1, <1>5, <1>6, <1>7 DEF Own

\* ... a call or an index.
LEMMA OwnBrackets ==
    ASSUME NEW x \in Trees, x[1] \in {"f(", "a["}, x[1] = "a[" => Len(x) >= 2,
           \A h \in 2 .. Len(x) : Complete(x[h]), List(x, Separator(x)) \in Words
    PROVE  Own(x)
  <1> DEFINE l == List(x, Separator(x))
             o == <<x[1]>>
             c == <<Closing(x)>>
  <1>1. Tokens(x) = o \o l \o c /\ PriorityOf(x) = 0  BY BracketsWritten
  <1>2. \A h \in 2 .. Len(x) : Known(x[h])  BY DEF Complete
  <1>3. Parsed(o \o l \o c, x, 1)  BY <1>2, BracketsParsed
  <1>4. Lowest(x) = 1 /\ PriorityOf(x) \notin Binary  BY <1>1 DEF Lowest, Binary
  <1>5. Begins(o \o l \o c)
    <2>1. x[1] \in Starts /\ x[1] \in Token /\ Closing(x) \in Token
      BY DEF Starts, Token, Closing
    <2>2. Len(o) = 1 /\ o[1] = x[1] /\ o \in Words /\ c \in Words /\ l \in Words
      BY <2>1 DEF Words
    <2> HIDE DEF o, l, c
    <2>3. Begins(o)  BY <2>1, <2>2 DEF Begins
    <2>4. o \o l \in Words  BY <2>2, ConcatProperties DEF Words
    <2>5. Begins(o \o l)  BY <2>2, <2>3, BeginsLonger
    <2>6. QED  BY <2>2, <2>4, <2>5, BeginsLonger
  <1>6. QED  BY <1>1, <1>3, <1>4, <1>5 DEF Own


\* Operands one after the other are a text.
LEMMA ListTyped ==
    ASSUME NEW x \in Trees, NEW separator \in Token
    PROVE  List(x, separator) \in Words
  <1>1. PICK first : Lists(x, separator, first)  BY ListExists
  <1>2. Len(x) - 1 \in 0 .. Len(x) - 1  BY TreeFacts
  <1>3. QED  BY <1>1, <1>2 DEF Lists

\* The operands of an expression are shorter than it.
LEMMA Shorter ==
    ASSUME NEW x \in Trees, NEW h \in 2 .. Len(x)
    PROVE  x[h] \in Trees /\ Len(Tokens(x[h])) \in Nat /\ Len(Tokens(x[h])) < Len(Tokens(x))
  <1> DEFINE y == x[h]
             ty == Tokens(y)
             tx == Tokens(x)
             n == Len(tx)
  <1>1. y \in Trees /\ Formed(x) /\ Len(x) \in Nat  BY TreeFacts
  <1>2. ty \in Words /\ tx \in Words /\ Len(ty) \in Nat /\ n \in Nat
    <2>1. ty \in Words /\ tx \in Words  BY <1>1, TreeFacts
    <2>2. QED  BY <2>1 DEF Words
  <1>3. ASSUME NEW u \in Words, NEW v \in Words PROVE /\ u \o v \in Words
                                                      /\ Len(u) \in Nat /\ Len(v) \in Nat
                                                      /\ Len(u \o v) = Len(u) + Len(v)
    BY ConcatProperties DEF Words
  <1>4. CASE Len(x) = 2 /\ x[1] \in UnaryOpSet
    <2> DEFINE o == <<x[1]>>
               u == In(y, 1)
    <2>1. h = 2  BY <1>4
    <2>2. tx = o \o u  BY <1>4, <2>1, UnaryWritten
    <2>3. u \in Words /\ Len(u) >= Len(ty)
      <3>1. 1 \in 1 .. 8  OBVIOUS
      <3>2. QED  BY <1>1, <3>1, InFacts
    <2>4. o \in Words /\ Len(o) = 1
      <3>1. x[1] \in Token  BY <1>4 DEF Token
      <3>2. QED  BY <3>1 DEF Words
    <2> HIDE DEF o, u, tx, ty, n
    <2>5. Len(tx) = 1 + Len(u) /\ Len(u) \in Nat  BY <1>3, <2>2, <2>3, <2>4
    <2>6. Len(ty) < Len(tx)  BY <1>2, <2>3, <2>5
    <2>7. QED  BY <1>1, <1>2, <2>6 DEF ty, tx
  <1>5. ASSUME NEW u \in Words, NEW v \in Words, NEW o, o \in Words, Len(o) = 1,
               tx = u \o o \o v, Len(u) >= Len(ty) \/ Len(v) >= Len(ty)
        PROVE  Len(ty) < Len(tx)
    <2> HIDE DEF tx, ty, n
    <2>1. u \o o \in Words /\ Len(u \o o) = Len(u) + 1  BY <1>3, <1>5
    <2>2. Len(tx) = Len(u \o o) + Len(v) /\ Len(u) \in Nat /\ Len(v) \in Nat
      BY <1>3, <1>5, <2>1
    <2>3. QED  BY <1>2, <1>5, <2>1, <2>2
  <1>6. CASE Len(x) = 3 /\ (x[1] \in BinOp \/ x[1] = "=")
    <2> DEFINE p == IF x[1] = "=" THEN 7 ELSE Priority(x[1])
               q == IF x[1] = "=" THEN 7 ELSE Priority(x[1]) - 1
               u == In(x[2], p)
               v == In(x[3], q)
               o == <<x[1]>>
    <2>1. "=" \notin BinOp  BY DEF BinOp
    <2>2. p \in 1 .. 8 /\ q \in 1 .. 8
      <3>1. CASE x[1] = "="  BY <3>1
      <3>2. CASE x[1] # "="
        <4>1. Priority(x[1]) \in 2 .. 7  BY <1>6, <3>2, PriorityFacts DEF Binary
        <4>2. QED  BY <3>2, <4>1
      <3>3. QED  BY <3>1, <3>2
    <2>3. tx = u \o o \o v
      <3>1. CASE x[1] = "="  BY <1>6, <3>1, AssignmentWritten
      <3>2. CASE x[1] # "="  BY <1>6, <3>2, BinaryWritten
      <3>3. QED  BY <3>1, <3>2
    <2>4. x[2] \in Trees /\ x[3] \in Trees
      <3>1. 2 \in 2 .. Len(x) /\ 3 \in 2 .. Len(x)  BY <1>6
      <3>2. QED  BY <3>1, TreeFacts
    <2> HIDE DEF p, q
    <2>5. u \in Words /\ v \in Words /\ Len(u) >= Len(Tokens(x[2])) /\ Len(v) >= Len(Tokens(x[3]))
      BY <2>2, <2>4, InFacts
    <2>6. o \in Words /\ Len(o) = 1
      <3>1. x[1] \in Token  BY <1>6 DEF Token
      <3>2. QED  BY <3>1 DEF Words
    <2>7. h = 2 \/ h = 3  BY <1>6
    <2>8. Len(u) >= Len(ty) \/ Len(v) >= Len(ty)  BY <2>5, <2>7
    <2> HIDE DEF o, u, v, tx, ty, n
    <2>9. Len(ty) < Len(tx)  BY <1>5, <2>3, <2>5, <2>6, <2>8
    <2>10. QED  BY <1>1, <1>2, <2>9 DEF ty, tx
  <1>7. CASE x[1] \in {"f(", "a["}
    <2> DEFINE l == List(x, Separator(x))
               o == <<x[1]>>
               c == <<Closing(x)>>
    <2>1. Separator(x) \in Token /\ Closing(x) \in Token /\ x[1] \in Token
      BY <1>7 DEF Separator, Closing, Token
    <2>2. tx = o \o l \o c  BY <1>7, BracketsWritten
    <2>3. l \in Words /\ Len(ty) <= Len(l)  BY <2>1, OperandsAreShorter
    <2>4. o \in Words /\ c \in Words /\ Len(o) = 1 /\ Len(c) = 1  BY <2>1 DEF Words
    <2> HIDE DEF o, l, c, tx, ty, n
    <2>5. o \o l \in Words /\ Len(o \o l) = 1 + Len(l) /\ Len(l) \in Nat  BY <1>3, <2>3, <2>4
    <2>6. Len(tx) = Len(o \o l) + 1  BY <1>3, <2>2, <2>4, <2>5
    <2>7. Len(ty) < Len(tx)  BY <1>2, <2>3, <2>5, <2>6
    <2>8. QED  BY <1>1, <1>2, <2>7 DEF ty, tx
  <1>8. Len(x) # 1  BY <1>1
  <1>9. QED  BY <1>1, <1>4, <1>6, <1>7, <1>8 DEF Formed

\* All the expressions are read as they are written.
LEMMA AllComplete ==
    ASSUME NEW x \in Trees
    PROVE  Complete(x)
  <1> DEFINE S == {n \in Nat : \A y \in Trees : Len(Tokens(y)) < n => Complete(y)}
  <1>1. ASSUME NEW y \in Trees PROVE Len(Tokens(y)) \in Nat
    <2> DEFINE t == Tokens(y)
    <2>1. t \in Words  BY TreeFacts
    <2> HIDE DEF t
    <2>2. Len(t) \in Nat  BY <2>1 DEF Words
    <2>3. QED  BY <2>2 DEF t
  <1>2. 0 \in S  BY <1>1
  <1>3. ASSUME NEW n \in Nat, n \in S PROVE n + 1 \in S
    <2> SUFFICES ASSUME NEW y \in Trees, Len(Tokens(y)) < n + 1 PROVE Own(y)
      BY OwnIsComplete
    <2>1. ASSUME NEW h \in 2 .. Len(y) PROVE Complete(y[h])
      <3>1. y[h] \in Trees /\ Len(Tokens(y[h])) \in Nat /\ Len(Tokens(y[h])) < Len(Tokens(y))
        BY Shorter
      <3>2. Len(Tokens(y[h])) < n  BY <1>1, <3>1
      <3>3. QED  BY <1>3, <3>1, <3>2
    <2>2. Formed(y)  BY TreeFacts
    <2>3. CASE Len(y) = 1 /\ y[1] \in {"a", "1"}  BY <2>3, OwnLeaf
    <2>4. CASE Len(y) = 2 /\ y[1] \in UnaryOpSet
      <3>1. 2 \in 2 .. Len(y)  BY <2>4
      <3>2. QED  BY <2>1, <2>4, <3>1, OwnUnary
    <2>5. CASE Len(y) = 3 /\ y[1] \in BinOp
      <3>1. 2 \in 2 .. Len(y) /\ 3 \in 2 .. Len(y)  BY <2>5
      <3>2. QED  BY <2>1, <2>5, <3>1, OwnBinary
    <2>6. CASE Len(y) = 3 /\ y[1] = "=" /\ IsTarget(y[2])
      <3>1. 2 \in 2 .. Len(y) /\ 3 \in 2 .. Len(y)  BY <2>6
      <3>2. QED  BY <2>1, <2>6, <3>1, OwnAssignment
    <2>7. CASE y[1] \in {"f(", "a["} /\ (y[1] = "a[" => Len(y) >= 2)
      <3>1. Separator(y) \in Token  BY DEF Separator, Token
      <3>2. List(y, Separator(y)) \in Words  BY <3>1, ListTyped
      <3>3. QED  BY <2>1, <2>7, <3>2, OwnBrackets
    <2>8. QED  BY <2>2, <2>3, <2>4, <2>5, <2>6, <2>7 DEF Formed
  <1>4. Nat \subseteq S
    <2> HIDE DEF S
    <2>1. QED  BY <1>2, <1>3, InductionOnSet
  <1>5. Len(Tokens(x)) + 1 \in S  BY <1>1, <1>4
  <1>6. Len(Tokens(x)) < Len(Tokens(x)) + 1  BY <1>1
  <1>7. QED  BY <1>5, <1>6


-----------------------------------------------------------------------------
(* The run of the parser.                                                   *)

Target == <<Len(source.toks), <<>>, source.tree>>
ToTheEnd == Leads(source.toks, <<pos, stack, value>>, Target)

\* The parse of a written expression leads to its end and to its tree.
ExprInv ==
    /\ source \in Source
    /\ source.tree # <<>> =>
           /\ outcome \in {"running", "done"}
           /\ ToTheEnd
           /\ outcome = "done" => <<pos, stack, value>> = Target

\* At first the parse is a call of the highest level in front of the whole text.
LEMMA InitExprInv == ExprInit => ExprInv
  <1> SUFFICES ASSUME ExprInit, source.tree # <<>>
               PROVE  outcome = "running" /\ ToTheEnd
    BY DEF ExprInit, ExprInv
  <1> DEFINE s == source.toks
             x == source.tree
  <1>1. x \in Trees /\ s = Tokens(x)  BY DEF ExprInit, Source
  <1>2. s \in Words /\ Len(s) \in Nat
    <2>1. s \in Words  BY <1>1, TreeFacts
    <2> HIDE DEF s
    <2>2. QED  BY <2>1 DEF Words
  <1>3. pos = 0 /\ stack = Calls(8) /\ value = <<>> /\ outcome = "running"
    BY DEF ExprInit, Assignment
  <1>4. Parsed(s, x, 8)  BY <1>1, AllComplete DEF Complete, Known
  <1> HIDE DEF s, x
  <1>5. Spans(s, s, 0, Len(s))  BY <1>2 DEF Spans
  <1>6. TokenAt(s, Len(s)) \in Follow(8)
    <2>1. TokenAt(s, Len(s)) = "eof"  BY <1>2 DEF TokenAt
    <2>2. 8 \in 2 .. 8  OBVIOUS
    <2>3. QED  BY <2>1, <2>2, FollowFacts DEF Ends
  <1>7. Reads(s, 8, x, 0, Len(s))
    <2>1. 0 \in Nat  OBVIOUS
    <2>2. QED  BY <1>2, <1>4, <1>5, <1>6, <2>1 DEF Parsed
  <1>8. <<>> \in Stacks /\ <<>> \o Calls(8) = Calls(8)
    <2>1. <<>> \in Stacks  BY EmptySeq DEF Stacks
    <2>2. \A i \in 1 .. 8 : Fun(8 + 1 - i) \in Frames
      <3>1. "none" \in Token \cup {"none"} /\ <<>> \in Seq(Trees)  BY EmptySeq
      <3>2. \A i \in 1 .. 8 : 8 + 1 - i \in 0 .. 8  OBVIOUS
      <3>3. QED  BY <3>1, <3>2, FunFacts
    <2>3. Calls(8) \in Seq(Frames)
      <3> DEFINE F(i) == Fun(8 + 1 - i)
      <3>1. \A i \in 1 .. 8 : F(i) \in Frames  BY <2>2
      <3>2. Calls(8) = [i \in 1 .. 8 |-> F(i)]  BY DEF Calls
      <3> HIDE DEF F
      <3>3. [i \in 1 .. 8 |-> F(i)] \in Seq(Frames)  BY <3>1
      <3>4. QED  BY <3>2, <3>3
    <2>4. QED  BY <2>1, <2>3, ConcatEmptySeq
  <1>9. Leads(s, <<0, <<>> \o Calls(8), <<>>>>, <<Len(s), <<>>, x>>)
    BY <1>7, <1>8 DEF Reads
  <1>10. Leads(s, <<pos, stack, value>>, <<Len(s), <<>>, x>>)  BY <1>3, <1>8, <1>9
  <1>11. QED  BY <1>3, <1>10 DEF ToTheEnd, Target, s, x

\* Where there is no step the end is reached.
LEMMA AtTheEnd ==
    ASSUME ToTheEnd, After(source.toks, pos, stack, value) = <<pos, stack, value>>
    PROVE  <<pos, stack, value>> = Target
  BY LeadsNoFurther DEF ToTheEnd

\* ... and with no function under way there is no step.
LEMMA EmptyStack ==
    ASSUME ToTheEnd, stack = <<>>, source.tree # <<>>
    PROVE  <<pos, stack, value>> = Target /\ value # <<>>
  <1>1. Stuck(TokenAt(source.toks, pos), stack, value)  BY DEF Stuck
  <1>2. After(source.toks, pos, stack, value) = <<pos, stack, value>>  BY <1>1 DEF After
  <1>3. <<pos, stack, value>> = Target  BY <1>2, AtTheEnd
  <1>4. value = source.tree  BY <1>3 DEF Target
  <1>5. QED  BY <1>3, <1>4

\* There is only one step, so the end that the parse leads to stays ahead of it.
LEMMA MovesKeepTheEnd ==
    ASSUME ToTheEnd, Moves, source.tree # <<>>
    PROVE  ToTheEnd'
  <1> DEFINE s == source.toks
  <1>1. stack # <<>>  BY EmptyStack DEF Moves
  <1>2. <<pos, stack, value>> # Target  BY <1>1 DEF Target
  <1>3. Leads(s, After(s, pos, stack, value), Target)
    BY <1>2, LeadsByStep DEF ToTheEnd
  <1>4. source' = source /\ <<pos', stack', value'>> = After(s, pos, stack, value)
    BY DEF Moves
  <1>5. Target' = Target  BY <1>4 DEF Target
  <1>6. QED  BY <1>3, <1>4, <1>5 DEF ToTheEnd

\* Each action takes the one step there is, and none of them fails.
LEMMA NextExprInv == ExprInv /\ [ExprNext]_exprVars => ExprInv'
  <1> SUFFICES ASSUME ExprInv, [ExprNext]_exprVars PROVE ExprInv'
    OBVIOUS
  <1>1. CASE UNCHANGED exprVars
    BY <1>1 DEF exprVars, ExprInv, ToTheEnd, Target
  <1>2. CASE ExprNext
    <2>1. source' = source
      BY <1>2 DEF ExprNext, Eat, NoEat, Error, UnaryOp, FinishUnary, Leaf, Open, OpenCall,
            NoOperand, Argument, EndOfArguments, NextArgument, NextIndex, Close, RightOperand,
            Operand, NoMoreOperands, AssignTo, NotATarget, FinishAssign, Finish
    <2>2. CASE source.tree = <<>>  BY <2>1, <2>2 DEF ExprInv
    <2>3. CASE source.tree # <<>>
      <3>1. ToTheEnd  BY <2>3 DEF ExprInv
      <3>2. ASSUME Moves PROVE ExprInv'
        <4>1. outcome' = "running" /\ ToTheEnd'
          BY <2>3, <3>1, <3>2, MovesKeepTheEnd DEF Moves
        <4>2. QED  BY <2>1, <4>1 DEF ExprInv
      <3>3. CASE UnaryOp \/ Leaf \/ Open \/ OpenCall \/ Argument \/ EndOfArguments
        <4>1. value = <<>>
          BY <3>3 DEF UnaryOp, Leaf, Open, OpenCall, Argument, EndOfArguments, Calling
        <4>2. stack # <<>>  BY <2>3, <3>1, <4>1, EmptyStack
        <4>3. QED  BY <3>2, <3>3, <4>2, CallsMove
      <3>4. CASE FinishUnary \/ NextArgument \/ NextIndex \/ Close \/ RightOperand
                   \/ NoMoreOperands \/ AssignTo \/ FinishAssign
        BY <3>2, <3>4, ReturnsMove
      <3>5. CASE NoOperand \/ NotATarget
        <4>1. stack # <<>>
          <5>1. CASE NoOperand
            <6>1. value = <<>>  BY <5>1 DEF NoOperand, Calling
            <6>2. QED  BY <2>3, <3>1, <6>1, EmptyStack
          <5>2. CASE NotATarget  BY <5>2 DEF NotATarget, Returning
          <5>3. QED  BY <3>5, <5>1, <5>2
        <4>2. Fails  BY <3>5, <4>1, ErrorsFail
        <4>3. <<pos, stack, value>> = Target  BY <3>1, <4>2, AtTheEnd DEF Fails
        <4>4. stack = <<>>  BY <4>3 DEF Target
        <4>5. QED  BY <4>1, <4>4
      <3>6. CASE Finish
        <4>1. stack = <<>> /\ outcome' = "done"
              /\ pos' = pos /\ stack' = stack /\ value' = value
          BY <3>6 DEF Finish, NoEat
        <4>2. <<pos, stack, value>> = Target  BY <2>3, <3>1, <4>1, EmptyStack
        <4>3. Target' = Target  BY <2>1 DEF Target
        <4>4. <<pos, stack, value>>' = Target' /\ ToTheEnd'
          BY <2>1, <3>1, <4>1, <4>2, <4>3 DEF ToTheEnd
        <4>5. QED  BY <2>1, <4>1, <4>4 DEF ExprInv
      <3>7. QED  BY <1>2, <3>3, <3>4, <3>5, <3>6 DEF ExprNext
    <2>4. QED  BY <2>2, <2>3
  <1>3. QED  BY <1>1, <1>2

\* An expression of any depth that is written with the parentheses that the README's
\* table of priorities asks for (parser.cpp's parse functions, one for each priority) is
\* read to its end, and the tree it yields is the one it was written for.
THEOREM ExpressionsMeanTheTable == ExprSpec => []MeansWhatTheTableSays
  <1>1. ExprInv => MeansWhatTheTableSays
    BY DEF ExprInv, MeansWhatTheTableSays, Target
  <1>2. QED  BY <1>1, InitExprInv, NextExprInv, PTL DEF ExprSpec
=============================================================================
