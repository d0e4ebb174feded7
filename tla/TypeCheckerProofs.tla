-------------------------- MODULE TypeCheckerProofs --------------------------
(******************************************************************************)
(* Proofs about TypeChecker and ExprBuilder, for expressions of any size over *)
(* any choice of types, widths, literals and operators.  The type checker is  *)
(* type correct, the sign of a constant that was never initialised stays among*)
(* constants, and matchType falls off its end only where an operator has two  *)
(* constants.  The values that the builder emits are what the source means    *)
(* where nothing is negative, constants are folded to what the program would  *)
(* compute, and expressions over integers are accepted by LLVM.               *)
(******************************************************************************)
EXTENDS ExprBuilder, Induction, TLAPS

-----------------------------------------------------------------------------
(* The inductive invariant: an expression waits for one operator only, so what *)
(* a visitor overwrites in its operands is seen by no other that waits.       *)

OpenDistinct == \A j, k \in DOMAIN open : open[j] = open[k] => j = k

IInv ==
    /\ TypeOK
    /\ OpenDistinct
    /\ GarbageStaysInConstants
    /\ FallsOffOnConstantsOnly

\* What an attribute may be, and the promise about that of an expression with a
\* variable or call in it.
AttrType == [type : ValueType \cup {"Void"}, sign : BOOLEAN]
Honest(a) == a.sign = (a.type \in Signed)

\* The nodes of tree are those of the expression, up to types and signs.
SameShape(tree) ==
    /\ tree \in Seq(NodeType) /\ Len(tree) = Len(nodes)
    /\ \A i \in Ids : /\ tree[i].kids = nodes[i].kids
                      /\ tree[i].kind = nodes[i].kind
                      /\ tree[i].const = nodes[i].const

\* A node with the type and sign of a.
Retyped(n, a) == [n EXCEPT !.type = a.type, !.sign = a.sign]

-----------------------------------------------------------------------------
(* Sequences and nodes.                                                     *)

\* Append, by position.
LEMMA AppendAt ==
    ASSUME NEW S, NEW s \in Seq(S), NEW x \in S
    PROVE  /\ Append(s, x) \in Seq(S)
           /\ Len(Append(s, x)) = Len(s) + 1
           /\ \A i \in 1 .. Len(s) : Append(s, x)[i] = s[i]
           /\ Append(s, x)[Len(s) + 1] = x
  OBVIOUS

\* A prefix, by position.
LEMMA PrefixAt ==
    ASSUME NEW S, NEW s \in Seq(S), NEW m \in 0 .. Len(s)
    PROVE  /\ SubSeq(s, 1, m) \in Seq(S)
           /\ Len(SubSeq(s, 1, m)) = m
           /\ \A i \in 1 .. m : SubSeq(s, 1, m)[i] = s[i]
  OBVIOUS

\* A sequence over a set is one over a larger set.
LEMMA SeqMonotone ==
    ASSUME NEW S, NEW T, S \subseteq T, NEW s \in Seq(S)
    PROVE  s \in Seq(T)
  <1>1. \A i \in 1 .. Len(s) : s[i] \in T
    OBVIOUS
  <1>2. QED  BY <1>1

\* The fields of a node, and what changes with its type and sign.
LEMMA NodeFields ==
    ASSUME NEW n \in NodeType
    PROVE  /\ n.kind \in {"IdRef", "Number", "IdIndexedRef", "Call", "Unary", "Binary"}
           /\ n.kids \in Seq(Nat) /\ n.const \in BOOLEAN
           /\ Attr(n) \in AttrType
           /\ Attr(n).type = n.type /\ Attr(n).sign = n.sign
  BY DEF NodeType, Attr, AttrType

\* A leaf is a node.
LEMMA LeafIsNode ==
    ASSUME NEW kind \in {"IdRef", "Number", "IdIndexedRef", "Call", "Unary", "Binary"},
           NEW t \in ValueType \cup {"Void"}
    PROVE  /\ Leaf(kind, t) \in NodeType
           /\ Leaf(kind, t).kids = <<>> /\ Leaf(kind, t).type = t
           /\ Leaf(kind, t).sign = (t \in Signed) /\ Leaf(kind, t).const = FALSE
  BY DEF Leaf, NodeType

\* A node that gets another type and sign.
LEMMA RetypedNode ==
    ASSUME NEW n \in NodeType, NEW a \in AttrType
    PROVE  /\ Retyped(n, a) \in NodeType /\ Retyped(n, a).kids = n.kids
           /\ Retyped(n, a).kind = n.kind /\ Retyped(n, a).const = n.const
  BY DEF NodeType, AttrType, Retyped

\* A leaf has the sign of its type.
LEMMA HonestLeaf ==
    ASSUME NEW kind, NEW t
    PROVE  Honest(Attr(Leaf(kind, t)))
  BY Zenon DEF Honest, Attr, Leaf

\* A node that gets operands.
LEMMA OverNode ==
    ASSUME NEW n \in NodeType, NEW kids \in Seq(Nat),
           NEW op \in {"", "any", "Not"} \cup ValueType \cup BinaryOp
    PROVE  /\ Over(n, op, kids) \in NodeType /\ Over(n, op, kids).kids = kids
           /\ Over(n, op, kids).kind = n.kind /\ Over(n, op, kids).const = n.const
           /\ Attr(Over(n, op, kids)) = Attr(n)
  BY DEF NodeType, Attr, Over

\* A leaf that gets a sign and becomes constant.
LEMMA SignedLeaf ==
    ASSUME NEW kind \in {"IdRef", "Number", "IdIndexedRef", "Call", "Unary", "Binary"},
           NEW a \in AttrType, NEW c \in BOOLEAN
    PROVE  /\ WithSign(kind, a, c) \in NodeType /\ WithSign(kind, a, c).kind = kind
           /\ WithSign(kind, a, c).const = c /\ Attr(WithSign(kind, a, c)) = a
  <1>1. Leaf(kind, a.type) \in NodeType
    BY LeafIsNode DEF AttrType
  <1>2. QED  BY <1>1 DEF NodeType, AttrType, Leaf, Attr, WithSign

-----------------------------------------------------------------------------
(* A visitor returns.                                                       *)

\* Whatever visitor returns, the invariant is kept if the node it adds is honest or
\* constant, if it changes only the operands it takes, and if it notes that matchType
\* fell off its end only for a constant.
LEMMA ReturnKeeps ==
    ASSUME IInv, NEW tree, SameShape(tree), NEW node \in NodeType, NEW n \in 0 .. 2,
           n <= Len(open), Return(tree, node, n),
           \A k \in DOMAIN node.kids : node.kids[k] \in Ids,
           \A k \in 1 .. Len(open) - n : tree[open[k]] = nodes[open[k]],
           ~node.const => Honest(Attr(node)),
           fell' \in BOOLEAN,
           fell' => fell \/ (node.kind = "Binary" /\ node.const)
    PROVE  IInv'
  <1> DEFINE left == OpenButLast(n)
             new == Len(nodes) + 1
  <1>1. /\ nodes \in Seq(NodeType) /\ open \in Seq(Ids) /\ Len(nodes) \in Nat
        /\ Len(open) \in Nat
    BY DEF IInv, TypeOK
  <1>2. /\ left \in Seq(Ids) /\ Len(left) = Len(open) - n
        /\ \A k \in 1 .. Len(open) - n : left[k] = open[k]
    <2>1. Len(open) - n \in 0 .. Len(open)
      BY <1>1
    <2>2. QED  BY <1>1, <2>1, PrefixAt DEF OpenButLast
  <1>3. /\ nodes' \in Seq(NodeType) /\ Len(nodes') = new
        /\ \A i \in Ids : nodes'[i] = tree[i]
        /\ nodes'[new] = node
    <2>1. nodes' = Append(tree, node) /\ tree \in Seq(NodeType) /\ Len(tree) = Len(nodes)
      BY DEF Return, SameShape
    <2>2. QED  BY <2>1, AppendAt DEF Ids
  <1>4. Ids' = 1 .. new /\ Ids \subseteq Ids' /\ new \in Ids' /\ new \notin Ids
    BY <1>1, <1>3 DEF Ids
  <1>5. /\ open' \in Seq(Ids') /\ Len(open') = Len(open) - n + 1
        /\ \A k \in 1 .. Len(open) - n : open'[k] = open[k]
        /\ open'[Len(open) - n + 1] = new
    <2>1. open' = Append(left, new)
      BY DEF Return
    <2>2. left \in Seq(Ids')
      BY <1>2, <1>4, SeqMonotone
    <2>3. QED  BY <1>2, <1>4, <2>1, <2>2, AppendAt
  <1>6. DOMAIN open' = 1 .. Len(open) - n + 1 /\ DOMAIN open = 1 .. Len(open)
    BY <1>1, <1>5
  <1>7. \A k \in DOMAIN open' : k = Len(open) - n + 1 \/ k \in 1 .. Len(open) - n
    BY <1>1, <1>6
  <1>8. \A k \in 1 .. Len(open) - n : k \in DOMAIN open /\ open[k] \in Ids
    BY <1>1, <1>6
  <1>9. TypeOK'
    <2>1. \A i \in Ids' : i = new \/ i \in Ids
      BY <1>1, <1>4 DEF Ids
    <2>2. \A i \in Ids' : \A k \in DOMAIN nodes'[i].kids : nodes'[i].kids[k] \in 1 .. i - 1
      <3> SUFFICES ASSUME NEW i \in Ids', NEW k \in DOMAIN nodes'[i].kids
                   PROVE  nodes'[i].kids[k] \in 1 .. i - 1
        OBVIOUS
      <3>1. CASE i = new
        BY <1>1, <1>3, <3>1 DEF Ids
      <3>2. CASE i \in Ids
        <4>1. nodes'[i].kids = nodes[i].kids
          BY <1>3, <3>2 DEF SameShape
        <4>2. QED  BY <3>2, <4>1 DEF IInv, TypeOK
      <3>3. QED  BY <2>1, <3>1, <3>2
    <2>3. status' \in {"checking", "emitting", "done", "assert", "invalid"}
      BY DEF IInv, TypeOK, Return
    <2>4. QED  BY <1>3, <1>5, <2>2, <2>3 DEF TypeOK
  <1>10. OpenDistinct'
    <2> SUFFICES ASSUME NEW j \in DOMAIN open', NEW k \in DOMAIN open', open'[j] = open'[k]
                 PROVE  j = k
      BY DEF OpenDistinct
    <2>1. CASE j \in 1 .. Len(open) - n /\ k \in 1 .. Len(open) - n
      BY <1>5, <1>8, <2>1 DEF IInv, OpenDistinct
    <2>2. CASE j = Len(open) - n + 1 /\ k \in 1 .. Len(open) - n
      BY <1>4, <1>5, <1>8, <2>2
    <2>3. CASE j \in 1 .. Len(open) - n /\ k = Len(open) - n + 1
      BY <1>4, <1>5, <1>8, <2>3
    <2>4. QED  BY <1>7, <2>1, <2>2, <2>3
  <1>11. GarbageStaysInConstants'
    <2> SUFFICES ASSUME NEW k \in DOMAIN open', ~nodes'[open'[k]].const
                 PROVE  nodes'[open'[k]].sign = (nodes'[open'[k]].type \in Signed)
      BY DEF GarbageStaysInConstants
    <2>1. CASE k \in 1 .. Len(open) - n
      <3>1. nodes'[open'[k]] = nodes[open[k]]
        BY <1>3, <1>5, <1>8, <2>1
      <3>2. QED  BY <1>8, <2>1, <3>1 DEF IInv, GarbageStaysInConstants
    <2>2. CASE k = Len(open) - n + 1
      <3>1. nodes'[open'[k]] = node
        BY <1>3, <1>5, <2>2
      <3>2. QED  BY <3>1, NodeFields DEF Honest
    <2>3. QED  BY <1>7, <2>1, <2>2
  <1>12. FallsOffOnConstantsOnly'
    <2> SUFFICES ASSUME fell'
                 PROVE  \E i \in Ids' : nodes'[i].kind = "Binary" /\ nodes'[i].const
      BY DEF FallsOffOnConstantsOnly
    <2>1. CASE fell
      <3>1. PICK i \in Ids : nodes[i].kind = "Binary" /\ nodes[i].const
        BY <2>1 DEF IInv, FallsOffOnConstantsOnly
      <3>2. nodes'[i].kind = "Binary" /\ nodes'[i].const
        BY <1>3, <3>1 DEF SameShape
      <3>3. QED  BY <1>4, <3>2
    <2>2. CASE node.kind = "Binary" /\ node.const
      BY <1>3, <1>4, <2>2
    <2>3. QED  BY <2>1, <2>2
  <1>13. QED  BY <1>9, <1>10, <1>11, <1>12 DEF IInv

-----------------------------------------------------------------------------
(* matchType.                                                               *)

\* matchType gives operands types and signs, and the caller believes one that an
\* operand had.
LEMMA MatchFacts ==
    ASSUME NEW a \in AttrType, NEW b \in AttrType, NEW m \in Match(a, b)
    PROVE  m.l \in AttrType /\ m.r \in AttrType /\ m.by \in {a, b}
  <1>1. Overwrite(a, b) \in AttrType /\ Overwrite(b, a) \in AttrType
    BY DEF Overwrite, AttrType
  <1>2. CASE a.type = b.type
    BY <1>2 DEF Match
  <1>3. CASE a.type # b.type /\ FallsOff(a, b)
    BY <1>3 DEF Match
  <1>4. CASE a.type # b.type /\ ~FallsOff(a, b) /\ LeftWins(a, b)
    BY <1>1, <1>4 DEF Match
  <1>5. CASE a.type # b.type /\ ~FallsOff(a, b) /\ ~LeftWins(a, b)
    BY <1>1, <1>5 DEF Match
  <1>6. QED  BY <1>2, <1>3, <1>4, <1>5

\* There is no pair of different unsigned types of the same size, so operands whose
\* signs are those of their types never make it fall off its end.
LEMMA HonestPairMatches ==
    ASSUME NEW a \in AttrType, NEW b \in AttrType, Honest(a), Honest(b), ~HasNoSize(a, b)
    PROVE  ~FallsOff(a, b)
  <1> SUFFICES ASSUME FallsOff(a, b)
               PROVE  FALSE
    OBVIOUS
  <1>1. a.type # b.type /\ ~IsFP(a.type) /\ ~IsFP(b.type) /\ ~a.sign /\ ~b.sign
        /\ Size[a.type] = Size[b.type]
    BY DEF FallsOff
  <1>2. a.type # "Void" /\ b.type # "Void"
    BY <1>1 DEF HasNoSize
  <1>3. a.type \in IntType \ Signed /\ b.type \in IntType \ Signed
    BY <1>1, <1>2 DEF AttrType, ValueType, IsFP, Honest
  <1>4. QED  BY <1>1, <1>3, ConstantsAssumption

\* A pair of operands that is typed becomes an honest or constant expression.
LEMMA TypedKeeps ==
    ASSUME IInv, Len(open) >= 2, NEW op \in BinaryOp, NEW l, NEW r, NEW m,
           l = open[Len(open) - 1], r = open[Len(open)],
           m.l \in AttrType, m.r \in AttrType, m.by \in AttrType,
           Typed(op, l, r, m),
           ~(nodes[l].const /\ nodes[r].const) => Honest(m.by),
           fell' \in BOOLEAN,
           fell' => fell \/ (nodes[l].const /\ nodes[r].const)
    PROVE  IInv'
  <1> DEFINE tree == [nodes EXCEPT ![l].type = m.l.type, ![l].sign = m.l.sign,
                                   ![r].type = m.r.type, ![r].sign = m.r.sign]
             bare == WithSign("Binary", m.by, nodes[l].const /\ nodes[r].const)
             node == Over(bare, op, <<l, r>>)
  <1> HIDE DEF tree, bare, node
  <1>1. /\ nodes \in Seq(NodeType) /\ open \in Seq(Ids) /\ Len(nodes) \in Nat
        /\ Len(open) \in Nat /\ DOMAIN open = 1 .. Len(open)
    BY DEF IInv, TypeOK
  <1>2. l \in Ids /\ r \in Ids /\ l # r
    <2>1. Len(open) \in DOMAIN open /\ Len(open) - 1 \in DOMAIN open
      BY <1>1
    <2>0. \A x \in Nat : x # x - 1
      OBVIOUS
    <2>2. Len(open) # Len(open) - 1
      BY <1>1, <2>0
    <2>3. l \in Ids /\ r \in Ids
      BY <1>1, <2>1
    <2>4. l # r
      BY <2>1, <2>2 DEF IInv, OpenDistinct
    <2>5. QED  BY <2>3, <2>4
  <1>3. Ids \subseteq Nat /\ DOMAIN nodes = Ids /\ \A i \in Ids : nodes[i] \in NodeType
    BY <1>1 DEF Ids
  <1>4. /\ tree = [i \in Ids |-> tree[i]]
        /\ \A i \in Ids \ {l, r} : tree[i] = nodes[i]
        /\ tree[l] = Retyped(nodes[l], m.l)
        /\ tree[r] = Retyped(nodes[r], m.r)
    BY <1>2, <1>3 DEF tree, Retyped
  <1>5. SameShape(tree)
    <2>1. \A i \in Ids \ {l, r} :
              /\ tree[i] \in NodeType /\ tree[i].kids = nodes[i].kids
              /\ tree[i].kind = nodes[i].kind /\ tree[i].const = nodes[i].const
      BY <1>3, <1>4
    <2>6. /\ tree[l] \in NodeType /\ tree[l].kids = nodes[l].kids
          /\ tree[l].kind = nodes[l].kind /\ tree[l].const = nodes[l].const
      <3>1. nodes[l] \in NodeType /\ m.l \in AttrType
        BY <1>2, <1>3
      <3>2. QED  BY <1>4, <3>1, RetypedNode
    <2>7. /\ tree[r] \in NodeType /\ tree[r].kids = nodes[r].kids
          /\ tree[r].kind = nodes[r].kind /\ tree[r].const = nodes[r].const
      <3>1. nodes[r] \in NodeType /\ m.r \in AttrType
        BY <1>2, <1>3
      <3>2. QED  BY <1>4, <3>1, RetypedNode
    <2>2. \A i \in Ids : /\ tree[i] \in NodeType /\ tree[i].kids = nodes[i].kids
                         /\ tree[i].kind = nodes[i].kind /\ tree[i].const = nodes[i].const
      BY <2>1, <2>6, <2>7
    <2>3. tree \in [1 .. Len(nodes) -> NodeType]
      BY <1>4, <2>2 DEF Ids
    <2>4. tree \in Seq(NodeType) /\ Len(tree) = Len(nodes)
      BY <1>1, <2>3
    <2>5. QED  BY <2>2, <2>4 DEF SameShape
  <1>6. /\ node \in NodeType /\ node.kind = "Binary" /\ node.kids = <<l, r>>
        /\ node.const = (nodes[l].const /\ nodes[r].const)
        /\ Attr(node) = m.by
    <2>1. <<l, r>> \in Seq(Nat) /\ (nodes[l].const /\ nodes[r].const) \in BOOLEAN
      BY <1>2, <1>3
    <2>2. /\ bare \in NodeType /\ bare.kind = "Binary" /\ Attr(bare) = m.by
          /\ bare.const = (nodes[l].const /\ nodes[r].const)
      BY <2>1, SignedLeaf DEF bare
    <2>3. op \in {"", "any", "Not"} \cup ValueType \cup BinaryOp
      OBVIOUS
    <2>4. /\ node \in NodeType /\ node.kind = bare.kind /\ node.kids = <<l, r>>
          /\ node.const = bare.const /\ Attr(node) = Attr(bare)
      BY <2>1, <2>2, <2>3, OverNode DEF node
    <2>5. QED  BY <2>2, <2>4, Zenon
  <1>7. \A k \in DOMAIN node.kids : node.kids[k] \in Ids
    BY <1>2, <1>6
  <1>8. \A k \in 1 .. Len(open) - 2 : tree[open[k]] = nodes[open[k]]
    <2> SUFFICES ASSUME NEW k \in 1 .. Len(open) - 2
                 PROVE  tree[open[k]] = nodes[open[k]]
      OBVIOUS
    <2>0. \A n \in Nat : \A j \in 1 .. n - 2 : j \in 1 .. n /\ j # n /\ j # n - 1
      OBVIOUS
    <2>1. k \in DOMAIN open /\ k # Len(open) /\ k # Len(open) - 1
      BY <1>1, <2>0
    <2>2. Len(open) \in DOMAIN open /\ Len(open) - 1 \in DOMAIN open
      BY <1>1
    <2>3. open[k] \in Ids /\ open[k] # l /\ open[k] # r
      BY <1>1, <2>1, <2>2 DEF IInv, OpenDistinct
    <2>4. QED  BY <1>4, <2>3
  <1>9. Return(tree, node, 2)
    BY DEF Typed, tree, bare, node
  <1>10. QED
    <2>1. fell' => fell \/ (node.kind = "Binary" /\ node.const)
      BY <1>6
    <2>2. ~node.const => Honest(Attr(node))
      BY <1>6
    <2>3. 2 \in 0 .. 2
      OBVIOUS
    <2>4. QED  BY <1>5, <1>6, <1>7, <1>8, <1>9, <2>1, <2>2, <2>3, ReturnKeeps

-----------------------------------------------------------------------------
(* The actions.                                                             *)

\* The tree itself has its shape, and what may be said of the next node and of a
\* waiting expression.
LEMMA CheckingFacts ==
    ASSUME IInv, Checking
    PROVE  /\ SameShape(nodes)
           /\ Len(nodes) + 1 \in 1 .. MaxNodes
           /\ Len(open) \in Nat
           /\ \A k \in 1 .. Len(open) :
                  /\ open[k] \in Ids /\ nodes[open[k]] \in NodeType
                  /\ ~nodes[open[k]].const => Honest(Attr(nodes[open[k]]))
  <1>1. /\ nodes \in Seq(NodeType) /\ Len(nodes) \in Nat
        /\ open \in Seq(Ids) /\ Len(open) \in Nat /\ DOMAIN open = 1 .. Len(open)
    BY DEF IInv, TypeOK
  <1>2. Len(nodes) + 1 \in 1 .. MaxNodes
    BY <1>1, ConstantsAssumption DEF Checking
  <1>3. \A k \in 1 .. Len(open) : open[k] \in Ids /\ nodes[open[k]] \in NodeType
    BY <1>1 DEF Ids
  <1>4. \A k \in 1 .. Len(open) :
            ~nodes[open[k]].const => Honest(Attr(nodes[open[k]]))
    BY <1>1, <1>3 DEF IInv, GarbageStaysInConstants, Honest, Attr
  <1>5. QED  BY <1>1, <1>2, <1>3, <1>4 DEF SameShape

\* A visitor of a leaf, whose node is constant or has the sign of its type.
LEMMA LeafReturnKeeps ==
    ASSUME IInv, Checking, NEW node \in NodeType,
           Return(nodes, node, 0), UNCHANGED fell,
           node.kids = <<>>, node.const \/ Honest(Attr(node))
    PROVE  IInv'
  <1>1. SameShape(nodes)
    BY CheckingFacts
  <1>2. \A k \in DOMAIN node.kids : node.kids[k] \in Ids
    OBVIOUS
  <1>3. /\ 0 \in 0 .. 2 /\ 0 <= Len(open)
        /\ fell' \in BOOLEAN /\ (fell' => fell)
    BY CheckingFacts DEF IInv, TypeOK
  <1>4. QED  BY <1>1, <1>2, <1>3, ReturnKeeps

\* The last operand, where there is one.
LEMMA LastOperand ==
    ASSUME IInv, Checking, open # <<>>
    PROVE  /\ 1 <= Len(open) /\ open[Len(open)] \in Ids
           /\ nodes[open[Len(open)]] \in NodeType
           /\ ~nodes[open[Len(open)]].const => Honest(Attr(nodes[open[Len(open)]]))
  <1>1. open \in Seq(Ids)
    BY DEF IInv, TypeOK
  <1>2. Len(open) \in 1 .. Len(open)
    BY <1>1
  <1>3. QED  BY <1>2, CheckingFacts

\* A visitor of an expression over one operand, whose node is constant or has the sign
\* of its type.
LEMMA OperandReturnKeeps ==
    ASSUME IInv, Checking, NEW node \in NodeType, open # <<>>,
           Return(nodes, node, 1), UNCHANGED fell,
           node.kids = <<open[Len(open)]>>, node.const \/ Honest(Attr(node))
    PROVE  IInv'
  <1>1. SameShape(nodes)
    BY CheckingFacts
  <1>2. \A k \in DOMAIN node.kids : node.kids[k] \in Ids
    BY LastOperand
  <1>3. /\ 1 \in 0 .. 2 /\ 1 <= Len(open)
        /\ fell' \in BOOLEAN /\ (fell' => fell)
    BY LastOperand DEF IInv, TypeOK
  <1>4. QED  BY <1>1, <1>2, <1>3, ReturnKeeps

\* visit(IdRefAST).
LEMMA IdRefKeeps == ASSUME IInv, VisitIdRef PROVE IInv'
  <1>1. PICK t \in Variables : Return(nodes, Leaf("IdRef", t), 0)
    BY DEF VisitIdRef
  <1> DEFINE node == Leaf("IdRef", t)
  <1>2. t \in ValueType \cup {"Void"}
    BY ConstantsAssumption
  <1> HIDE DEF node
  <1>3. node \in NodeType /\ node.kids = <<>>
    BY <1>2, LeafIsNode DEF node
  <1>4. Checking /\ UNCHANGED fell /\ Return(nodes, node, 0)
    BY <1>1 DEF VisitIdRef, node
  <1>5. Honest(Attr(node))
    BY HonestLeaf DEF node
  <1>6. QED  BY <1>3, <1>4, <1>5, LeafReturnKeeps

\* visit(NumberExprAST): whatever the sign holds, the node is constant.
LEMMA NumberKeeps == ASSUME IInv, VisitNumber PROVE IInv'
  <1>1. PICK n \in Literal, garbage \in BOOLEAN, t \in Forms :
            Return(nodes, [Leaf("Number", t) EXCEPT !.lit = n, !.const = TRUE,
                                                  !.sign = garbage], 0)
    BY DEF VisitNumber
  <1> DEFINE node == [Leaf("Number", t) EXCEPT !.lit = n, !.const = TRUE, !.sign = garbage]
  <1>2. t \in ValueType \cup {"Void"} /\ n \in Nat
    BY ConstantsAssumption
  <1> HIDE DEF node
  <1>3. Leaf("Number", t) \in NodeType /\ Leaf("Number", t).kids = <<>>
    BY <1>2, LeafIsNode
  <1>4. node \in NodeType /\ node.kids = <<>> /\ node.const
    BY <1>2, <1>3 DEF node, NodeType
  <1>5. Checking /\ UNCHANGED fell /\ Return(nodes, node, 0)
    BY <1>1 DEF VisitNumber, node
  <1>6. QED  BY <1>4, <1>5, LeafReturnKeeps

\* visit(IdIndexedRefAST).
LEMMA IdIndexedRefKeeps == ASSUME IInv, VisitIdIndexedRef PROVE IInv'
  <1>1. PICK t \in Variables :
            Return(nodes, Over(Leaf("IdIndexedRef", t), "Int", <<open[Len(open)]>>), 1)
    BY DEF VisitIdIndexedRef
  <1> DEFINE node == Over(Leaf("IdIndexedRef", t), "Int", <<open[Len(open)]>>)
  <1>2. Checking /\ UNCHANGED fell /\ open # <<>>
    BY DEF VisitIdIndexedRef
  <1>3. 1 <= Len(open) /\ open[Len(open)] \in Nat
    BY <1>2, LastOperand DEF Ids
  <1>4. t \in ValueType /\ "Int" \in ValueType
    BY ConstantsAssumption DEF ValueType
  <1> HIDE DEF node
  <1>5. Leaf("IdIndexedRef", t) \in NodeType
    BY <1>4, LeafIsNode
  <1>6. "Int" \in {"", "any", "Not"} \cup ValueType \cup BinaryOp
    BY <1>4
  <1>7. /\ node \in NodeType /\ node.kids = <<open[Len(open)]>>
        /\ Attr(node) = Attr(Leaf("IdIndexedRef", t))
    <2>1. <<open[Len(open)]>> \in Seq(Nat)
      BY <1>3
    <2>2. QED  BY <1>5, <1>6, <2>1, OverNode DEF node
  <1>8. Return(nodes, node, 1) /\ Honest(Attr(node))
    BY <1>1, <1>7, HonestLeaf DEF node
  <1>9. QED  BY <1>2, <1>7, <1>8, OperandReturnKeeps

\* visit(CallExprAST).
LEMMA CallKeeps == ASSUME IInv, VisitCall PROVE IInv'
  <1>1. PICK t \in Returns, p \in ParamType \cup {"any"} :
            Return(nodes, Over(Leaf("Call", t), p, <<open[Len(open)]>>), 1)
    BY DEF VisitCall
  <1> DEFINE node == Over(Leaf("Call", t), p, <<open[Len(open)]>>)
  <1>2. Checking /\ UNCHANGED fell /\ open # <<>>
    BY DEF VisitCall
  <1>3. 1 <= Len(open) /\ open[Len(open)] \in Nat
    BY <1>2, LastOperand DEF Ids
  <1>4. t \in ValueType \cup {"Void"} /\ p \in {"any"} \cup ValueType
    BY ConstantsAssumption
  <1> HIDE DEF node
  <1>5. Leaf("Call", t) \in NodeType
    BY <1>4, LeafIsNode
  <1>6. p \in {"", "any", "Not"} \cup ValueType \cup BinaryOp
    BY <1>4
  <1>7. /\ node \in NodeType /\ node.kids = <<open[Len(open)]>>
        /\ Attr(node) = Attr(Leaf("Call", t))
    <2>1. <<open[Len(open)]>> \in Seq(Nat)
      BY <1>3
    <2>2. QED  BY <1>5, <1>6, <2>1, OverNode DEF node
  <1>8. Return(nodes, node, 1) /\ Honest(Attr(node))
    BY <1>1, <1>7, HonestLeaf DEF node
  <1>9. QED  BY <1>2, <1>7, <1>8, OperandReturnKeeps

\* visit(UnaryExprAST): an operator is as constant and as signed as its operand.
LEMMA UnaryKeeps == ASSUME IInv, VisitUnary PROVE IInv'
  <1> DEFINE kid == nodes[open[Len(open)]]
             bare == WithSign("Unary", Attr(kid), kid.const)
  <1>1. PICK op \in {"Not", "Sub", "Add"} :
            Return(nodes, Over(bare, op, <<open[Len(open)]>>), 1)
    BY DEF VisitUnary
  <1> DEFINE node == Over(bare, op, <<open[Len(open)]>>)
  <1>2. Checking /\ UNCHANGED fell /\ open # <<>>
    BY DEF VisitUnary
  <1>3. Return(nodes, node, 1)
    BY <1>1
  <1> HIDE DEF kid
  <1>4. /\ open[Len(open)] \in Nat /\ kid \in NodeType
        /\ ~kid.const => Honest(Attr(kid))
    BY <1>2, LastOperand DEF Ids, kid
  <1>5. Attr(kid) \in AttrType /\ kid.const \in BOOLEAN
    BY <1>4, NodeFields
  <1> HIDE DEF bare
  <1>6. bare \in NodeType /\ bare.const = kid.const /\ Attr(bare) = Attr(kid)
    BY <1>5, SignedLeaf DEF bare
  <1>7. op \in {"", "any", "Not"} \cup ValueType \cup BinaryOp
    BY DEF BinaryOp
  <1>8. <<open[Len(open)]>> \in Seq(Nat)
    BY <1>4
  <1>9. /\ node \in NodeType /\ node.kids = <<open[Len(open)]>>
         /\ node.const = kid.const /\ Attr(node) = Attr(kid)
    BY <1>6, <1>7, <1>8, OverNode
  <1> HIDE DEF node
  <1>10. node.const \/ Honest(Attr(node))
    BY <1>4, <1>9
  <1>11. QED  BY <1>2, <1>3, <1>9, <1>10, OperandReturnKeeps

\* visit(BinaryExprAST).
LEMMA BinaryKeeps == ASSUME IInv, VisitBinary PROVE IInv'
  <1> DEFINE l == open[Len(open) - 1]
             r == open[Len(open)]
             a == Attr(nodes[l])
             b == Attr(nodes[r])
  <1>1. Checking /\ Len(open) >= 2
    BY DEF VisitBinary
  <1>2. Len(open) \in 1 .. Len(open) /\ Len(open) - 1 \in 1 .. Len(open)
    BY <1>1, CheckingFacts
  <1>3. /\ nodes[l] \in NodeType /\ nodes[r] \in NodeType
        /\ ~nodes[l].const => Honest(a)
        /\ ~nodes[r].const => Honest(b)
    BY <1>1, <1>2, CheckingFacts
  <1>4. /\ a \in AttrType /\ b \in AttrType
        /\ nodes[l].const \in BOOLEAN /\ nodes[r].const \in BOOLEAN
    BY <1>3, NodeFields
  <1>5. Ops(Len(nodes) + 1) \subseteq BinaryOp
    BY <1>1, CheckingFacts, ConstantsAssumption
  <1>6. /\ ~(Matched(l, r) /\ HasNoSize(a, b))
        /\ fell' = (fell \/ (Matched(l, r) /\ FallsOff(a, b)))
    BY DEF VisitBinary
  <1>7. PICK op \in Ops(Len(nodes) + 1) :
            \/ /\ Matched(l, r)
               /\ \E m \in Match(a, b) : Typed(op, l, r, m)
            \/ /\ ~Matched(l, r) /\ nodes[l].const
               /\ Typed(op, l, r, [l |-> b, r |-> b, by |-> b])
            \/ /\ ~Matched(l, r) /\ nodes[r].const
               /\ Typed(op, l, r, [l |-> a, r |-> a, by |-> a])
    BY DEF VisitBinary
  <1>8. op \in BinaryOp /\ fell \in BOOLEAN
    BY <1>5 DEF IInv, TypeOK
  <1> HIDE DEF a, b
  <1>9. CASE Matched(l, r)
    <2>1. PICK m \in Match(a, b) : Typed(op, l, r, m)
      BY <1>7, <1>9
    <2>2. m.l \in AttrType /\ m.r \in AttrType /\ m.by \in {a, b}
      BY <1>4, MatchFacts
    <2>3. nodes[l].const = nodes[r].const
      BY <1>9 DEF Matched
    <2>4. ~(nodes[l].const /\ nodes[r].const) => Honest(m.by)
      BY <1>3, <2>2, <2>3
    <2>5. fell' \in BOOLEAN /\ (fell' => fell \/ (nodes[l].const /\ nodes[r].const))
      <3>1. CASE nodes[l].const
        BY <1>6, <1>8, <2>3, <3>1
      <3>2. CASE ~nodes[l].const
        <4>1. ~FallsOff(a, b)
          BY <1>3, <1>4, <1>6, <1>9, <2>3, <3>2, HonestPairMatches
        <4>2. QED  BY <1>6, <1>8, <4>1
      <3>3. QED  BY <3>1, <3>2
    <2>6. m.by \in AttrType
      BY <1>4, <2>2
    <2>7. QED  BY <1>1, <1>8, <2>1, <2>2, <2>4, <2>5, <2>6, TypedKeeps
  <1>10. CASE ~Matched(l, r)
    <2>1. fell' = fell
      BY <1>6, <1>8, <1>10
    <2>2. CASE nodes[l].const /\ Typed(op, l, r, [l |-> b, r |-> b, by |-> b])
      <3>1. ~nodes[r].const
        BY <1>4, <1>10, <2>2 DEF Matched
      <3>2. Honest(b)
        BY <1>3, <3>1
      <3> DEFINE m == [l |-> b, r |-> b, by |-> b]
      <3>3. m.l \in AttrType /\ m.r \in AttrType /\ m.by \in AttrType /\ Honest(m.by)
        BY <1>4, <3>2
      <3> HIDE DEF m
      <3>4. Typed(op, l, r, m)
        BY <2>2 DEF m
      <3>5. QED  BY <1>1, <1>8, <2>1, <3>3, <3>4, TypedKeeps
    <2>3. CASE nodes[r].const /\ Typed(op, l, r, [l |-> a, r |-> a, by |-> a])
      <3>1. ~nodes[l].const
        BY <1>4, <1>10, <2>3 DEF Matched
      <3>2. Honest(a)
        BY <1>3, <3>1
      <3> DEFINE m == [l |-> a, r |-> a, by |-> a]
      <3>3. m.l \in AttrType /\ m.r \in AttrType /\ m.by \in AttrType /\ Honest(m.by)
        BY <1>4, <3>2
      <3> HIDE DEF m
      <3>4. Typed(op, l, r, m)
        BY <2>3 DEF m
      <3>5. QED  BY <1>1, <1>8, <2>1, <3>3, <3>4, TypedKeeps
    <2>4. QED  BY <1>7, <1>10, <2>2, <2>3
  <1>11. QED  BY <1>9, <1>10

-----------------------------------------------------------------------------
(* The theorems.                                                            *)

\* Nothing is typed at first.
LEMMA InitIInv == ASSUME Init PROVE IInv
  <1>1. nodes = <<>> /\ open = <<>> /\ fell = FALSE /\ status = "checking"
    BY DEF Init
  <1>2. Ids = {}
    BY <1>1 DEF Ids
  <1>3. nodes \in Seq(NodeType) /\ open \in Seq(Ids)
    BY <1>1
  <1>4. fell \in BOOLEAN /\ status \in {"checking", "emitting", "done", "assert", "invalid"}
    BY <1>1
  <1>5. TypeOK
    BY <1>2, <1>3, <1>4 DEF TypeOK
  <1>6. OpenDistinct /\ GarbageStaysInConstants /\ FallsOffOnConstantsOnly
    BY <1>1 DEF OpenDistinct, GarbageStaysInConstants, FallsOffOnConstantsOnly
  <1>7. QED  BY <1>5, <1>6 DEF IInv

\* Every step of the type checker keeps the invariant.
LEMMA StepIInv == ASSUME IInv, [Next]_vars PROVE IInv'
  <1>1. CASE VisitIdRef         BY <1>1, IdRefKeeps
  <1>2. CASE VisitNumber        BY <1>2, NumberKeeps
  <1>3. CASE VisitIdIndexedRef  BY <1>3, IdIndexedRefKeeps
  <1>4. CASE VisitCall          BY <1>4, CallKeeps
  <1>5. CASE VisitUnary         BY <1>5, UnaryKeeps
  <1>6. CASE VisitBinary        BY <1>6, BinaryKeeps
  <1>7. CASE AssertTypeSize
    BY <1>7 DEF AssertTypeSize, IInv, TypeOK, OpenDistinct, GarbageStaysInConstants,
                FallsOffOnConstantsOnly, Ids
  <1>8. CASE UNCHANGED vars
    BY <1>8 DEF vars, IInv, TypeOK, OpenDistinct, GarbageStaysInConstants,
                FallsOffOnConstantsOnly, Ids
  <1>9. QED  BY <1>1, <1>2, <1>3, <1>4, <1>5, <1>6, <1>7, <1>8 DEF Next

\* The invariant holds at every step.
THEOREM Invariance == Spec => []IInv
  <1>1. Init => IInv
    BY InitIInv
  <1>2. IInv /\ [Next]_vars => IInv'
    BY StepIInv
  <1>3. QED  BY <1>1, <1>2, PTL DEF Spec

\* The tree, its types and its signs are well formed at every step.
THEOREM TypeCorrect == Spec => []TypeOK
  <1>1. IInv => TypeOK
    BY DEF IInv
  <1>2. QED  BY <1>1, Invariance, PTL

\* NumberExprAST::setIsSigned hides that of ExprAST, so the sign of a constant is never
\* set; no expression with a variable or a call in it takes it over.
THEOREM GarbageIsConfined == Spec => []GarbageStaysInConstants
  <1>1. IInv => GarbageStaysInConstants
    BY DEF IInv
  <1>2. QED  BY <1>1, Invariance, PTL

\* matchType ends without a return statement only where an operator has constant operands.
THEOREM FallsOffRarely == Spec => []FallsOffOnConstantsOnly
  <1>1. IInv => FallsOffOnConstantsOnly
    BY DEF IInv
  <1>2. QED  BY <1>1, Invariance, PTL

-----------------------------------------------------------------------------
(* Numbers of a width.                                                       *)

\* Powers of two, by their recursion.
LEMMA Pow2Steps ==
    Pow2[0] = 1 /\ \A n \in Nat : Pow2[n] \in Nat /\ Pow2[n + 1] = 2 * Pow2[n]
  <1> DEFINE step == [x \in Nat \X Nat |-> 2 * x[1]]
             IsPow(f) == f = [n \in Nat |-> IF n = 0 THEN 1 ELSE 2 * f[n - 1]]
  <1>1. step \in [Nat \X Nat -> Nat] /\ \A m, n \in Nat : step[<<m, n>>] = 2 * m
    OBVIOUS
  <1> HIDE DEF step
  <1>2. PICK f : ComputesAll(f, Nat, 1, step)
    <2>1. 1 \in Nat  OBVIOUS
    <2>2. QED  BY <1>1, <2>1, RecursiveOnNaturals
  <1>3. f \in [Nat -> Nat] /\ f[0] = 1 /\ \A i \in Nat : f[i + 1] = 2 * f[i]
    <2>1. f \in [Nat -> Nat] /\ f[0] = 1  BY <1>2 DEF ComputesAll
    <2>2. ASSUME NEW i \in Nat PROVE f[i + 1] = 2 * f[i]
      <3>1. f[i + 1] = step[<<f[i], i + 1>>]  BY <1>2 DEF ComputesAll
      <3>2. f[i] \in Nat /\ i + 1 \in Nat  BY <2>1
      <3>3. QED  BY <1>1, <3>1, <3>2
    <2>3. QED  BY <2>1, <2>2
  <1>4. IsPow(f)
    <2>1. \A n \in Nat : f[n] = IF n = 0 THEN 1 ELSE 2 * f[n - 1]
      <3>1. \A n \in Nat : n # 0 => n - 1 \in Nat /\ n - 1 + 1 = n
        OBVIOUS
      <3>2. \A n \in Nat : n # 0 => f[n] = 2 * f[n - 1]
        BY <1>3, <3>1
      <3>3. QED  BY <1>3, <3>2
    <2>2. f = [n \in Nat |-> f[n]]  BY <1>3
    <2>3. QED  BY <2>1, <2>2
  <1>5. Pow2 = CHOOSE h : IsPow(h)
    BY DEF Pow2
  <1> HIDE DEF IsPow
  <1>6. IsPow(Pow2)
    BY <1>4, <1>5
  <1>7. Pow2 = [n \in Nat |-> IF n = 0 THEN 1 ELSE 2 * Pow2[n - 1]]
    BY <1>6 DEF IsPow
  <1>8. Pow2[0] = 1 /\ \A n \in Nat : Pow2[n + 1] = 2 * Pow2[n]
    <2>1. \A n \in Nat : n + 1 \in Nat /\ n + 1 # 0 /\ n + 1 - 1 = n
      OBVIOUS
    <2> DEFINE p == Pow2
    <2>2. \A n \in Nat : p[n] = IF n = 0 THEN 1 ELSE 2 * p[n - 1]
      BY <1>7
    <2> HIDE DEF p
    <2>3. p[0] = 1 /\ \A n \in Nat : p[n + 1] = 2 * p[n]
      <3>1. p[0] = 1  BY <2>2
      <3>2. \A n \in Nat : p[n + 1] = 2 * p[n + 1 - 1]  BY <2>1, <2>2
      <3>3. QED  BY <2>1, <3>1, <3>2
    <2>4. QED  BY <2>3 DEF p
  <1> DEFINE S == {n \in Nat : Pow2[n] \in Nat}
  <1>9. 0 \in S  BY <1>8
  <1>10. \A n \in Nat : n \in S => n + 1 \in S  BY <1>8
  <1>11. Nat \subseteq S
    <2> HIDE DEF S
    <2>1. QED  BY <1>9, <1>10, InductionOnSet
  <1>12. QED  BY <1>8, <1>11

\* A wider type holds more, none holds nothing, and one bit holds 0 and 1.
LEMMA Pow2Facts ==
    /\ Pow2[1] = 2
    /\ \A n \in Nat : Pow2[n] \in Nat \ {0}
    /\ \A n \in Nat \ {0} : n - 1 \in Nat /\ Pow2[n] = 2 * Pow2[n - 1]
    /\ \A m, n \in Nat : m <= n => Pow2[m] <= Pow2[n]
  <1> DEFINE p == Pow2
  <1>1. p[0] = 1 /\ \A n \in Nat : p[n] \in Nat /\ p[n + 1] = 2 * p[n]
    BY Pow2Steps
  <1> HIDE DEF p
  <1>2. p[1] = 2
    <2>1. 0 \in Nat /\ 0 + 1 = 1  OBVIOUS
    <2>2. p[0 + 1] = 2 * p[0]  BY <1>1, <2>1
    <2>3. QED  BY <1>1, <2>1, <2>2
  <1>3. \A n \in Nat : p[n] \in Nat \ {0}
    <2> DEFINE S == {n \in Nat : p[n] # 0}
    <2>1. 0 \in S  BY <1>1
    <2>2. \A n \in Nat : n \in S => n + 1 \in S  BY <1>1
    <2>3. Nat \subseteq S
      <3> HIDE DEF S
      <3>1. QED  BY <2>1, <2>2, InductionOnSet
    <2>4. QED  BY <1>1, <2>3
  <1>4. \A n \in Nat \ {0} : n - 1 \in Nat /\ p[n] = 2 * p[n - 1]
    <2>1. \A n \in Nat \ {0} : n - 1 \in Nat /\ n - 1 + 1 = n  OBVIOUS
    <2>2. QED  BY <1>1, <2>1
  <1>5. ASSUME NEW m \in Nat PROVE \A n \in Nat : m <= n => p[m] <= p[n]
    <2> DEFINE S == {n \in Nat : m <= n => p[m] <= p[n]}
    <2>0. p[m] \in Nat  BY <1>1
    <2>1. 0 \in S  BY <2>0
    <2>2. ASSUME NEW n \in Nat, n \in S PROVE n + 1 \in S
      <3> SUFFICES ASSUME m <= n + 1 PROVE p[m] <= p[n + 1]  OBVIOUS
      <3>1. p[n] \in Nat /\ p[n + 1] = 2 * p[n] /\ p[m] \in Nat  BY <1>1
      <3>2. CASE m = n + 1  BY <3>1, <3>2
      <3>3. CASE m <= n  BY <2>2, <3>1, <3>3
      <3>4. m = n + 1 \/ m <= n  OBVIOUS
      <3>5. QED  BY <3>2, <3>3, <3>4
    <2>3. Nat \subseteq S
      <3> HIDE DEF S
      <3>1. QED  BY <2>1, <2>2, InductionOnSet
    <2>4. QED  BY <2>3
  <1>6. QED  BY <1>2, <1>3, <1>4, <1>5 DEF p

-----------------------------------------------------------------------------
(* Values.                                                                  *)

LlvmTypes == {LlvmType(t) : t \in ValueType \cup {"Void"}} \cup {Invalid.ty}

\* What a tame value promises.
Exact(v) ==
    /\ v.ty \in LlvmTypes
    /\ v.tame => v.bits = v.truth /\ Holds(v.ty, v.truth)

\* Integer types have a width.
LEMMA IntTypes ==
    ASSUME NEW ty \in LlvmTypes, ty.k = "int"
    PROVE  ty.w \in Nat \ {0} /\ ty = IntOf(ty.w)
  <1>1. Invalid.ty.k = "invalid"  BY DEF Invalid
  <1>2. PICK t \in ValueType \cup {"Void"} : ty = LlvmType(t)
    BY <1>1 DEF LlvmTypes
  <1>3. t \in IntType
    <2>1. t \notin IntType => ty.k = t  BY <1>2 DEF LlvmType
    <2>2. t \in IntType \/ t \in {"Float", "Double", "Void"}
      BY DEF ValueType, FPType
    <2>3. QED  BY <2>1, <2>2
  <1>4. ty = IntOf(Size[t])  BY <1>2, <1>3 DEF LlvmType
  <1>5. Size[t] \in Nat \ {0}  BY <1>3, ConstantsAssumption DEF ValueType
  <1>6. QED  BY <1>4, <1>5 DEF IntOf

\* The types of values.
LEMMA LlvmTypeOf ==
    ASSUME NEW t \in ValueType \cup {"Void"}
    PROVE  /\ LlvmType(t) \in LlvmTypes /\ LlvmType(t) # Invalid.ty
           /\ t \in IntType => /\ LlvmType(t).k = "int" /\ LlvmType(t).w = Size[t]
                               /\ Size[t] \in Nat \ {0}
           /\ t \notin IntType => LlvmType(t).k # "int"
  <1>1. LlvmType(t) \in LlvmTypes  BY DEF LlvmTypes
  <1>2. ASSUME t \in IntType
        PROVE  LlvmType(t).k = "int" /\ LlvmType(t).w = Size[t] /\ Size[t] \in Nat \ {0}
    BY <1>2, ConstantsAssumption DEF LlvmType, IntOf, ValueType
  <1>3. ASSUME t \notin IntType
        PROVE  LlvmType(t).k \notin {"int", "invalid"}
    <2>1. t \in {"Float", "Double", "Void"}  BY <1>3 DEF ValueType, FPType
    <2>2. QED  BY <1>3, <2>1 DEF LlvmType
  <1>4. Invalid.ty.k = "invalid"  BY DEF Invalid
  <1>5. QED  BY <1>1, <1>2, <1>3, <1>4

\* One bit.
LEMMA OneBitType ==
    I1 \in LlvmTypes /\ I1.k = "int" /\ I1.w = 1 /\ Pow2[I1.w] = 2 /\ I1 # Invalid.ty
  <1>1. "Bool" \in IntType /\ "Bool" \in ValueType \cup {"Void"}
    BY ConstantsAssumption DEF ValueType
  <1>2. I1 = LlvmType("Bool")  BY <1>1 DEF I1, LlvmType
  <1>3. QED  BY <1>1, <1>2, LlvmTypeOf, ContentAssumption, Pow2Facts

\* A number that a width holds is not changed by it.
LEMMA Fits0 ==
    ASSUME NEW m \in Nat \ {0}, NEW n \in 0 .. m - 1
    PROVE  n % m = n
  OBVIOUS

\* An instruction makes an exact value if it computes what is meant.
LEMMA MakeExact ==
    ASSUME NEW ty \in LlvmTypes, NEW bits, NEW truth, NEW tame, tame => bits = truth
    PROVE  Exact(Make(ty, bits, truth, tame))
  <1> DEFINE v == Make(ty, bits, truth, tame)
  <1>1. /\ v.ty = ty /\ v.truth = truth
        /\ v.bits = IF ty.k = "int" THEN bits % Pow2[ty.w] ELSE bits
    BY DEF Make
  <1>2. v.tame => tame /\ Holds(ty, truth)
    BY DEF Make
  <1>3. ASSUME tame, Holds(ty, truth) PROVE v.bits = truth
    <2>1. CASE ty.k = "int"
      <3>1. Pow2[ty.w] \in Nat \ {0}  BY <2>1, IntTypes, Pow2Facts
      <3>2. truth \in 0 .. Pow2[ty.w] - 1  BY <1>3, <2>1 DEF Holds
      <3>3. truth % Pow2[ty.w] = truth  BY <3>1, <3>2, Fits0
      <3>4. QED  BY <1>1, <1>3, <2>1, <3>3
    <2>2. CASE ty.k # "int"  BY <1>1, <1>3, <2>2
    <2>3. QED  BY <2>1, <2>2
  <1> HIDE DEF v
  <1>4. Exact(v)  BY <1>1, <1>2, <1>3 DEF Exact
  <1>5. QED  BY <1>4 DEF v

\* No instruction changes the type it is asked for.
LEMMA MakeType ==
    ASSUME NEW ty, NEW bits, NEW truth, NEW tame
    PROVE  Make(ty, bits, truth, tame).ty = ty
  BY DEF Make

\* What no instruction makes promises nothing.
LEMMA InvalidExact == Exact(Invalid) /\ ~Invalid.tame
  BY DEF Exact, Invalid, LlvmTypes

-----------------------------------------------------------------------------
(* Conversions.                                                             *)

\* A conversion that the source asks for is tame if the number fits.
LEMMA ConvertExact ==
    ASSUME NEW v, NEW ty \in LlvmTypes, v.tame => v.bits = v.truth
    PROVE  Exact(Convert(v, ty)) /\ Convert(v, ty).ty = ty
  BY MakeExact, MakeType DEF Convert

\* One that the builder inserts loses nothing, if the type is at least as wide.
WiderThan(ty, v) == ty.k = "int" => v.ty.k = "int" /\ v.ty.w <= ty.w

\* It differs in the type and the bits only.
LEMMA WidenFields ==
    ASSUME NEW v, NEW ty
    PROVE  /\ Widen(v, ty).ty = ty /\ Widen(v, ty).truth = v.truth
           /\ Widen(v, ty).bits = Convert(v, ty).bits
           /\ Widen(v, ty).tame <=> v.tame
  BY DEF Widen, Convert, Make

\* It stays exact.
LEMMA WidenExact ==
    ASSUME NEW v, NEW ty \in LlvmTypes, Exact(v), WiderThan(ty, v)
    PROVE  Exact(Widen(v, ty))
  <1>1. /\ Widen(v, ty).ty = ty /\ Widen(v, ty).truth = v.truth
        /\ Widen(v, ty).bits = Convert(v, ty).bits
        /\ Widen(v, ty).tame <=> v.tame
    BY WidenFields
  <1>2. SUFFICES ASSUME v.tame
                 PROVE  Convert(v, ty).bits = v.truth /\ Holds(ty, v.truth)
    BY <1>1 DEF Exact
  <1>3. v.bits = v.truth /\ Holds(v.ty, v.truth) /\ v.ty \in LlvmTypes
    BY <1>2 DEF Exact
  <1>4. CASE ty.k = "int"
    <2>1. v.ty.k = "int" /\ v.ty.w <= ty.w  BY <1>4 DEF WiderThan
    <2>2. v.ty.w \in Nat /\ ty.w \in Nat  BY <1>3, <1>4, <2>1, IntTypes
    <2>3. Pow2[v.ty.w] <= Pow2[ty.w] /\ Pow2[v.ty.w] \in Nat /\ Pow2[ty.w] \in Nat \ {0}
      BY <2>1, <2>2, Pow2Facts
    <2>4. v.truth \in 0 .. Pow2[v.ty.w] - 1  BY <1>3, <2>1 DEF Holds
    <2>5. v.truth \in 0 .. Pow2[ty.w] - 1  BY <2>3, <2>4
    <2>6. v.truth % Pow2[ty.w] = v.truth  BY <2>3, <2>5, Fits0
    <2>7. Convert(v, ty).bits = v.bits % Pow2[ty.w]  BY <1>4 DEF Convert, Make
    <2>8. QED  BY <1>3, <2>5, <2>6, <2>7 DEF Holds
  <1>5. CASE ty.k # "int"
    <2>1. Convert(v, ty).bits = v.bits  BY <1>5 DEF Convert, Make
    <2>2. QED  BY <1>3, <1>5, <2>1 DEF Holds
  <1>6. QED  BY <1>4, <1>5

\* typeConvert makes one type of two, of integers an integer type, and what it
\* returns is exact, means the same, and is as tame as the operands.
LEMMA TypeConvertFacts ==
    ASSUME NEW a, NEW b, a.ty \in LlvmTypes, b.ty \in LlvmTypes
    PROVE  LET p == TypeConvert(a, b) IN
           /\ p[1].ty = p[2].ty /\ p[1].ty \in LlvmTypes
           /\ IsInt(a) /\ IsInt(b) => IsInt(p[1])
           /\ p[1].tame => p[1].truth = a.truth /\ a.tame
           /\ p[2].tame => p[2].truth = b.truth /\ b.tame
           /\ Exact(a) /\ Exact(b) => Exact(p[1]) /\ Exact(p[2])
  <1> DEFINE p == TypeConvert(a, b)
             Good == /\ p[1].ty = p[2].ty /\ p[1].ty \in LlvmTypes
                     /\ IsInt(a) /\ IsInt(b) => IsInt(p[1])
                     /\ p[1].tame => p[1].truth = a.truth /\ a.tame
                     /\ p[2].tame => p[2].truth = b.truth /\ b.tame
                     /\ Exact(a) /\ Exact(b) => Exact(p[1]) /\ Exact(p[2])
  <1> SUFFICES Good
    OBVIOUS
  <1>1. CASE p = <<a, b>> /\ a.ty = b.ty
    <2>1. p[1] = a /\ p[2] = b  BY <1>1
    <2> HIDE DEF p
    <2>2. QED  BY <1>1, <2>1
  <1>2. CASE p = <<a, Widen(b, a.ty)>> /\ WiderThan(a.ty, b)
    <2>1. p[1] = a /\ p[2] = Widen(b, a.ty)  BY <1>2
    <2> HIDE DEF p
    <2>2. p[2].ty = a.ty /\ p[2].truth = b.truth /\ (p[2].tame <=> b.tame)
      BY <2>1, WidenFields
    <2>3. Exact(b) => Exact(p[2])  BY <1>2, <2>1, WidenExact
    <2>4. QED  BY <2>1, <2>2, <2>3
  <1>3. CASE p = <<Widen(a, b.ty), b>> /\ WiderThan(b.ty, a)
    <2>1. p[1] = Widen(a, b.ty) /\ p[2] = b  BY <1>3
    <2> HIDE DEF p
    <2>2. p[1].ty = b.ty /\ p[1].truth = a.truth /\ (p[1].tame <=> a.tame)
      BY <2>1, WidenFields
    <2>3. Exact(a) => Exact(p[1])  BY <1>3, <2>1, WidenExact
    <2>4. IsInt(a) /\ IsInt(b) => IsInt(p[1])  BY <2>2 DEF IsInt
    <2>5. QED  BY <2>1, <2>2, <2>3, <2>4
  <1>4. CASE p = <<Invalid, Invalid>> /\ ~(IsInt(a) /\ IsInt(b))
    <2>1. p[1] = Invalid /\ p[2] = Invalid  BY <1>4
    <2> HIDE DEF p
    <2>2. Invalid.ty \in LlvmTypes  BY DEF LlvmTypes
    <2>3. QED  BY <1>4, <2>1, <2>2, InvalidExact
  <1>5. \/ p = <<a, b>> /\ a.ty = b.ty
        \/ p = <<a, Widen(b, a.ty)>> /\ WiderThan(a.ty, b)
        \/ p = <<Widen(a, b.ty), b>> /\ WiderThan(b.ty, a)
        \/ p = <<Invalid, Invalid>> /\ ~(IsInt(a) /\ IsInt(b))
    <2>1. CASE a.ty = b.ty
      <3>1. IsInt(a) => a.ty.w \in Nat  BY IntTypes DEF IsInt
      <3>2. IsInt(a) => ~(a.ty.w > b.ty.w) /\ ~(a.ty.w < b.ty.w)  BY <2>1, <3>1
      <3>3. p = <<a, b>>  BY <2>1, <3>2 DEF TypeConvert, IsInt
      <3>4. QED  BY <2>1, <3>3
    <2>2. CASE a.ty # b.ty /\ IsInt(a) /\ IsInt(b)
      <3>1. /\ a.ty.w \in Nat /\ b.ty.w \in Nat
            /\ a.ty = IntOf(a.ty.w) /\ b.ty = IntOf(b.ty.w)
        BY <2>2, IntTypes DEF IsInt
      <3>2. a.ty.w # b.ty.w  BY <2>2, <3>1
      <3>3. a.ty.w > b.ty.w \/ a.ty.w < b.ty.w  BY <3>1, <3>2
      <3>4. CASE a.ty.w > b.ty.w
        <4>1. WiderThan(a.ty, b)  BY <2>2, <3>1, <3>4 DEF WiderThan, IsInt
        <4>2. ~(a.ty.w < b.ty.w)  BY <3>1, <3>4
        <4>3. p = <<a, Widen(b, a.ty)>>
          BY <2>2, <3>4, <4>2 DEF TypeConvert, IsInt
        <4>4. QED  BY <4>1, <4>3
      <3>5. CASE a.ty.w < b.ty.w
        <4>1. WiderThan(b.ty, a)  BY <2>2, <3>1, <3>5 DEF WiderThan, IsInt
        <4>3. ~(a.ty.w > b.ty.w)  BY <3>1, <3>5
        <4>2. p = <<Widen(a, b.ty), b>>
          BY <2>2, <3>5, <4>3 DEF TypeConvert, IsInt
        <4>4. QED  BY <4>1, <4>2
      <3>6. QED  BY <3>3, <3>4, <3>5
    <2>3. CASE a.ty # b.ty /\ ~(IsInt(a) /\ IsInt(b))
      <3>1. CASE \/ a.ty.k = "Double" /\ (IsInt(b) \/ b.ty.k = "Float")
                 \/ a.ty.k = "Float" /\ b.ty.k # "Double" /\ IsInt(b)
        <4>1. WiderThan(a.ty, b)  BY <3>1 DEF WiderThan
        <4>2. p = <<a, Widen(b, a.ty)>>  BY <2>3, <3>1 DEF TypeConvert, IsInt
        <4>3. QED  BY <4>1, <4>2
      <3>2. CASE a.ty.k = "Float" /\ b.ty.k = "Double"
        <4>1. WiderThan(b.ty, a)  BY <3>2 DEF WiderThan
        <4>2. p = <<Widen(a, b.ty), b>>  BY <2>3, <3>2 DEF TypeConvert, IsInt
        <4>3. QED  BY <4>1, <4>2
      <3>3. CASE /\ ~(a.ty.k = "Double" /\ (IsInt(b) \/ b.ty.k = "Float"))
                 /\ ~(a.ty.k = "Float" /\ b.ty.k = "Double")
                 /\ ~(a.ty.k = "Float" /\ IsInt(b))
        <4>1. p = <<Invalid, Invalid>>  BY <2>3, <3>3 DEF TypeConvert
        <4>2. QED  BY <2>3, <4>1
      <3>4. QED  BY <3>1, <3>2, <3>3
    <2>4. QED  BY <2>1, <2>2, <2>3
  <1> HIDE DEF p
  <1>6. QED  BY <1>1, <1>2, <1>3, <1>4, <1>5

\* Conversions to what a parameter, a target or a function has.
LEMMA ToNumberFacts ==
    ASSUME NEW v, NEW ty \in LlvmTypes, v.ty \in LlvmTypes
    PROVE  /\ ToNumber(v, ty).ty \in LlvmTypes /\ ToStored(v, ty).ty \in LlvmTypes
           /\ Exact(v) => Exact(ToNumber(v, ty)) /\ Exact(ToStored(v, ty))
           /\ IsInt(v) /\ ty.k = "int" => /\ IsInt(ToNumber(v, ty))
                                          /\ ToStored(v, ty) = ToNumber(v, ty)
  <1>1. Exact(v) => Exact(Convert(v, ty))  BY ConvertExact DEF Exact
  <1>2. Convert(v, ty).ty = ty  BY MakeType DEF Convert
  <1>3. ToNumber(v, ty) \in {v, Convert(v, ty), Invalid}  BY DEF ToNumber
  <1>4. ToStored(v, ty) \in {v, Convert(v, ty), Invalid}  BY <1>3 DEF ToStored
  <1>5. Invalid.ty \in LlvmTypes  BY DEF LlvmTypes
  <1>6. ASSUME IsInt(v), ty.k = "int"
        PROVE  IsInt(ToNumber(v, ty)) /\ ToStored(v, ty) = ToNumber(v, ty)
    <2>1. ToNumber(v, ty) \in {v, Convert(v, ty)}  BY <1>6 DEF ToNumber
    <2>2. ~IsReal(v)  BY <1>6 DEF IsInt, IsReal, FPType
    <2>3. QED  BY <1>2, <1>6, <2>1, <2>2 DEF IsInt, ToStored
  <1>7. QED  BY <1>1, <1>2, <1>3, <1>4, <1>5, <1>6, InvalidExact

-----------------------------------------------------------------------------
(* Instructions: what is computed is what is meant, where the operands are.  *)

\* Of add, sub and mul.
LEMMA ArithmeticFacts ==
    ASSUME NEW op, NEW a, NEW b, NEW sign, a.ty \in LlvmTypes
    PROVE  LET v == EmitArithmetic(op, a, b, sign) IN
           /\ v.ty = a.ty /\ v.truth = Calculate(op, a.truth, b.truth)
           /\ v.tame => a.tame /\ b.tame
           /\ Exact(a) /\ Exact(b) => Exact(v)
  <1> DEFINE v == EmitArithmetic(op, a, b, sign)
             truth == Calculate(op, a.truth, b.truth)
             bits == Calculate(op, a.bits, b.bits)
             tame == /\ a.tame /\ b.tame /\ NoWrap(a.ty, truth, sign)
                     /\ NoWrap(a.ty, a.truth, sign) /\ NoWrap(a.ty, b.truth, sign)
  <1>1. v = Make(a.ty, bits, truth, tame)
    BY DEF EmitArithmetic
  <1>2. tame => a.tame /\ b.tame
    OBVIOUS
  <1>3. Exact(a) /\ Exact(b) => (tame => bits = truth)
    BY DEF Exact
  <1> HIDE DEF v, truth, bits, tame
  <1>4. v.ty = a.ty /\ v.truth = truth /\ (v.tame => tame)
    BY <1>1 DEF Make
  <1>5. Exact(a) /\ Exact(b) => Exact(v)
    BY <1>1, <1>3, MakeExact
  <1>6. QED  BY <1>2, <1>4, <1>5 DEF v, truth

\* Of the division of floating-point numbers.
LEMMA DivideFacts ==
    ASSUME NEW a, NEW b, a.ty \in LlvmTypes
    PROVE  LET v == EmitDivide(a, b) IN
           /\ v.ty = a.ty
           /\ v.tame => a.tame /\ b.tame
           /\ Exact(a) /\ Exact(b) => Exact(v)
  <1> DEFINE v == EmitDivide(a, b)
             tame == a.tame /\ b.tame /\ a.truth % b.truth = 0
             bits == a.bits \div b.bits
             truth == a.truth \div b.truth
  <1>1. \/ v = Make(a.ty, 0, 0, FALSE)
        \/ v = Make(a.ty, bits, truth, tame)
    BY DEF EmitDivide
  <1>2. tame => a.tame /\ b.tame
    OBVIOUS
  <1>3. Exact(a) /\ Exact(b) => (tame => bits = truth)
    BY DEF Exact
  <1> HIDE DEF v, truth, bits, tame
  <1>4. CASE v = Make(a.ty, 0, 0, FALSE)
    <2>1. v.ty = a.ty /\ ~v.tame  BY <1>4 DEF Make
    <2>2. QED  BY <2>1 DEF v, Exact
  <1>5. CASE v = Make(a.ty, bits, truth, tame)
    <2>1. v.ty = a.ty /\ (v.tame => tame)  BY <1>5 DEF Make
    <2>2. Exact(a) /\ Exact(b) => Exact(v)  BY <1>3, <1>5, MakeExact
    <2>3. QED  BY <1>2, <2>1, <2>2 DEF v
  <1>6. QED  BY <1>1, <1>4, <1>5

\* A truth value is one bit.
LEMMA NumBit ==
    ASSUME NEW b \in BOOLEAN
    PROVE  Num(b) \in {0, 1} /\ (Num(b) = 1 <=> b)
  BY DEF Num

\* A number that the sign reads as it is meant.
LEMMA ReadNumber ==
    ASSUME NEW v, NEW sign \in BOOLEAN, IsInt(v), Exact(v), v.tame,
           ~sign \/ v.truth < Pow2[v.ty.w - 1]
    PROVE  AsNumber(v, sign) = v.truth
  <1>1. v.bits = v.truth /\ v.truth \in 0 .. Pow2[v.ty.w] - 1
    BY DEF Exact, Holds, IsInt
  <1>2. v.ty.w \in Nat \ {0}  BY IntTypes DEF IsInt, Exact
  <1>3. Pow2[v.ty.w - 1] \in Nat /\ Pow2[v.ty.w] \in Nat  BY <1>2, Pow2Facts
  <1>4. ~(sign /\ v.bits >= Pow2[v.ty.w - 1])  BY <1>1, <1>3
  <1>5. QED  BY <1>1, <1>4 DEF AsNumber

\* Two numbers that are read with one sign are equal if their bits are.
LEMMA ReadEqual ==
    ASSUME NEW a, NEW b, NEW sign \in BOOLEAN, a.ty = b.ty, IsInt(a),
           Exact(a), Exact(b), a.tame, b.tame
    PROVE  AsNumber(a, sign) = AsNumber(b, sign) <=> a.truth = b.truth
  <1> DEFINE half == Pow2[a.ty.w - 1]
             full == Pow2[a.ty.w]
  <1>1. /\ a.bits = a.truth /\ a.truth \in 0 .. full - 1
        /\ b.bits = b.truth /\ b.truth \in 0 .. full - 1
    BY DEF Exact, Holds, IsInt
  <1>2. a.ty.w \in Nat \ {0}  BY IntTypes DEF IsInt, Exact
  <1>3. half \in Nat /\ full \in Nat /\ full = 2 * half  BY <1>2, Pow2Facts
  <1>4. /\ AsNumber(a, sign) = IF sign /\ a.bits >= half THEN a.bits - full ELSE a.bits
        /\ AsNumber(b, sign) = IF sign /\ b.bits >= half THEN b.bits - full ELSE b.bits
    BY DEF AsNumber
  <1> HIDE DEF half, full
  <1>5. QED  BY <1>1, <1>3, <1>4

\* Of icmp.
LEMMA CompareFacts ==
    ASSUME NEW op \in Comparison, NEW a, NEW b, NEW sign \in BOOLEAN, a.ty = b.ty, IsInt(a),
           a.ty \in LlvmTypes
    PROVE  LET v == EmitCompare(op, a, b, sign) IN
           /\ v.ty = I1 /\ v.truth = Num(Compare(op, a.truth, b.truth))
           /\ v.tame => a.tame /\ b.tame
           /\ Exact(a) /\ Exact(b) => Exact(v)
  <1> DEFINE readable(u) == ~sign \/ op \in {"Eq", "Neq"} \/ u.truth < Pow2[u.ty.w - 1]
             x == AsNumber(a, sign)
             y == AsNumber(b, sign)
             v == EmitCompare(op, a, b, sign)
             bits == Num(Compare(op, x, y))
             truth == Num(Compare(op, a.truth, b.truth))
             tame == a.tame /\ b.tame /\ readable(a) /\ readable(b)
  <1>1. v = Make(I1, bits, truth, tame)
    BY DEF EmitCompare
  <1>2. tame => a.tame /\ b.tame
    OBVIOUS
  <1>3. ASSUME Exact(a), Exact(b), tame PROVE bits = truth
    <2>1. CASE op \in {"Eq", "Neq"}
      <3>1. x = y <=> a.truth = b.truth  BY <1>2, <1>3, ReadEqual
      <3> HIDE DEF x, y
      <3>2. CASE op = "Eq"
        BY <3>1, <3>2 DEF Compare, Num
      <3>3. CASE op = "Neq"
        BY <3>1, <3>3 DEF Compare, Num
      <3>4. QED  BY <2>1, <3>2, <3>3
    <2>2. CASE op \notin {"Eq", "Neq"}
      <3>1. ~sign \/ a.truth < Pow2[a.ty.w - 1]  BY <1>3, <2>2
      <3>2. ~sign \/ b.truth < Pow2[b.ty.w - 1]  BY <1>3, <2>2
      <3>3. IsInt(b)  BY DEF IsInt
      <3>4. x = a.truth /\ y = b.truth
        BY <1>2, <1>3, <3>1, <3>2, <3>3, ReadNumber
      <3> HIDE DEF x, y
      <3>5. QED  BY <3>4
    <2>3. QED  BY <2>1, <2>2
  <1> HIDE DEF v, bits, truth, tame
  <1>4. v.ty = I1 /\ v.truth = truth /\ (v.tame => tame)
    BY <1>1 DEF Make
  <1>5. Exact(a) /\ Exact(b) => Exact(v)
    BY <1>1, <1>3, OneBitType, MakeExact
  <1>6. QED  BY <1>2, <1>4, <1>5 DEF v, truth

\* Of lshr.
LEMMA ShiftFacts ==
    ASSUME NEW op \in Shift, NEW a, NEW b, a.ty \in LlvmTypes
    PROVE  LET v == EmitShift(op, a, b) IN
           /\ v.ty = a.ty
           /\ v.tame => a.tame /\ b.tame
           /\ op # "Lsft" /\ v.tame => v.truth = a.truth \div Pow2[b.truth]
           /\ op # "Lsft" /\ Exact(a) /\ Exact(b) => Exact(v)
  <1> DEFINE v == EmitShift(op, a, b)
             bits == a.bits \div Pow2[b.bits]
             meant == IF op = "Rsft" THEN a.truth \div Pow2[b.truth]
                      ELSE a.truth * Pow2[b.truth]
  <1>1. \/ v = Make(a.ty, 0, 0, FALSE)
        \/ b.tame /\ v = Make(a.ty, bits, meant, a.tame)
    BY DEF EmitShift
  <1>2. op # "Lsft" => meant = a.truth \div Pow2[b.truth]
    BY DEF Shift
  <1>3. op # "Lsft" /\ b.tame /\ Exact(a) /\ Exact(b) => (a.tame => bits = meant)
    BY <1>2 DEF Exact
  <1> HIDE DEF v, meant, bits
  <1>4. CASE v = Make(a.ty, 0, 0, FALSE)
    <2>1. v.ty = a.ty /\ ~v.tame  BY <1>4 DEF Make
    <2>2. QED  BY <2>1 DEF v, Exact
  <1>5. CASE b.tame /\ v = Make(a.ty, bits, meant, a.tame)
    <2>1. v.ty = a.ty /\ v.truth = meant /\ (v.tame => a.tame)  BY <1>5 DEF Make
    <2>2. op # "Lsft" /\ Exact(a) /\ Exact(b) => Exact(v)  BY <1>3, <1>5, MakeExact
    <2>3. QED  BY <1>2, <1>5, <2>1, <2>2 DEF v
  <1>6. QED  BY <1>1, <1>4, <1>5

\* Of or, and, xor of all bits.
LEMMA BitwiseFacts ==
    ASSUME NEW op, NEW a, NEW b, a.ty \in LlvmTypes
    PROVE  LET v == EmitBitwise(op, a, b) IN
           /\ v.ty = a.ty
           /\ v.tame => a.tame /\ b.tame /\ v.truth = EachBit(op, a.truth, b.truth)
           /\ Exact(a) /\ Exact(b) => Exact(v)
  <1> DEFINE v == EmitBitwise(op, a, b)
             bits == EachBit(op, a.bits, b.bits)
             truth == EachBit(op, a.truth, b.truth)
  <1>1. \/ v = Make(a.ty, bits, 0, FALSE)
        \/ a.tame /\ b.tame /\ v = Make(a.ty, bits, truth, TRUE)
    BY DEF EmitBitwise
  <1>2. a.tame /\ b.tame /\ Exact(a) /\ Exact(b) => bits = truth
    BY DEF Exact
  <1> HIDE DEF v, bits, truth
  <1>3. CASE v = Make(a.ty, bits, 0, FALSE)
    <2>1. v.ty = a.ty /\ ~v.tame  BY <1>3 DEF Make
    <2>2. QED  BY <2>1 DEF v, Exact
  <1>4. CASE a.tame /\ b.tame /\ v = Make(a.ty, bits, truth, TRUE)
    <2>1. v.ty = a.ty /\ v.truth = truth  BY <1>4 DEF Make
    <2>2. Exact(a) /\ Exact(b) => Exact(v)  BY <1>2, <1>4, MakeExact
    <2>3. QED  BY <1>4, <2>1, <2>2 DEF v, truth
  <1>5. QED  BY <1>1, <1>3, <1>4

\* Of or and and of one bit.
Both(op, x, y) == IF op = "And" THEN x * y ELSE x + y - x * y

\* Of or and and, on one bit.
LEMMA LogicalFacts ==
    ASSUME NEW op, NEW a, NEW b
    PROVE  LET v == EmitLogical(op, a, b) IN
           /\ v.ty = I1 /\ v.truth = Both(op, a.truth, b.truth)
           /\ v.tame => a.tame /\ b.tame
           /\ Exact(a) /\ Exact(b) => Exact(v)
  <1> DEFINE v == EmitLogical(op, a, b)
             bits == Both(op, a.bits, b.bits)
             truth == Both(op, a.truth, b.truth)
             tame == a.tame /\ b.tame
  <1>1. v = Make(I1, bits, truth, tame)
    BY DEF EmitLogical, Both
  <1>2. Exact(a) /\ Exact(b) => (tame => bits = truth)
    BY DEF Exact
  <1> HIDE DEF v, bits, truth
  <1>3. v.ty = I1 /\ v.truth = truth /\ (v.tame => a.tame /\ b.tame)
    BY <1>1 DEF Make
  <1> HIDE DEF tame
  <1>4. Exact(a) /\ Exact(b) => Exact(v)
    BY <1>1, <1>2, OneBitType, MakeExact
  <1>5. QED  BY <1>3, <1>4 DEF v, truth

\* Of the unary minus.
LEMMA MinusFacts ==
    ASSUME NEW u, NEW sign, u.ty \in LlvmTypes
    PROVE  LET v == EmitMinus(u, sign) IN
           /\ v.ty \in LlvmTypes
           /\ v.tame => u.tame /\ v.truth = 0 - u.truth
           /\ IsInt(u) => IsInt(v)
           /\ Exact(u) => Exact(v)
  <1> DEFINE v == EmitMinus(u, sign)
             zero == Make(u.ty, 0, 0, TRUE)
  <1>1. CASE v = Invalid /\ ~IsInt(u)
    <2> HIDE DEF v
    <2>1. v.ty \in LlvmTypes  BY <1>1 DEF LlvmTypes
    <2>2. QED  BY <1>1, <2>1, InvalidExact DEF v
  <1>2. CASE v = EmitArithmetic("Sub", zero, u, sign)
    <2>1. zero.ty = u.ty /\ zero.truth = 0  BY DEF Make
    <2>2. Exact(zero)  BY MakeExact
    <2> HIDE DEF zero, v
    <2>3. /\ v.ty = zero.ty /\ v.truth = Calculate("Sub", zero.truth, u.truth)
          /\ v.tame => zero.tame /\ u.tame
          /\ Exact(zero) /\ Exact(u) => Exact(v)
      BY <1>2, <2>1, ArithmeticFacts
    <2>4. v.truth = 0 - u.truth  BY <2>1, <2>3 DEF Calculate
    <2>5. QED  BY <2>1, <2>2, <2>3, <2>4 DEF v, IsInt
  <1>3. \/ v = Invalid /\ ~IsInt(u)
        \/ v = EmitArithmetic("Sub", zero, u, sign)
    <2>1. ~(u.ty.k = "Double" /\ IsInt(u))  BY DEF IsInt
    <2>2. QED  BY <2>1 DEF EmitMinus
  <1>4. QED  BY <1>1, <1>2, <1>3

\* Of the negation, which an arithmetic one of the same bit follows.
LEMMA OddNumbers == 1 % 2 = 1 /\ 0 % 2 = 0 /\ (0 - 1) % 2 = 1
  <1>1. \A x \in Int : x = 2 * (x \div 2) + (x % 2) /\ x % 2 \in 0 .. 1 /\ x \div 2 \in Int
    OBVIOUS
  <1>2. \A x \in Int : x = -1 => x % 2 = 1
    <2> SUFFICES ASSUME NEW x \in Int, x = -1 PROVE x % 2 = 1
      OBVIOUS
    <2> DEFINE q == x \div 2
               r == x % 2
    <2>1. x = 2 * q + r /\ r \in 0 .. 1 /\ q \in Int  BY <1>1
    <2> HIDE DEF q, r
    <2>2. r = 1  BY <2>1
    <2>3. QED  BY <2>2 DEF r
  <1>3. ASSUME NEW x, x = 0 - 1 PROVE x \in Int /\ x = -1
    BY <1>3
  <1>4. (0 - 1) % 2 = 1
    <2> DEFINE x == 0 - 1
    <2>1. x \in Int /\ x = -1  BY <1>3
    <2> HIDE DEF x
    <2>2. x % 2 = 1  BY <1>2, <2>1
    <2>3. QED  BY <2>2 DEF x
  <1>5. 1 % 2 = 1 /\ 0 % 2 = 0  OBVIOUS
  <1>6. QED  BY <1>4, <1>5

\* Of the not that runs on into the minus.
LEMMA NotFacts ==
    ASSUME NEW u, NEW sign \in BOOLEAN, u.ty \in LlvmTypes
    PROVE  LET v == EmitNot(u, sign) IN
           /\ v.ty \in LlvmTypes
           /\ v.tame => u.tame /\ u.ty = I1 /\ v.truth = 1 - u.truth /\ v.ty = I1
           /\ Exact(u) => Exact(v)
  <1> DEFINE v == EmitNot(u, sign)
             tame == u.tame /\ (sign \/ u.bits = 1)
  <1>1. CASE u.ty # I1
    <2>1. v = Invalid  BY <1>1 DEF EmitNot
    <2> HIDE DEF v
    <2>2. v.ty \in LlvmTypes  BY <2>1 DEF LlvmTypes
    <2>3. QED  BY <2>1, <2>2, InvalidExact DEF v
  <1>2. CASE u.ty = I1
    <2>1. v = Make(I1, 0 - (1 - u.bits), 1 - u.truth, tame)
      BY <1>2 DEF EmitNot
    <2> HIDE DEF v, tame
    <2>2. /\ v.ty = I1 /\ v.truth = 1 - u.truth
          /\ v.bits = (0 - (1 - u.bits)) % 2 /\ (v.tame => tame)
      BY <2>1, OneBitType DEF Make
    <2>3. ASSUME Exact(u), v.tame PROVE v.bits = v.truth /\ Holds(v.ty, v.truth)
      <3>1. tame  BY <2>2, <2>3
      <3>2. u.tame  BY <3>1 DEF tame
      <3>3. u.bits = u.truth /\ u.truth \in 0 .. 1
        <4>1. u.bits = u.truth /\ Holds(I1, u.truth)  BY <1>2, <2>3, <3>2 DEF Exact
        <4>2. u.truth \in 0 .. 2 - 1  BY <4>1, OneBitType DEF Holds
        <4>3. QED  BY <4>1, <4>2
      <3>4. CASE u.truth = 0
        <4>1. 0 - (1 - u.bits) = 0 - 1 /\ 1 - u.truth = 1  BY <3>3, <3>4
        <4>2. v.bits = 1 /\ v.truth = 1  BY <2>2, <4>1, OddNumbers
        <4>3. QED  BY <2>2, <4>2, OneBitType DEF Holds
      <3>5. CASE u.truth = 1
        <4>1. 0 - (1 - u.bits) = 0 /\ 1 - u.truth = 0  BY <3>3, <3>5
        <4>2. v.bits = 0 /\ v.truth = 0  BY <2>2, <4>1, OddNumbers
        <4>3. QED  BY <2>2, <4>2, OneBitType DEF Holds
      <3>6. QED  BY <3>3, <3>4, <3>5
    <2>4. Exact(u) => Exact(v)  BY <2>2, <2>3, OneBitType DEF Exact
    <2>5. v.tame => u.tame  BY <2>2 DEF tame
    <2>6. QED  BY <1>2, <2>2, <2>4, <2>5, OneBitType DEF v
  <1>3. QED  BY <1>1, <1>2

\* What a unary instruction yields, and what getConstIntByExpr computes for it.
LEMMA UnaryFacts ==
    ASSUME NEW op \in {"Not", "Sub", "Add"}, NEW u, NEW sign \in BOOLEAN, u.ty \in LlvmTypes
    PROVE  LET v == EmitUnary(op, u, sign) IN
           /\ v.ty \in LlvmTypes
           /\ v.tame => u.tame
           /\ IsInt(u) /\ (v.tame \/ op # "Not") => IsInt(v)
           /\ Exact(u) => Exact(v)
           /\ Exact(u) /\ v.tame => v.truth = ConstUnary(op, u.truth)
  <1> DEFINE v == EmitUnary(op, u, sign)
  <1>1. CASE op = "Not"
    <2>1. v = EmitNot(u, sign)  BY <1>1 DEF EmitUnary
    <2> HIDE DEF v
    <2>2. /\ v.ty \in LlvmTypes
          /\ v.tame => u.tame /\ u.ty = I1 /\ v.truth = 1 - u.truth /\ v.ty = I1
          /\ Exact(u) => Exact(v)
      BY <2>1, NotFacts
    <2>3. v.tame => IsInt(v)  BY <2>2, OneBitType DEF IsInt
    <2>4. ASSUME Exact(u), v.tame PROVE v.truth = ConstUnary(op, u.truth)
      <3>1. Holds(I1, u.truth)  BY <2>2, <2>4 DEF Exact
      <3>2. u.truth \in 0 .. 2 - 1  BY <3>1, OneBitType DEF Holds
      <3>3. u.truth = 0 \/ u.truth = 1  BY <3>2
      <3>4. ConstUnary(op, u.truth) = Num(u.truth = 0)  BY <1>1 DEF ConstUnary
      <3>5. QED  BY <2>2, <2>4, <3>3, <3>4 DEF Num
    <2>5. QED  BY <1>1, <2>2, <2>3, <2>4 DEF v
  <1>2. CASE op = "Sub"
    <2>1. v = EmitMinus(u, sign)  BY <1>2 DEF EmitUnary
    <2> HIDE DEF v
    <2>2. /\ v.ty \in LlvmTypes
          /\ v.tame => u.tame /\ v.truth = 0 - u.truth
          /\ IsInt(u) => IsInt(v)
          /\ Exact(u) => Exact(v)
      BY <2>1, MinusFacts
    <2>3. ConstUnary(op, u.truth) = 0 - u.truth  BY <1>2 DEF ConstUnary
    <2>4. QED  BY <2>2, <2>3 DEF v
  <1>3. CASE op = "Add"
    <2>1. v = u  BY <1>3 DEF EmitUnary
    <2>2. ConstUnary(op, u.truth) = u.truth  BY <1>3 DEF ConstUnary
    <2> HIDE DEF v
    <2>3. QED  BY <2>1, <2>2 DEF v
  <1>4. QED  BY <1>1, <1>2, <1>3

IntOps == Arithmetic \cup Comparison \cup Shift \cup Bitwise

\* What a binary instruction yields for two operands of one type.
LEMMA BinaryFacts ==
    ASSUME NEW op, NEW a, NEW b, NEW sign \in BOOLEAN, a.ty = b.ty, a.ty \in LlvmTypes
    PROVE  LET v == EmitBinary(op, a, b, sign) IN
           /\ v.ty \in LlvmTypes
           /\ v.tame => a.tame /\ b.tame
           /\ IsInt(a) /\ (v.tame \/ op \in IntOps) => IsInt(v)
           /\ op # "Lsft" /\ Exact(a) /\ Exact(b) => Exact(v)
  <1> DEFINE v == EmitBinary(op, a, b, sign)
             Good == /\ v.ty \in LlvmTypes
                     /\ v.tame => a.tame /\ b.tame
                     /\ IsInt(a) /\ (v.tame \/ op \in IntOps) => IsInt(v)
                     /\ op # "Lsft" /\ Exact(a) /\ Exact(b) => Exact(v)
  <1> SUFFICES Good
    OBVIOUS
  <1>1. \/ op \in Arithmetic /\ v = EmitArithmetic(op, a, b, sign)
        \/ op = "Div" /\ IsReal(a) /\ v = EmitDivide(a, b)
        \/ op \in Comparison /\ IsInt(a) /\ v = EmitCompare(op, a, b, sign)
        \/ op \in Shift /\ IsInt(a) /\ v = EmitShift(op, a, b)
        \/ op \in Bitwise /\ IsInt(a) /\ v = EmitBitwise(op, a, b)
        \/ op \in Logical /\ a.ty = I1 /\ v = EmitLogical(op, a, b)
        \/ ~(IsInt(a) /\ op \in IntOps) /\ v = Invalid
    BY DEF EmitBinary, IntOps
  <1> HIDE DEF v
  <1>2. CASE op \in Arithmetic /\ v = EmitArithmetic(op, a, b, sign)
    <2>1. /\ v.ty = a.ty
          /\ v.tame => a.tame /\ b.tame
          /\ Exact(a) /\ Exact(b) => Exact(v)
      BY <1>2, ArithmeticFacts
    <2>2. QED  BY <2>1 DEF IsInt
  <1>3. CASE op = "Div" /\ IsReal(a) /\ v = EmitDivide(a, b)
    <2>1. /\ v.ty = a.ty
          /\ v.tame => a.tame /\ b.tame
          /\ Exact(a) /\ Exact(b) => Exact(v)
      BY <1>3, DivideFacts
    <2>2. QED  BY <2>1 DEF IsInt
  <1>4. CASE op \in Comparison /\ IsInt(a) /\ v = EmitCompare(op, a, b, sign)
    <2>1. /\ v.ty = I1
          /\ v.tame => a.tame /\ b.tame
          /\ Exact(a) /\ Exact(b) => Exact(v)
      BY <1>4, CompareFacts
    <2>2. QED  BY <2>1, OneBitType DEF IsInt
  <1>5. CASE op \in Shift /\ IsInt(a) /\ v = EmitShift(op, a, b)
    <2>1. /\ v.ty = a.ty
          /\ v.tame => a.tame /\ b.tame
          /\ op # "Lsft" /\ Exact(a) /\ Exact(b) => Exact(v)
      BY <1>5, ShiftFacts
    <2>2. QED  BY <2>1 DEF IsInt
  <1>6. CASE op \in Bitwise /\ IsInt(a) /\ v = EmitBitwise(op, a, b)
    <2>1. /\ v.ty = a.ty
          /\ v.tame => a.tame /\ b.tame
          /\ Exact(a) /\ Exact(b) => Exact(v)
      BY <1>6, BitwiseFacts
    <2>2. QED  BY <2>1 DEF IsInt
  <1>7. CASE op \in Logical /\ a.ty = I1 /\ v = EmitLogical(op, a, b)
    <2>1. /\ v.ty = I1
          /\ v.tame => a.tame /\ b.tame
          /\ Exact(a) /\ Exact(b) => Exact(v)
      BY <1>7, LogicalFacts
    <2>2. QED  BY <2>1, OneBitType DEF IsInt
  <1>8. CASE ~(IsInt(a) /\ op \in IntOps) /\ v = Invalid
    <2>1. v.ty \in LlvmTypes  BY <1>8 DEF LlvmTypes
    <2>2. QED  BY <1>8, <2>1, InvalidExact
  <1>9. QED  BY <1>1, <1>2, <1>3, <1>4, <1>5, <1>6, <1>7, <1>8

\* Products and sums of bits.
LEMMA BothBits ==
    ASSUME NEW op \in Logical, NEW x \in 0 .. 1, NEW y \in 0 .. 1
    PROVE  {Both(op, x, y)} = ConstBinary(op, x, y)
  <1>1. op = "Or" \/ op = "And"  BY DEF Logical
  <1>2. ConstBinary(op, x, y) =
            {Num(IF op = "Or" THEN x # 0 \/ y # 0 ELSE x # 0 /\ y # 0)}
    BY <1>1 DEF ConstBinary, Arithmetic, Comparison, Bitwise
  <1>3. (x = 0 \/ x = 1) /\ (y = 0 \/ y = 1)  OBVIOUS
  <1>4. Both(op, x, y) = Num(IF op = "Or" THEN x # 0 \/ y # 0 ELSE x # 0 /\ y # 0)
    <2>1. CASE op = "Or"
      <3>1. Both(op, x, y) = x + y - x * y  BY <2>1 DEF Both
      <3>2. QED  BY <1>3, <2>1, <3>1 DEF Num
    <2>2. CASE op = "And"
      <3>1. Both(op, x, y) = x * y  BY <2>2 DEF Both
      <3>2. QED  BY <1>3, <2>2, <3>1 DEF Num
    <2>3. QED  BY <1>1, <2>1, <2>2
  <1>5. QED  BY <1>2, <1>4

\* For integers, getConstIntByExpr computes what the instruction yields, where that is
\* what is meant.
LEMMA ConstBinaryAgrees ==
    ASSUME NEW op \in BinaryOp, NEW a, NEW b, NEW sign \in BOOLEAN, a.ty = b.ty, IsInt(a),
           Exact(a), Exact(b), op # "Lsft", EmitBinary(op, a, b, sign).tame
    PROVE  ConstBinary(op, a.truth, b.truth) = {EmitBinary(op, a, b, sign).truth}
  <1> DEFINE v == EmitBinary(op, a, b, sign)
             x == a.truth
             y == b.truth
             Good == ConstBinary(op, x, y) = {v.truth}
  <1> SUFFICES Good
    OBVIOUS
  <1>0. ~IsReal(a)  BY DEF IsInt, IsReal, FPType
  <1>1. \/ op \in Arithmetic /\ v = EmitArithmetic(op, a, b, sign)
        \/ op \in Comparison /\ v = EmitCompare(op, a, b, sign)
        \/ op \in Shift /\ v = EmitShift(op, a, b)
        \/ op \in Bitwise /\ v = EmitBitwise(op, a, b)
        \/ op \in Logical /\ a.ty = I1 /\ v = EmitLogical(op, a, b)
        \/ v = Invalid
    BY <1>0 DEF EmitBinary
  <1>2. a.ty \in LlvmTypes  BY DEF Exact
  <1>3. a.tame /\ b.tame  BY <1>2, BinaryFacts
  <1>4. x \in 0 .. Pow2[a.ty.w] - 1 /\ y \in 0 .. Pow2[a.ty.w] - 1
    BY <1>3 DEF Exact, Holds, IsInt
  <1>5. Pow2[a.ty.w] \in Nat  BY <1>2, IntTypes, Pow2Facts DEF IsInt
  <1>6. x \in Nat /\ y \in Nat  BY <1>4, <1>5
  <1>7. v.tame  OBVIOUS
  <1> HIDE DEF v
  <1>8. CASE op \in Arithmetic /\ v = EmitArithmetic(op, a, b, sign)
    <2>1. v.truth = Calculate(op, x, y)  BY <1>2, <1>8, ArithmeticFacts
    <2>2. ConstBinary(op, x, y) = {Calculate(op, x, y)}
      BY <1>8 DEF ConstBinary, Arithmetic, Comparison, Bitwise
    <2>3. QED  BY <2>1, <2>2
  <1>9. CASE op \in Comparison /\ v = EmitCompare(op, a, b, sign)
    <2>1. v.truth = Num(Compare(op, x, y))  BY <1>2, <1>9, CompareFacts
    <2>2. ConstBinary(op, x, y) = {Num(Compare(op, x, y))}
      BY <1>9 DEF ConstBinary, Arithmetic, Comparison, Bitwise
    <2>3. QED  BY <2>1, <2>2
  <1>10. CASE op \in Shift /\ v = EmitShift(op, a, b)
    <2>1. v.truth = x \div Pow2[y]  BY <1>2, <1>7, <1>10, ShiftFacts
    <2>2. op = "Rsft"  BY <1>10 DEF Shift
    <2>3. y >= 0  BY <1>6
    <2>4. ConstBinary(op, x, y) = {x \div Pow2[y]}
      BY <2>2, <2>3 DEF ConstBinary, Arithmetic, Comparison, Bitwise
    <2>5. QED  BY <2>1, <2>4
  <1>11. CASE op \in Bitwise /\ v = EmitBitwise(op, a, b)
    <2>1. v.truth = EachBit(op, x, y)  BY <1>2, <1>7, <1>11, BitwiseFacts
    <2>2. x >= 0 /\ y >= 0  BY <1>6
    <2>3. ConstBinary(op, x, y) = {EachBit(op, x, y)}
      BY <1>11, <2>2 DEF ConstBinary, Arithmetic, Comparison, Bitwise
    <2>4. QED  BY <2>1, <2>3
  <1>12. CASE op \in Logical /\ a.ty = I1 /\ v = EmitLogical(op, a, b)
    <2>1. v.truth = Both(op, x, y)  BY <1>12, LogicalFacts
    <2>2. x \in 0 .. 1 /\ y \in 0 .. 1
      <3>1. x \in 0 .. 2 - 1 /\ y \in 0 .. 2 - 1  BY <1>4, <1>12, OneBitType
      <3>2. QED  BY <3>1
    <2>3. QED  BY <1>12, <2>1, <2>2, BothBits
  <1>13. CASE v = Invalid  BY <1>7, <1>13, InvalidExact
  <1>14. QED  BY <1>1, <1>8, <1>9, <1>10, <1>11, <1>12, <1>13

-----------------------------------------------------------------------------
(* The tree that the builder walks.                                         *)

\* The shape of a node: how many operands it has, and which operators it may have.
Shaped(n) ==
    /\ n.kind \in {"IdIndexedRef", "Call", "Unary"} => Len(n.kids) = 1
    /\ n.kind = "Binary" => Len(n.kids) = 2 /\ n.op \in BinaryOp
    /\ n.kind = "IdIndexedRef" => n.op = "Int"
    /\ n.kind = "Call" => n.op \in ParamType \cup {"any"}
    /\ n.kind = "Unary" => n.op \in {"Not", "Sub", "Add"}

\* Only constants make a constant; what is assigned to is none.
FitsKids(n, tree) ==
    /\ n.const => /\ n.kind \in {"Number", "Unary", "Binary"}
                  /\ \A k \in DOMAIN n.kids : tree[n.kids[k]].const
    /\ n.kind = "Binary" /\ n.op = "Assign" =>
           tree[n.kids[1]].kind \in {"IdRef", "IdIndexedRef"}

Shapely == \A i \in Ids : Shaped(nodes[i]) /\ FitsKids(nodes[i], nodes)

\* An operand waits for nobody any more.
KidsClosed ==
    \A i \in Ids : \A k \in DOMAIN nodes[i].kids :
        \A j \in DOMAIN open : open[j] # nodes[i].kids[k]

\* Where literals are integers, constants have integer types until an operand that is
\* none gives them its own.
IntLiterals == \A i \in Ids : nodes[i].kind = "Number" => nodes[i].decl \in IntForm
IntegerConstants ==
    IntLiterals =>
        /\ \A j \in DOMAIN open : nodes[open[j]].const => nodes[open[j]].type \in IntType
        /\ \A i \in Ids : nodes[i].const =>
               \A k \in DOMAIN nodes[i].kids : nodes[nodes[i].kids[k]].type \in IntType

TreeInv == Shapely /\ KidsClosed /\ IntegerConstants

\* The nodes of tree are those of the expression, up to types and signs.
SameTree(tree) ==
    /\ SameShape(tree)
    /\ \A i \in Ids : tree[i].op = nodes[i].op /\ tree[i].decl = nodes[i].decl

\* The operands that a visitor takes.
Taken(n) == {open[j] : j \in Len(open) - n + 1 .. Len(open)}

\* What is left behind a visitor, by position.
LEMMA ReturnFacts ==
    ASSUME IInv, NEW tree, SameShape(tree), NEW node \in NodeType, NEW n \in 0 .. 2,
           n <= Len(open), Return(tree, node, n)
    PROVE  LET new == Len(nodes) + 1 IN
           /\ \A i \in Ids : nodes'[i] = tree[i]
           /\ nodes'[new] = node /\ Ids' = Ids \cup {new} /\ new \notin Ids
           /\ \A j \in DOMAIN open' :
                  \/ open'[j] = new
                  \/ open'[j] = open[j] /\ j \in DOMAIN open /\ j <= Len(open) - n
           /\ \A j \in DOMAIN open : open[j] \in Ids
           /\ UNCHANGED status /\ nodes' # <<>>
  <1> DEFINE left == OpenButLast(n)
             new == Len(nodes) + 1
  <1>1. /\ nodes \in Seq(NodeType) /\ open \in Seq(Ids) /\ Len(nodes) \in Nat
        /\ Len(open) \in Nat
    BY DEF IInv, TypeOK
  <1>2. /\ left \in Seq(Ids) /\ Len(left) = Len(open) - n
        /\ \A k \in 1 .. Len(open) - n : left[k] = open[k]
    <2>1. Len(open) - n \in 0 .. Len(open)
      BY <1>1
    <2>2. QED  BY <1>1, <2>1, PrefixAt DEF OpenButLast
  <1>3. /\ nodes' \in Seq(NodeType) /\ Len(nodes') = new
        /\ \A i \in Ids : nodes'[i] = tree[i]
        /\ nodes'[new] = node
    <2>1. nodes' = Append(tree, node) /\ tree \in Seq(NodeType) /\ Len(tree) = Len(nodes)
      BY DEF Return, SameShape
    <2>2. QED  BY <2>1, AppendAt DEF Ids
  <1>4. Ids' = Ids \cup {new} /\ new \notin Ids /\ nodes' # <<>>
    BY <1>1, <1>3 DEF Ids
  <1>5. open' = Append(left, new)
    BY DEF Return
  <1>6. /\ DOMAIN open' = 1 .. Len(open) - n + 1
        /\ \A k \in 1 .. Len(open) - n : open'[k] = open[k]
        /\ open'[Len(open) - n + 1] = new
    <2>1. left \in Seq(Ids \cup {new})
      BY <1>2, SeqMonotone
    <2>2. Len(open) - n \in Nat
      BY <1>1
    <2>3. /\ open' \in Seq(Ids \cup {new}) /\ Len(open') = Len(left) + 1
          /\ \A k \in 1 .. Len(left) : open'[k] = left[k]
          /\ open'[Len(left) + 1] = new
      BY <1>5, <2>1, AppendAt
    <2>4. DOMAIN open' = 1 .. Len(open')
      BY <2>3
    <2>5. QED  BY <1>2, <2>2, <2>3, <2>4
  <1>7. \A j \in DOMAIN open' :
            \/ open'[j] = new
            \/ open'[j] = open[j] /\ j \in DOMAIN open /\ j <= Len(open) - n
    <2> DEFINE m == Len(open) - n
    <2>1. m \in Nat /\ m <= Len(open)  BY <1>1
    <2>2. DOMAIN open = 1 .. Len(open)  BY <1>1
    <2>3. \A j \in 1 .. m + 1 : j = m + 1 \/ (j \in 1 .. m /\ j <= m /\ j \in 1 .. Len(open))
      <3> HIDE DEF m
      <3>1. QED  BY <1>1, <2>1
    <2>4. QED  BY <1>6, <2>2, <2>3
  <1>8. UNCHANGED status  BY DEF Return
  <1>9. QED  BY <1>1, <1>3, <1>4, <1>7, <1>8

\* Whatever visitor returns, the tree keeps its shape, if its node has it, its operands
\* are the last ones that wait, and only those get another type.
LEMMA ReturnKeepsTree ==
    ASSUME IInv, TreeInv, NEW tree, SameTree(tree), NEW node \in NodeType, NEW n \in 0 .. 2,
           n <= Len(open), Return(tree, node, n),
           Shaped(node), FitsKids(node, nodes),
           \A k \in DOMAIN node.kids : node.kids[k] \in Taken(n),
           \A i \in Ids \ Taken(n) : tree[i] = nodes[i],
           IntLiterals /\ (node.kind = "Number" => node.decl \in IntForm) /\ node.const =>
               /\ node.type \in IntType
               /\ \A k \in DOMAIN node.kids : tree[node.kids[k]].type \in IntType
    PROVE  TreeInv'
  <1> DEFINE new == Len(nodes) + 1
  <1>1. /\ \A i \in Ids : nodes'[i] = tree[i]
        /\ nodes'[new] = node /\ Ids' = Ids \cup {new} /\ new \notin Ids
        /\ \A j \in DOMAIN open' :
               \/ open'[j] = new
               \/ open'[j] = open[j] /\ j \in DOMAIN open /\ j <= Len(open) - n
        /\ \A j \in DOMAIN open : open[j] \in Ids
    BY ReturnFacts DEF SameTree
  <1>2. \A i \in Ids : /\ nodes'[i].kids = nodes[i].kids /\ nodes'[i].kind = nodes[i].kind
                       /\ nodes'[i].const = nodes[i].const /\ nodes'[i].op = nodes[i].op
                       /\ nodes'[i].decl = nodes[i].decl
    BY <1>1 DEF SameTree, SameShape
  <1>3. \A i \in Ids : \A k \in DOMAIN nodes[i].kids : nodes[i].kids[k] \in Ids
    <2>1. \A i \in Ids : \A m \in 1 .. i - 1 : m \in Ids
      <3>1. Len(nodes) \in Nat  BY DEF IInv, TypeOK
      <3>2. QED  BY <3>1 DEF Ids
    <2>2. QED  BY <2>1 DEF IInv, TypeOK
  <1>4. open \in Seq(Ids) /\ DOMAIN open = 1 .. Len(open) /\ Len(open) \in Nat
    BY DEF IInv, TypeOK
  <1>5. Taken(n) \subseteq Ids /\ \A i \in Taken(n) : \E j \in DOMAIN open :
                                      i = open[j] /\ j > Len(open) - n
    <2> SUFFICES ASSUME NEW j \in Len(open) - n + 1 .. Len(open)
                 PROVE  open[j] \in Ids /\ j \in DOMAIN open /\ j > Len(open) - n
      BY DEF Taken
    <2>1. j \in DOMAIN open /\ j > Len(open) - n  BY <1>4
    <2>2. QED  BY <1>1, <2>1
  <1>6. \A i \in Ids : \A k \in DOMAIN nodes[i].kids : nodes[i].kids[k] \notin Taken(n)
    BY <1>5 DEF TreeInv, KidsClosed
  <1>7. \A j \in DOMAIN open : j <= Len(open) - n => open[j] \notin Taken(n)
    <2> SUFFICES ASSUME NEW j \in DOMAIN open, j <= Len(open) - n, open[j] \in Taken(n)
                 PROVE  FALSE
      OBVIOUS
    <2>1. PICK h \in DOMAIN open : open[j] = open[h] /\ h > Len(open) - n
      BY <1>5
    <2>2. j = h  BY <2>1 DEF IInv, OpenDistinct
    <2>3. QED  BY <1>4, <2>1, <2>2
  <1>8. \A k \in DOMAIN node.kids : node.kids[k] \in Ids
    BY <1>5
  <1>9. Shapely'
    <2>1. ASSUME NEW i \in Ids PROVE Shaped(nodes'[i]) /\ FitsKids(nodes'[i], nodes')
      <3>1. Shaped(nodes[i]) /\ FitsKids(nodes[i], nodes)
        BY DEF TreeInv, Shapely
      <3>2. Shaped(nodes'[i])
        BY <1>2, <3>1 DEF Shaped
      <3>3. \A k \in DOMAIN nodes[i].kids :
                /\ nodes'[nodes[i].kids[k]].const = nodes[nodes[i].kids[k]].const
                /\ nodes'[nodes[i].kids[k]].kind = nodes[nodes[i].kids[k]].kind
        BY <1>2, <1>3
      <3>4. nodes[i].kind = "Binary" => 1 \in DOMAIN nodes[i].kids
        <4>1. nodes[i].kids \in Seq(Nat)
          BY NodeFields DEF IInv, TypeOK, Ids
        <4>2. QED  BY <3>1, <4>1 DEF Shaped
      <3>5. QED  BY <1>2, <3>1, <3>2, <3>3, <3>4 DEF FitsKids
    <2>2. FitsKids(nodes'[new], nodes')
      <3>1. \A k \in DOMAIN node.kids :
                /\ nodes'[node.kids[k]].const = nodes[node.kids[k]].const
                /\ nodes'[node.kids[k]].kind = nodes[node.kids[k]].kind
        BY <1>2, <1>8
      <3>2. node.kind = "Binary" => 1 \in DOMAIN node.kids
        BY NodeFields DEF Shaped
      <3>3. QED  BY <1>1, <3>1, <3>2 DEF FitsKids
    <2>3. QED  BY <1>1, <2>1, <2>2 DEF Shapely
  <1>10. KidsClosed'
    <2> SUFFICES ASSUME NEW i \in Ids', NEW k \in DOMAIN nodes'[i].kids,
                        NEW j \in DOMAIN open', open'[j] = nodes'[i].kids[k]
                 PROVE  FALSE
      BY DEF KidsClosed
    <2>1. CASE i \in Ids
      <3>1. nodes'[i].kids[k] = nodes[i].kids[k] /\ k \in DOMAIN nodes[i].kids
        BY <1>2, <2>1
      <3>2. open'[j] = open[j] /\ j \in DOMAIN open
        BY <1>1, <1>3, <2>1, <3>1
      <3>3. QED  BY <2>1, <3>1, <3>2 DEF TreeInv, KidsClosed
    <2>2. CASE i = new
      <3>1. open'[j] \in Taken(n)
        BY <1>1, <2>2
      <3>2. open'[j] = open[j] /\ j \in DOMAIN open /\ j <= Len(open) - n
        BY <1>1, <1>5, <3>1
      <3>3. QED  BY <1>7, <3>1, <3>2
    <2>3. QED  BY <1>1, <2>1, <2>2
  <1>11. IntegerConstants'
    <2> SUFFICES ASSUME IntLiterals'
                 PROVE  /\ \A j \in DOMAIN open' :
                               nodes'[open'[j]].const => nodes'[open'[j]].type \in IntType
                        /\ \A i \in Ids' : nodes'[i].const =>
                               \A k \in DOMAIN nodes'[i].kids :
                                   nodes'[nodes'[i].kids[k]].type \in IntType
      BY DEF IntegerConstants
    <2>1. IntLiterals /\ (node.kind = "Number" => node.decl \in IntForm)
      BY <1>1, <1>2 DEF IntLiterals
    <2>2. ASSUME NEW j \in DOMAIN open', nodes'[open'[j]].const
          PROVE  nodes'[open'[j]].type \in IntType
      <3>1. CASE open'[j] = new
        BY <1>1, <2>1, <2>2, <3>1
      <3>2. CASE open'[j] = open[j] /\ j \in DOMAIN open /\ j <= Len(open) - n
        <4>1. open[j] \in Ids \ Taken(n)  BY <1>1, <1>7, <3>2
        <4>2. nodes'[open'[j]] = nodes[open[j]]  BY <1>1, <3>2, <4>1
        <4>3. QED  BY <2>1, <2>2, <3>2, <4>2 DEF TreeInv, IntegerConstants
      <3>3. QED  BY <1>1, <3>1, <3>2
    <2>3. ASSUME NEW i \in Ids', nodes'[i].const, NEW k \in DOMAIN nodes'[i].kids
          PROVE  nodes'[nodes'[i].kids[k]].type \in IntType
      <3>1. CASE i = new
        BY <1>1, <1>8, <2>1, <2>3, <3>1
      <3>2. CASE i \in Ids
        <4> DEFINE kid == nodes[i].kids[k]
        <4>1. nodes'[i].kids[k] = kid /\ k \in DOMAIN nodes[i].kids
          BY <1>2, <3>2
        <4>2. kid \in Ids \ Taken(n)  BY <1>3, <1>6, <3>2, <4>1
        <4>3. nodes'[kid] = nodes[kid]  BY <1>1, <4>2
        <4>4. nodes[i].const  BY <1>2, <2>3, <3>2
        <4>5. QED  BY <2>1, <3>2, <4>1, <4>3, <4>4 DEF TreeInv, IntegerConstants
      <3>3. QED  BY <1>1, <3>1, <3>2
    <2>4. QED  BY <2>2, <2>3
  <1>12. QED  BY <1>9, <1>10, <1>11 DEF TreeInv

\* The fields that say what is in a node.
LEMMA LeafShape ==
    ASSUME NEW kind, NEW t
    PROVE  Leaf(kind, t).kind = kind /\ Leaf(kind, t).kids = <<>> /\ ~Leaf(kind, t).const
  BY DEF Leaf

\* A node over one operand, whose type is its own.
LEMMA OverLeafShape ==
    ASSUME NEW kind, NEW t, NEW op, NEW kids
    PROVE  LET n == Over(Leaf(kind, t), op, kids) IN
           n.kind = kind /\ n.kids = kids /\ n.op = op /\ ~n.const
  BY DEF Leaf, Over

\* A node over operands, whose sign is one of theirs.
LEMMA OverSignShape ==
    ASSUME NEW kind, NEW a, NEW c \in BOOLEAN, NEW op, NEW kids
    PROVE  LET n == Over(WithSign(kind, a, c), op, kids) IN
           n.kind = kind /\ n.kids = kids /\ n.op = op /\ n.type = a.type /\ (n.const <=> c)
  BY DEF Leaf, Over, WithSign

\* An unchanged tree, and the operand of an expression that has one.
LEMMA TreeFacts ==
    ASSUME IInv, TreeInv, Checking
    PROVE  /\ SameTree(nodes)
           /\ open # <<>> => /\ open[Len(open)] \in Taken(1) /\ open[Len(open)] \in Ids
                             /\ Len(open) \in DOMAIN open /\ 1 <= Len(open)
                             /\ nodes[open[Len(open)]] \in NodeType
           /\ Len(open) >= 2 => /\ open[Len(open)] \in Taken(2)
                                /\ open[Len(open) - 1] \in Taken(2)
                                /\ Taken(2) = {open[Len(open) - 1], open[Len(open)]}
                                /\ Len(open) \in DOMAIN open /\ Len(open) - 1 \in DOMAIN open
  <1>1. SameTree(nodes)
    BY CheckingFacts DEF SameTree
  <1>2. /\ open \in Seq(Ids) /\ Len(open) \in Nat /\ DOMAIN open = 1 .. Len(open)
    BY DEF IInv, TypeOK
  <1>3. ASSUME open # <<>>
        PROVE  /\ open[Len(open)] \in Taken(1) /\ open[Len(open)] \in Ids
               /\ Len(open) \in DOMAIN open /\ 1 <= Len(open)
               /\ nodes[open[Len(open)]] \in NodeType
    <2>1. 1 <= Len(open) /\ open[Len(open)] \in Ids /\ nodes[open[Len(open)]] \in NodeType
      BY <1>3, LastOperand
    <2>2. Len(open) \in Len(open) - 1 + 1 .. Len(open) /\ Len(open) \in DOMAIN open
      BY <1>2, <2>1
    <2>3. QED  BY <2>1, <2>2 DEF Taken
  <1>4. ASSUME Len(open) >= 2
        PROVE  /\ open[Len(open)] \in Taken(2)
               /\ open[Len(open) - 1] \in Taken(2)
               /\ Taken(2) = {open[Len(open) - 1], open[Len(open)]}
               /\ Len(open) \in DOMAIN open /\ Len(open) - 1 \in DOMAIN open
    <2>1. \A j : j \in Len(open) - 2 + 1 .. Len(open) <=> j = Len(open) - 1 \/ j = Len(open)
      BY <1>2, <1>4
    <2>2. Len(open) \in DOMAIN open /\ Len(open) - 1 \in DOMAIN open
      BY <1>2, <1>4
    <2>3. Taken(2) = {open[Len(open) - 1], open[Len(open)]}
      BY <2>1 DEF Taken
    <2>4. QED  BY <2>2, <2>3
  <1>5. QED  BY <1>1, <1>3, <1>4

\* visit(IdRefAST), visit(NumberExprAST).
LEMMA LeafKeepsTree ==
    ASSUME IInv, TreeInv, Checking, NEW node \in NodeType, Return(nodes, node, 0),
           node.kids = <<>>, node.kind \in {"IdRef", "Number"},
           node.const => node.kind = "Number",
           node.kind = "Number" => node.type = node.decl
    PROVE  TreeInv'
  <1>1. SameTree(nodes) /\ 0 \in 0 .. 2 /\ 0 <= Len(open)
    BY TreeFacts, CheckingFacts
  <1>2. Shaped(node) /\ FitsKids(node, nodes)
    BY DEF Shaped, FitsKids
  <1>3. IntForm \subseteq IntType
    BY ConstantsAssumption DEF IntForm
  <1>4. DOMAIN node.kids = {}
    OBVIOUS
  <1>5. (node.kind = "Number" => node.decl \in IntForm) /\ node.const => node.type \in IntType
    BY <1>3
  <1>6. QED  BY <1>1, <1>2, <1>4, <1>5, ReturnKeepsTree

\* A variable.
LEMMA IdRefKeepsTree == ASSUME IInv, TreeInv, VisitIdRef PROVE TreeInv'
  <1>1. PICK t \in Variables : Return(nodes, Leaf("IdRef", t), 0)
    BY DEF VisitIdRef
  <1> DEFINE node == Leaf("IdRef", t)
  <1>2. t \in ValueType \cup {"Void"}  BY ConstantsAssumption
  <1>3. node.kind = "IdRef" /\ ~node.const /\ node.kids = <<>>  BY LeafShape
  <1>4. node \in NodeType  BY <1>2, LeafIsNode
  <1> HIDE DEF node
  <1>5. Checking /\ Return(nodes, node, 0)  BY <1>1 DEF VisitIdRef, node
  <1>6. QED  BY <1>3, <1>4, <1>5, LeafKeepsTree

\* A literal: it has the type of its form.
LEMMA NumberKeepsTree == ASSUME IInv, TreeInv, VisitNumber PROVE TreeInv'
  <1>1. PICK n \in Literal, garbage \in BOOLEAN, t \in Forms :
            Return(nodes, [Leaf("Number", t) EXCEPT !.lit = n, !.const = TRUE,
                                                  !.sign = garbage], 0)
    BY DEF VisitNumber
  <1> DEFINE node == [Leaf("Number", t) EXCEPT !.lit = n, !.const = TRUE, !.sign = garbage]
  <1>2. t \in ValueType \cup {"Void"} /\ n \in Nat  BY ConstantsAssumption
  <1>3. Leaf("Number", t) \in NodeType  BY <1>2, LeafIsNode
  <1>4. node \in NodeType  BY <1>2, <1>3 DEF NodeType
  <1>5. node.kind = "Number" /\ node.kids = <<>> /\ node.type = t /\ node.decl = t
    BY DEF Leaf
  <1> HIDE DEF node
  <1>6. Checking /\ Return(nodes, node, 0)  BY <1>1 DEF VisitNumber, node
  <1>7. QED  BY <1>4, <1>5, <1>6, LeafKeepsTree

\* visit(IdIndexedRefAST), visit(CallExprAST), visit(UnaryExprAST).
LEMMA OperandKeepsTree ==
    ASSUME IInv, TreeInv, Checking, open # <<>>, NEW node \in NodeType,
           Return(nodes, node, 1), node.kids = <<open[Len(open)]>>,
           node.kind \in {"IdIndexedRef", "Call", "Unary"}, Shaped(node),
           node.const => /\ node.kind = "Unary" /\ nodes[open[Len(open)]].const
                         /\ node.type = nodes[open[Len(open)]].type
    PROVE  TreeInv'
  <1> DEFINE kid == open[Len(open)]
  <1>1. /\ SameTree(nodes) /\ kid \in Taken(1) /\ kid \in Ids
        /\ Len(open) \in DOMAIN open /\ 1 <= Len(open) /\ 1 \in 0 .. 2
    BY TreeFacts
  <1>2. DOMAIN node.kids = {1} /\ node.kids[1] = kid
    OBVIOUS
  <1>3. FitsKids(node, nodes)
    BY <1>2 DEF FitsKids
  <1>4. IntLiterals /\ node.const => node.type \in IntType /\ nodes[kid].type \in IntType
    BY <1>1 DEF TreeInv, IntegerConstants
  <1> HIDE DEF kid
  <1>5. QED  BY <1>1, <1>2, <1>3, <1>4, ReturnKeepsTree

\* An element: its index waits for nobody any more.
LEMMA IdIndexedRefKeepsTree == ASSUME IInv, TreeInv, VisitIdIndexedRef PROVE TreeInv'
  <1>1. PICK t \in Variables :
            Return(nodes, Over(Leaf("IdIndexedRef", t), "Int", <<open[Len(open)]>>), 1)
    BY DEF VisitIdIndexedRef
  <1> DEFINE kids == <<open[Len(open)]>>
             node == Over(Leaf("IdIndexedRef", t), "Int", kids)
  <1>2. Checking /\ open # <<>>  BY DEF VisitIdIndexedRef
  <1>3. kids \in Seq(Nat) /\ Len(kids) = 1
    <2>1. open[Len(open)] \in Nat  BY <1>2, TreeFacts DEF Ids
    <2>2. QED  BY <2>1
  <1> HIDE DEF kids
  <1>4. node.kind = "IdIndexedRef" /\ node.op = "Int" /\ node.kids = kids /\ ~node.const
    BY OverLeafShape
  <1>5. node \in NodeType
    <2>1. Leaf("IdIndexedRef", t) \in NodeType
      BY LeafIsNode, ConstantsAssumption
    <2>2. "Int" \in {"", "any", "Not"} \cup ValueType \cup BinaryOp
      BY ConstantsAssumption DEF ValueType
    <2>3. QED  BY <1>3, <2>1, <2>2, OverNode
  <1> HIDE DEF node
  <1>6. Shaped(node)  BY <1>3, <1>4 DEF Shaped
  <1>7. Return(nodes, node, 1) /\ node.kids = <<open[Len(open)]>>
    BY <1>1, <1>4 DEF node, kids
  <1>8. QED  BY <1>2, <1>4, <1>5, <1>6, <1>7, OperandKeepsTree

\* A call.
LEMMA CallKeepsTree == ASSUME IInv, TreeInv, VisitCall PROVE TreeInv'
  <1>1. PICK t \in Returns, p \in ParamType \cup {"any"} :
            Return(nodes, Over(Leaf("Call", t), p, <<open[Len(open)]>>), 1)
    BY DEF VisitCall
  <1> DEFINE kids == <<open[Len(open)]>>
             node == Over(Leaf("Call", t), p, kids)
  <1>2. Checking /\ open # <<>>  BY DEF VisitCall
  <1>3. kids \in Seq(Nat) /\ Len(kids) = 1
    <2>1. open[Len(open)] \in Nat  BY <1>2, TreeFacts DEF Ids
    <2>2. QED  BY <2>1
  <1> HIDE DEF kids
  <1>4. node.kind = "Call" /\ node.op = p /\ node.kids = kids /\ ~node.const
    BY OverLeafShape
  <1>5. node \in NodeType
    <2>1. Leaf("Call", t) \in NodeType
      BY LeafIsNode, ConstantsAssumption
    <2>2. p \in {"", "any", "Not"} \cup ValueType \cup BinaryOp
      BY ConstantsAssumption
    <2>3. QED  BY <1>3, <2>1, <2>2, OverNode
  <1> HIDE DEF node
  <1>6. Shaped(node)  BY <1>3, <1>4 DEF Shaped
  <1>7. Return(nodes, node, 1) /\ node.kids = <<open[Len(open)]>>
    BY <1>1, <1>4 DEF node, kids
  <1>8. QED  BY <1>2, <1>4, <1>5, <1>6, <1>7, OperandKeepsTree

\* A unary expression is constant if its operand is.
LEMMA UnaryKeepsTree == ASSUME IInv, TreeInv, VisitUnary PROVE TreeInv'
  <1> DEFINE kid == nodes[open[Len(open)]]
             bare == WithSign("Unary", Attr(kid), kid.const)
  <1>1. PICK op \in {"Not", "Sub", "Add"} :
            Return(nodes, Over(bare, op, <<open[Len(open)]>>), 1)
    BY DEF VisitUnary
  <1> DEFINE kids == <<open[Len(open)]>>
             node == Over(bare, op, kids)
  <1>2. Checking /\ open # <<>>  BY DEF VisitUnary
  <1>3. kids \in Seq(Nat) /\ Len(kids) = 1
    <2>1. open[Len(open)] \in Nat  BY <1>2, TreeFacts DEF Ids
    <2>2. QED  BY <2>1
  <1>4. kid \in NodeType  BY <1>2, TreeFacts
  <1> HIDE DEF kids, kid
  <1>5. Attr(kid) \in AttrType /\ kid.const \in BOOLEAN /\ Attr(kid).type = kid.type
    BY <1>4, NodeFields
  <1>6. /\ node.kind = "Unary" /\ node.op = op /\ node.kids = kids
        /\ node.const <=> kid.const
        /\ node.type = kid.type
    BY <1>5, OverSignShape
  <1>7. node \in NodeType
    <2>1. bare \in NodeType  BY <1>5, SignedLeaf
    <2>2. op \in {"", "any", "Not"} \cup ValueType \cup BinaryOp
      BY DEF BinaryOp
    <2> HIDE DEF bare
    <2>3. QED  BY <1>3, <2>1, <2>2, OverNode
  <1> HIDE DEF node, bare
  <1>8. Shaped(node)  BY <1>3, <1>6 DEF Shaped
  <1>9. Return(nodes, node, 1) /\ node.kids = <<open[Len(open)]>>
    BY <1>1, <1>6 DEF node, kids
  <1>10. QED  BY <1>2, <1>6, <1>7, <1>8, <1>9, OperandKeepsTree DEF kid

\* The tree in which two operands get other types and signs.
RetypedPair(l, r, m) ==
    [nodes EXCEPT ![l].type = m.l.type, ![l].sign = m.l.sign,
                  ![r].type = m.r.type, ![r].sign = m.r.sign]

\* matchType overwrites nothing but the type and the sign of an operand.
LEMMA RetypedFields ==
    ASSUME NEW n \in NodeType, NEW a \in AttrType
    PROVE  /\ Retyped(n, a).op = n.op /\ Retyped(n, a).decl = n.decl
           /\ Retyped(n, a).type = a.type
  BY DEF NodeType, AttrType, Retyped

\* The visitor of a binary expression overwrites its two operands and no other node.
LEMMA RetypedTree ==
    ASSUME IInv, NEW l \in Ids, NEW r \in Ids, l # r, NEW m, m.l \in AttrType, m.r \in AttrType
    PROVE  LET tree == RetypedPair(l, r, m) IN
           /\ SameTree(tree)
           /\ \A i \in Ids \ {l, r} : tree[i] = nodes[i]
           /\ tree[l].type = m.l.type /\ tree[r].type = m.r.type
  <1> DEFINE tree == RetypedPair(l, r, m)
  <1> HIDE DEF tree
  <1>1. /\ nodes \in Seq(NodeType) /\ Len(nodes) \in Nat
        /\ DOMAIN nodes = Ids /\ \A i \in Ids : nodes[i] \in NodeType
    BY DEF IInv, TypeOK, Ids
  <1>2. /\ tree = [i \in Ids |-> tree[i]]
        /\ \A i \in Ids \ {l, r} : tree[i] = nodes[i]
        /\ tree[l] = Retyped(nodes[l], m.l)
        /\ tree[r] = Retyped(nodes[r], m.r)
    BY <1>1 DEF tree, Retyped, RetypedPair
  <1>3. /\ tree[l] \in NodeType /\ tree[l].kids = nodes[l].kids
        /\ tree[l].kind = nodes[l].kind /\ tree[l].const = nodes[l].const
        /\ tree[l].op = nodes[l].op /\ tree[l].decl = nodes[l].decl
        /\ tree[l].type = m.l.type
    <2>1. nodes[l] \in NodeType  BY <1>1
    <2>2. QED  BY <1>2, <2>1, RetypedNode, RetypedFields
  <1>4. /\ tree[r] \in NodeType /\ tree[r].kids = nodes[r].kids
        /\ tree[r].kind = nodes[r].kind /\ tree[r].const = nodes[r].const
        /\ tree[r].op = nodes[r].op /\ tree[r].decl = nodes[r].decl
        /\ tree[r].type = m.r.type
    <2>1. nodes[r] \in NodeType  BY <1>1
    <2>2. QED  BY <1>2, <2>1, RetypedNode, RetypedFields
  <1>5. \A i \in Ids : /\ tree[i] \in NodeType /\ tree[i].kids = nodes[i].kids
                       /\ tree[i].kind = nodes[i].kind /\ tree[i].const = nodes[i].const
                       /\ tree[i].op = nodes[i].op /\ tree[i].decl = nodes[i].decl
    BY <1>1, <1>2, <1>3, <1>4
  <1>6. tree \in [1 .. Len(nodes) -> NodeType]
    BY <1>2, <1>5 DEF Ids
  <1>7. tree \in Seq(NodeType) /\ Len(tree) = Len(nodes)
    BY <1>1, <1>6
  <1>8. SameTree(tree)
    BY <1>5, <1>7 DEF SameTree, SameShape
  <1>9. QED  BY <1>2, <1>3, <1>4, <1>8 DEF tree

\* A pair of operands that is typed leaves the tree in shape.
LEMMA TypedKeepsTree ==
    ASSUME IInv, TreeInv, Checking, Len(open) >= 2, NEW op \in BinaryOp, NEW l, NEW r, NEW m,
           l = open[Len(open) - 1], r = open[Len(open)],
           m.l \in AttrType, m.r \in AttrType, m.by \in AttrType,
           Typed(op, l, r, m),
           op = "Assign" => IsTarget(l),
           nodes[l].const /\ nodes[r].const
           /\ nodes[l].type \in IntType /\ nodes[r].type \in IntType =>
               {m.l.type, m.r.type, m.by.type} \subseteq IntType
    PROVE  TreeInv'
  <1> DEFINE tree == RetypedPair(l, r, m)
             const == nodes[l].const /\ nodes[r].const
             node == Over(WithSign("Binary", m.by, const), op, <<l, r>>)
  <1> HIDE DEF tree, node
  <1>1. /\ Taken(2) = {l, r} /\ Len(open) \in DOMAIN open /\ Len(open) - 1 \in DOMAIN open
        /\ 2 \in 0 .. 2 /\ Len(open) # Len(open) - 1
    <2>1. Len(open) \in Nat  BY DEF IInv, TypeOK
    <2>2. \A x \in Nat : x # x - 1  OBVIOUS
    <2>3. QED  BY <2>1, <2>2, TreeFacts
  <1>2. l \in Ids /\ r \in Ids /\ l # r
    <2>1. \A j \in DOMAIN open : open[j] \in Ids  BY DEF IInv, TypeOK
    <2>2. QED  BY <1>1, <2>1 DEF IInv, OpenDistinct
  <1>3. /\ SameTree(tree)
        /\ \A i \in Ids \ {l, r} : tree[i] = nodes[i]
        /\ tree[l].type = m.l.type /\ tree[r].type = m.r.type
    BY <1>2, RetypedTree DEF tree
  <1>4. nodes[l] \in NodeType /\ nodes[r] \in NodeType /\ const \in BOOLEAN
    <2>1. nodes[l] \in NodeType /\ nodes[r] \in NodeType
      BY <1>2 DEF IInv, TypeOK, Ids
    <2>2. QED  BY <2>1, NodeFields
  <1>5. /\ node.kind = "Binary" /\ node.kids = <<l, r>> /\ node.op = op
        /\ node.type = m.by.type /\ (node.const <=> const)
    <2> HIDE DEF const
    <2>1. QED  BY <1>4, OverSignShape DEF node
  <1>6. node \in NodeType
    <2>1. WithSign("Binary", m.by, const) \in NodeType
      BY <1>4, SignedLeaf
    <2>2. <<l, r>> \in Seq(Nat)  BY <1>2 DEF Ids
    <2>3. op \in {"", "any", "Not"} \cup ValueType \cup BinaryOp  OBVIOUS
    <2>4. QED  BY <2>1, <2>2, <2>3, OverNode DEF node
  <1>7. DOMAIN node.kids = {1, 2} /\ node.kids[1] = l /\ node.kids[2] = r /\ Len(node.kids) = 2
    BY <1>5
  <1>8. Shaped(node)
    BY <1>5, <1>7 DEF Shaped
  <1>9. FitsKids(node, nodes)
    BY <1>5, <1>7 DEF FitsKids, IsTarget
  <1>10. ASSUME IntLiterals, node.const
         PROVE  /\ node.type \in IntType
                /\ \A k \in DOMAIN node.kids : tree[node.kids[k]].type \in IntType
    <2>1. nodes[l].type \in IntType /\ nodes[r].type \in IntType
      BY <1>1, <1>5, <1>10 DEF TreeInv, IntegerConstants
    <2>2. QED  BY <1>3, <1>5, <1>7, <1>10, <2>1
  <1>11. Return(tree, node, 2)
    BY DEF Typed, tree, node, RetypedPair
  <1>12. \A k \in DOMAIN node.kids : node.kids[k] \in Taken(2)
    BY <1>1, <1>7
  <1>13. QED
    BY <1>1, <1>3, <1>6, <1>8, <1>9, <1>10, <1>11, <1>12, ReturnKeepsTree

\* matchType leaves two integers integers.
LEMMA MatchedIntegers ==
    ASSUME NEW a \in AttrType, NEW b \in AttrType, NEW m \in Match(a, b),
           a.type \in IntType, b.type \in IntType
    PROVE  {m.l.type, m.r.type, m.by.type} \subseteq IntType
  <1>1. ~IsFP(a.type) /\ ~IsFP(b.type)
    BY ConstantsAssumption DEF IsFP
  <1>2. Overwrite(a, b) = b /\ Overwrite(b, a) = a
    BY <1>1 DEF Overwrite
  <1>3. {m.l, m.r, m.by} \subseteq {a, b}
    BY <1>2 DEF Match
  <1>4. QED  BY <1>3

\* visit(BinaryExprAST).
LEMMA BinaryKeepsTree == ASSUME IInv, TreeInv, VisitBinary PROVE TreeInv'
  <1> DEFINE l == open[Len(open) - 1]
             r == open[Len(open)]
             a == Attr(nodes[l])
             b == Attr(nodes[r])
  <1>1. Checking /\ Len(open) >= 2
    BY DEF VisitBinary
  <1>2. Len(open) \in 1 .. Len(open) /\ Len(open) - 1 \in 1 .. Len(open)
    BY <1>1, CheckingFacts
  <1>3. nodes[l] \in NodeType /\ nodes[r] \in NodeType
    BY <1>1, <1>2, CheckingFacts
  <1>4. /\ a \in AttrType /\ b \in AttrType
        /\ a.type = nodes[l].type /\ b.type = nodes[r].type
        /\ nodes[l].const \in BOOLEAN /\ nodes[r].const \in BOOLEAN
    BY <1>3, NodeFields
  <1>5. Ops(Len(nodes) + 1) \subseteq BinaryOp
    BY <1>1, CheckingFacts, ConstantsAssumption
  <1>6. PICK op \in Ops(Len(nodes) + 1) :
            /\ op = "Assign" => IsTarget(l)
            /\ \/ /\ Matched(l, r)
                  /\ \E m \in Match(a, b) : Typed(op, l, r, m)
               \/ /\ ~Matched(l, r) /\ nodes[l].const
                  /\ Typed(op, l, r, [l |-> b, r |-> b, by |-> b])
               \/ /\ ~Matched(l, r) /\ nodes[r].const
                  /\ Typed(op, l, r, [l |-> a, r |-> a, by |-> a])
    BY DEF VisitBinary
  <1>7. op \in BinaryOp
    BY <1>5
  <1> HIDE DEF a, b
  <1>8. CASE Matched(l, r)
    <2>1. PICK m \in Match(a, b) : Typed(op, l, r, m)
      BY <1>6, <1>8
    <2>2. m.l \in AttrType /\ m.r \in AttrType /\ m.by \in AttrType
      BY <1>4, MatchFacts
    <2>3. nodes[l].type \in IntType /\ nodes[r].type \in IntType =>
              {m.l.type, m.r.type, m.by.type} \subseteq IntType
      BY <1>4, MatchedIntegers
    <2>4. QED  BY <1>1, <1>6, <1>7, <2>1, <2>2, <2>3, TypedKeepsTree
  <1>9. CASE ~Matched(l, r)
    <2>1. ~(nodes[l].const /\ nodes[r].const)
      BY <1>4, <1>9 DEF Matched
    <2>2. CASE Typed(op, l, r, [l |-> b, r |-> b, by |-> b])
      <3> DEFINE m == [l |-> b, r |-> b, by |-> b]
      <3>1. m.l \in AttrType /\ m.r \in AttrType /\ m.by \in AttrType
        BY <1>4
      <3> HIDE DEF m
      <3>2. Typed(op, l, r, m)
        BY <2>2 DEF m
      <3>3. QED  BY <1>1, <1>6, <1>7, <2>1, <3>1, <3>2, TypedKeepsTree
    <2>3. CASE Typed(op, l, r, [l |-> a, r |-> a, by |-> a])
      <3> DEFINE m == [l |-> a, r |-> a, by |-> a]
      <3>1. m.l \in AttrType /\ m.r \in AttrType /\ m.by \in AttrType
        BY <1>4
      <3> HIDE DEF m
      <3>2. Typed(op, l, r, m)
        BY <2>3 DEF m
      <3>3. QED  BY <1>1, <1>6, <1>7, <2>1, <3>1, <3>2, TypedKeepsTree
    <2>4. QED  BY <1>6, <1>9, <2>2, <2>3
  <1>10. QED  BY <1>8, <1>9

\* The builder's steps leave the tree alone.
LEMMA SameTreeInv ==
    ASSUME TreeInv, UNCHANGED emitted
    PROVE  TreeInv'
  BY DEF TreeInv, Shapely, KidsClosed, IntegerConstants, IntLiterals, emitted, Ids,
         FitsKids, Shaped

\* Every step keeps the tree in shape.
LEMMA StepTree == ASSUME IInv, TreeInv, Next PROVE TreeInv'
  <1>1. CASE VisitIdRef         BY <1>1, IdRefKeepsTree
  <1>2. CASE VisitNumber        BY <1>2, NumberKeepsTree
  <1>3. CASE VisitIdIndexedRef  BY <1>3, IdIndexedRefKeepsTree
  <1>4. CASE VisitCall          BY <1>4, CallKeepsTree
  <1>5. CASE VisitUnary         BY <1>5, UnaryKeepsTree
  <1>6. CASE VisitBinary        BY <1>6, BinaryKeepsTree
  <1>7. CASE AssertTypeSize
    BY <1>7, SameTreeInv DEF AssertTypeSize, emitted
  <1>8. QED  BY <1>1, <1>2, <1>3, <1>4, <1>5, <1>6, <1>7 DEF Next

-----------------------------------------------------------------------------
(* Sequences of whatever, and getConstIntByExpr as one over the nodes.        *)

IsSequence(s) == \E S : s \in Seq(S)

\* Append, by position, whatever the elements are.
LEMMA AppendWhatever ==
    ASSUME NEW s, IsSequence(s), NEW x
    PROVE  /\ IsSequence(Append(s, x))
           /\ Len(s) \in Nat /\ DOMAIN s = 1 .. Len(s)
           /\ Len(Append(s, x)) = Len(s) + 1
           /\ DOMAIN Append(s, x) = 1 .. Len(s) + 1
           /\ \A i \in 1 .. Len(s) : Append(s, x)[i] = s[i]
           /\ Append(s, x)[Len(s) + 1] = x
  <1>1. PICK S : s \in Seq(S)  BY DEF IsSequence
  <1>2. s \in Seq(S \cup {x})  BY <1>1, SeqMonotone
  <1>3. Append(s, x) \in Seq(S \cup {x})  BY <1>2
  <1>4. IsSequence(Append(s, x))  BY <1>3 DEF IsSequence
  <1>5. QED  BY <1>2, <1>4

\* The recursion over the nodes, as a function of how many are done.
Firsts(g, tree, m) ==
    /\ g = [i \in 0 .. m |-> g[i]] /\ g[0] = <<>>
    /\ \A i \in 1 .. m : g[i] = Append(g[i - 1], ConstResult(tree[i], g[i - 1]))

\* The prefixes of what is returned exist, one after the other.
LEMMA FirstsExist ==
    ASSUME NEW tree, NEW n \in Nat
    PROVE  \E g : Firsts(g, tree, n)
  <1> DEFINE S == {m \in Nat : \E g : Firsts(g, tree, m)}
  <1>1. 0 \in S
    <2> DEFINE g == [i \in 0 .. 0 |-> <<>>]
    <2>1. g = [i \in 0 .. 0 |-> g[i]] /\ g[0] = <<>> /\ 1 .. 0 = {}  OBVIOUS
    <2>2. Firsts(g, tree, 0)  BY <2>1 DEF Firsts
    <2>3. QED  BY <2>2
  <1>2. ASSUME NEW m \in Nat, m \in S PROVE m + 1 \in S
    <2>1. PICK g : Firsts(g, tree, m)  BY <1>2
    <2> DEFINE new == Append(g[m], ConstResult(tree[m + 1], g[m]))
               h == [i \in 0 .. m + 1 |-> IF i = m + 1 THEN new ELSE g[i]]
    <2>2. h = [i \in 0 .. m + 1 |-> h[i]]  OBVIOUS
    <2>3. h[0] = g[0] /\ h[m + 1] = new /\ \A i \in 0 .. m : h[i] = g[i]
      <3>1. 0 \in 0 .. m + 1 /\ 0 # m + 1 /\ m + 1 \in 0 .. m + 1
            /\ \A i \in 0 .. m : i \in 0 .. m + 1 /\ i # m + 1
        OBVIOUS
      <3> HIDE DEF new
      <3>2. QED  BY <3>1
    <2> HIDE DEF h
    <2>4. ASSUME NEW i \in 1 .. m + 1
          PROVE  h[i] = Append(h[i - 1], ConstResult(tree[i], h[i - 1]))
      <3>1. CASE i = m + 1
        <4>1. m \in 0 .. m /\ i - 1 = m  BY <3>1
        <4>2. h[i - 1] = g[m] /\ h[i] = new  BY <2>3, <3>1, <4>1
        <4>3. QED  BY <3>1, <4>2
      <3>2. CASE i # m + 1
        <4>1. i \in 1 .. m /\ i \in 0 .. m /\ i - 1 \in 0 .. m  BY <3>2
        <4>2. h[i] = g[i] /\ h[i - 1] = g[i - 1]  BY <2>3, <4>1
        <4>3. g[i] = Append(g[i - 1], ConstResult(tree[i], g[i - 1]))
          BY <2>1, <4>1 DEF Firsts
        <4>4. QED  BY <4>2, <4>3
      <3>3. QED  BY <3>1, <3>2
    <2> HIDE DEF new
    <2>5. g[0] = <<>>  BY <2>1 DEF Firsts
    <2>6. Firsts(h, tree, m + 1)  BY <2>2, <2>3, <2>4, <2>5 DEF Firsts
    <2>7. QED  BY <2>6
  <1>3. Nat \subseteq S
    <2> HIDE DEF S
    <2>1. QED  BY <1>1, <1>2, InductionOnSet
  <1>4. QED  BY <1>3

\* The last of them is what is returned for the whole tree.
LEMMA ConstOfFirsts ==
    ASSUME NEW tree, Len(tree) \in Nat
    PROVE  \E g : Firsts(g, tree, Len(tree)) /\ ConstOf(tree) = g[Len(tree)]
  <1> DEFINE n == Len(tree)
             IsFirst(f) == f = [i \in 0 .. n |->
                                   IF i = 0 THEN <<>>
                                   ELSE Append(f[i - 1], ConstResult(tree[i], f[i - 1]))]
             first == CHOOSE f : IsFirst(f)
  <1>1. ConstOf(tree) = first[n]  BY DEF ConstOf
  <1>2. PICK g : Firsts(g, tree, n)  BY FirstsExist
  <1> HIDE DEF n
  <1>0. n \in Nat  BY DEF n
  <1>3. IsFirst(g)
    <2>1. g = [i \in 0 .. n |-> g[i]] /\ g[0] = <<>>  BY <1>2 DEF Firsts
    <2>2. ASSUME NEW i \in 0 .. n
          PROVE  g[i] = IF i = 0 THEN <<>>
                        ELSE Append(g[i - 1], ConstResult(tree[i], g[i - 1]))
      <3>1. CASE i = 0  BY <2>1, <3>1
      <3>2. CASE i # 0
        <4>1. i \in 1 .. n  BY <1>0, <3>2
        <4>2. QED  BY <1>2, <3>2, <4>1 DEF Firsts
      <3>3. QED  BY <3>1, <3>2
    <2>3. QED  BY <2>1, <2>2
  <1>4. IsFirst(first)
    <2> HIDE DEF IsFirst
    <2>1. QED  BY <1>3
  <1> HIDE DEF first
  <1>5. Firsts(first, tree, n)
    <2>1. ASSUME NEW i \in 0 .. n
          PROVE  first[i] = IF i = 0 THEN <<>>
                            ELSE Append(first[i - 1], ConstResult(tree[i], first[i - 1]))
      BY <1>4
    <2>2. first = [i \in 0 .. n |-> first[i]]  BY <1>4
    <2>3. 0 \in 0 .. n /\ \A i \in 1 .. n : i \in 0 .. n /\ i # 0  BY <1>0
    <2> HIDE DEF IsFirst
    <2>4. first[0] = <<>>  BY <2>1, <2>3
    <2>5. \A i \in 1 .. n : first[i] = Append(first[i - 1], ConstResult(tree[i], first[i - 1]))
      BY <2>1, <2>3
    <2>6. QED  BY <2>2, <2>4, <2>5 DEF Firsts
  <1>6. QED  BY <1>1, <1>5 DEF n

\* The result for a node comes from those of its operands.
WellOrdered(tree) ==
    \A i \in 1 .. Len(tree) :
        /\ tree[i].kind = "Unary" => tree[i].kids[1] \in 1 .. i - 1
        /\ tree[i].kind = "Binary" => /\ tree[i].kids[1] \in 1 .. i - 1
                                      /\ tree[i].kids[2] \in 1 .. i - 1

\* What is returned for a node is computed from what is returned for its operands.
LEMMA ConstSteps ==
    ASSUME NEW tree, Len(tree) \in Nat, WellOrdered(tree)
    PROVE  \A i \in 1 .. Len(tree) : ConstOf(tree)[i] = ConstResult(tree[i], ConstOf(tree))
  <1> DEFINE n == Len(tree)
  <1> HIDE DEF n
  <1>0. n \in Nat  BY DEF n
  <1>1. PICK g : Firsts(g, tree, n) /\ ConstOf(tree) = g[n]
    BY ConstOfFirsts DEF n
  <1>2. ASSUME NEW i \in 1 .. n
        PROVE  g[i] = Append(g[i - 1], ConstResult(tree[i], g[i - 1]))
    BY <1>1 DEF Firsts
  <1> DEFINE S == {m \in Nat : m <= n => IsSequence(g[m]) /\ Len(g[m]) = m}
  <1>3. 0 \in S
    <2>1. g[0] = <<>>  BY <1>1 DEF Firsts
    <2>2. <<>> \in Seq({}) /\ Len(<<>>) = 0  OBVIOUS
    <2>3. IsSequence(<<>>)  BY <2>2 DEF IsSequence
    <2>4. QED  BY <2>1, <2>2, <2>3
  <1>4. ASSUME NEW m \in Nat, m \in S PROVE m + 1 \in S
    <2> SUFFICES ASSUME m + 1 <= n PROVE IsSequence(g[m + 1]) /\ Len(g[m + 1]) = m + 1
      OBVIOUS
    <2>1. m + 1 \in 1 .. n /\ m + 1 - 1 = m /\ m <= n  BY <1>0
    <2>2. g[m + 1] = Append(g[m], ConstResult(tree[m + 1], g[m]))
      <3>1. g[m + 1] = Append(g[m + 1 - 1], ConstResult(tree[m + 1], g[m + 1 - 1]))
        BY <1>2, <2>1
      <3>2. QED  BY <2>1, <3>1
    <2>3. IsSequence(g[m]) /\ Len(g[m]) = m  BY <1>4, <2>1
    <2>4. QED  BY <2>2, <2>3, AppendWhatever
  <1>5. Nat \subseteq S
    <2> HIDE DEF S
    <2>1. QED  BY <1>3, <1>4, InductionOnSet
  <1>6. \A m \in 0 .. n : IsSequence(g[m]) /\ Len(g[m]) = m
    <2>1. \A m \in 0 .. n : m \in Nat /\ m <= n  BY <1>0
    <2>2. QED  BY <1>5, <2>1
  <1> HIDE DEF S
  <1>7. ASSUME NEW i \in 1 .. n
        PROVE  /\ g[i][i] = ConstResult(tree[i], g[i - 1])
               /\ \A k \in 1 .. i - 1 : g[i][k] = g[i - 1][k]
    <2>1. i - 1 \in 0 .. n /\ i - 1 + 1 = i  BY <1>0
    <2> DEFINE s == g[i - 1]
               x == ConstResult(tree[i], s)
    <2>2. g[i] = Append(s, x) /\ IsSequence(s) /\ Len(s) = i - 1
      BY <1>2, <1>6, <2>1
    <2> HIDE DEF s, x
    <2>3. /\ \A k \in 1 .. Len(s) : Append(s, x)[k] = s[k]
          /\ Append(s, x)[Len(s) + 1] = x
      BY <2>2, AppendWhatever
    <2>4. g[i][i] = x /\ \A k \in 1 .. i - 1 : g[i][k] = s[k]
      BY <2>1, <2>2, <2>3
    <2>5. QED  BY <2>4 DEF s, x
  <1>8. ASSUME NEW j \in 0 .. n
        PROVE  \A m \in j .. n : \A k \in 1 .. j : g[m][k] = g[j][k]
    <2> DEFINE T == {d \in Nat : j + d <= n => \A k \in 1 .. j : g[j + d][k] = g[j][k]}
    <2>1. 0 \in T
      <3>1. j + 0 = j  BY <1>0
      <3>2. QED  BY <3>1
    <2>2. ASSUME NEW d \in Nat, d \in T PROVE d + 1 \in T
      <3> SUFFICES ASSUME j + (d + 1) <= n, NEW k \in 1 .. j
                   PROVE  g[j + (d + 1)][k] = g[j][k]
        OBVIOUS
      <3>1. /\ j + d <= n /\ j + (d + 1) \in 1 .. n /\ j + (d + 1) - 1 = j + d
            /\ k \in 1 .. j + d
        BY <1>0
      <3>2. g[j + d][k] = g[j][k]  BY <2>2, <3>1
      <3>3. g[j + (d + 1)][k] = g[j + (d + 1) - 1][k]  BY <1>7, <3>1
      <3>4. QED  BY <3>1, <3>2, <3>3
    <2>3. Nat \subseteq T
      <3> HIDE DEF T
      <3>1. QED  BY <2>1, <2>2, InductionOnSet
    <2>4. \A m \in j .. n : m - j \in Nat /\ j + (m - j) = m /\ m <= n
      BY <1>0
    <2>5. ASSUME NEW m \in j .. n PROVE \A k \in 1 .. j : g[m][k] = g[j][k]
      <3>1. m - j \in T /\ j + (m - j) = m /\ m <= n  BY <2>3, <2>4
      <3>2. QED  BY <3>1
    <2>6. QED  BY <2>5
  <1>9. ASSUME NEW i \in 1 .. n PROVE g[n][i] = ConstResult(tree[i], g[n])
    <2>1. i \in 0 .. n /\ i - 1 \in 0 .. n /\ n \in i .. n /\ n \in i - 1 .. n /\ i \in 1 .. i
      BY <1>0
    <2>2. g[n][i] = ConstResult(tree[i], g[i - 1])
      <3>1. g[n][i] = g[i][i]  BY <1>8, <2>1
      <3>2. QED  BY <1>7, <3>1
    <2>3. \A k \in 1 .. i - 1 : g[n][k] = g[i - 1][k]  BY <1>8, <2>1
    <2> DEFINE node == tree[i]
    <2>4. /\ node.kind = "Unary" => node.kids[1] \in 1 .. i - 1
          /\ node.kind = "Binary" => node.kids[1] \in 1 .. i - 1 /\ node.kids[2] \in 1 .. i - 1
      BY DEF WellOrdered, n
    <2> HIDE DEF node
    <2>5. ConstResult(node, g[i - 1]) = ConstResult(node, g[n])
      BY <2>3, <2>4 DEF ConstResult
    <2>6. QED  BY <2>2, <2>5 DEF node
  <1>10. QED  BY <1>1, <1>9 DEF n

-----------------------------------------------------------------------------
(* The invariant of the builder.                                            *)

\* Nothing is emitted while types are checked, and something is to be emitted after it.
StageOK ==
    /\ status = "checking" => values = <<>> /\ stored = Invalid
    /\ status = "emitting" => nodes # <<>>
ValuesTyped == \A i \in DOMAIN values : values[i].ty \in LlvmTypes
ValuesExact ==
    ~Uses({"Lsft"}) => Exact(stored) /\ \A i \in DOMAIN values : Exact(values[i])
OnlyIntegers ==
    /\ \A i \in Ids : Integral(nodes[i]) /\ nodes[i].op \notin FPType \cup {"any"}
    /\ ~Uses({"Div", "Not", "Rusft", "Lusft", "Dot"} \cup Logical)
    /\ Contexts \cap FPType = {}
IntegersStay ==
    OnlyIntegers => /\ status \notin {"invalid", "assert"}
                    /\ \A i \in DOMAIN values : IsInt(values[i])
ConstantsAreIntegers ==
    IntLiterals => \A i \in Ids \cap DOMAIN values :
        nodes[i].const /\ values[i].tame
        /\ (nodes[i].kind \in {"Unary", "Binary"} \/ nodes[i].type \in IntType)
            => IsInt(values[i])

\* Values are those of a sequence, they have types of LLVM, are exact, are integers where
\* the expression is over integers, and are what getConstIntByExpr computes.
ValuesInv ==
    /\ IsSequence(values) /\ StageOK /\ ValuesTyped /\ ValuesExact
    /\ IntegersStay /\ ConstantsAreIntegers /\ ConstantsAgree

BInv == IInv /\ TreeInv /\ ValuesInv

\* What depends on the tree alone.
LEMMA SameHypotheses ==
    ASSUME UNCHANGED emitted
    PROVE  /\ Uses({"Lsft"})' <=> Uses({"Lsft"})
           /\ IntLiterals' <=> IntLiterals
           /\ OnlyIntegers' <=> OnlyIntegers
           /\ Ids' = Ids /\ ConstInt' = ConstInt /\ nodes' = nodes
  <1>1. nodes' = nodes /\ Ids' = Ids  BY DEF emitted, Ids
  <1>2. ConstInt' = ConstInt  BY <1>1 DEF ConstInt
  <1>3. Uses({"Lsft"})' <=> Uses({"Lsft"})  BY <1>1 DEF Uses
  <1>4. IntLiterals' <=> IntLiterals  BY <1>1 DEF IntLiterals
  <1>5. OnlyIntegers' <=> OnlyIntegers  BY <1>1 DEF OnlyIntegers, Uses
  <1>6. QED  BY <1>1, <1>2, <1>3, <1>4, <1>5

\* A type-correct tree stays one.
LEMMA SameIInv ==
    ASSUME IInv, UNCHANGED emitted,
           status' \in {"checking", "emitting", "done", "assert", "invalid"}
    PROVE  IInv'
  BY DEF emitted, IInv, TypeOK, OpenDistinct, GarbageStaysInConstants,
         FallsOffOnConstantsOnly, Ids

\* The node whose turn it is, and the values of its operands.
LEMMA EmitFacts ==
    ASSUME BInv, Emitting
    PROVE  /\ At \in Ids /\ Node \in NodeType /\ Shaped(Node) /\ FitsKids(Node, nodes)
           /\ Node.kind \in {"IdIndexedRef", "Call", "Unary"} => DOMAIN Node.kids = {1}
           /\ Node.kind = "Binary" => DOMAIN Node.kids = {1, 2}
           /\ \A k \in DOMAIN Node.kids :
                  /\ Node.kids[k] \in Ids \cap DOMAIN values
                  /\ Kid(k).ty \in LlvmTypes
                  /\ ~Uses({"Lsft"}) => Exact(Kid(k))
                  /\ OnlyIntegers => IsInt(Kid(k))
  <1>1. IsSequence(values) /\ Len(values) \in Nat /\ DOMAIN values = 1 .. Len(values)
    BY AppendWhatever DEF BInv, ValuesInv
  <1>2. Len(nodes) \in Nat /\ Len(values) < Len(nodes) /\ nodes \in Seq(NodeType)
    BY DEF BInv, IInv, TypeOK, Emitting
  <1>3. At \in Ids /\ At - 1 = Len(values)
    BY <1>1, <1>2 DEF At, Ids
  <1>4. Node \in NodeType /\ Shaped(Node) /\ FitsKids(Node, nodes)
    BY <1>2, <1>3 DEF Node, BInv, TreeInv, Shapely, Ids
  <1>5. Node.kids \in Seq(Nat)
    BY <1>4, NodeFields
  <1>6. /\ Node.kind \in {"IdIndexedRef", "Call", "Unary"} => DOMAIN Node.kids = {1}
        /\ Node.kind = "Binary" => DOMAIN Node.kids = {1, 2}
    BY <1>4, <1>5 DEF Shaped
  <1>7. ASSUME NEW k \in DOMAIN Node.kids
        PROVE  Node.kids[k] \in Ids \cap DOMAIN values
    <2>1. Node.kids[k] \in 1 .. At - 1
      BY <1>3 DEF BInv, IInv, TypeOK, Node
    <2>2. QED  BY <1>1, <1>2, <1>3, <2>1 DEF Ids
  <1>8. QED
    BY <1>3, <1>4, <1>6, <1>7 DEF Kid, BInv, ValuesInv, ValuesTyped, ValuesExact, IntegersStay

\* A value keeps the invariant if it has a type of LLVM, is exact, is an integer where
\* its operands are, and is the constant that getConstIntByExpr computes.
LEMMA YieldKeeps ==
    ASSUME BInv, Emitting, NEW v, values' = Append(values, v), UNCHANGED emitted,
           status' \in {"emitting", "invalid"},
           v.ty \in LlvmTypes,
           ~Uses({"Lsft"}) => Exact(v) /\ Exact(stored'),
           OnlyIntegers => IsInt(v) /\ status' = "emitting",
           IntLiterals /\ Node.const /\ v.tame
           /\ (Node.kind \in {"Unary", "Binary"} \/ Node.type \in IntType) => IsInt(v),
           ~Uses({"Lsft"}) /\ IntLiterals /\ Node.const /\ v.tame =>
               ConstResult(Node, ConstInt) = {v.bits}
    PROVE  BInv'
  <1>1. /\ IsSequence(values') /\ DOMAIN values' = DOMAIN values \cup {At}
        /\ \A i \in DOMAIN values : values'[i] = values[i]
        /\ values'[At] = v
    <2>1. IsSequence(values)  BY DEF BInv, ValuesInv
    <2>2. 1 .. Len(values) + 1 = 1 .. Len(values) \cup {Len(values) + 1}
      <3>1. Len(values) \in Nat  BY <2>1, AppendWhatever
      <3>2. QED  BY <3>1
    <2>3. QED  BY <2>1, <2>2, AppendWhatever DEF At
  <1>2. IInv' /\ TreeInv'
    BY SameIInv, SameTreeInv DEF BInv
  <1>3. /\ Uses({"Lsft"})' <=> Uses({"Lsft"})
        /\ IntLiterals' <=> IntLiterals
        /\ OnlyIntegers' <=> OnlyIntegers
        /\ Ids' = Ids /\ ConstInt' = ConstInt /\ nodes' = nodes
    BY SameHypotheses
  <1>4. At \in Ids
    BY EmitFacts
  <1>5. StageOK'
    BY <1>3 DEF StageOK, BInv, ValuesInv, Emitting
  <1>6. ValuesTyped'
    BY <1>1 DEF ValuesTyped, BInv, ValuesInv
  <1>7. ValuesExact'
    <2> SUFFICES ASSUME ~Uses({"Lsft"})
                 PROVE  Exact(stored') /\ \A i \in DOMAIN values' : Exact(values'[i])
      BY <1>3 DEF ValuesExact
    <2>1. \A i \in DOMAIN values : Exact(values[i])
      BY DEF ValuesExact, BInv, ValuesInv
    <2>2. QED  BY <1>1, <2>1
  <1>8. IntegersStay'
    <2> SUFFICES ASSUME OnlyIntegers
                 PROVE  /\ status' \notin {"invalid", "assert"}
                        /\ \A i \in DOMAIN values' : IsInt(values'[i])
      BY <1>3 DEF IntegersStay
    <2>1. \A i \in DOMAIN values : IsInt(values[i])
      BY DEF IntegersStay, BInv, ValuesInv
    <2>2. QED  BY <1>1, <2>1
  <1>9. ConstantsAreIntegers'
    <2> SUFFICES ASSUME IntLiterals, NEW i \in Ids, i \in DOMAIN values', nodes[i].const,
                        values'[i].tame,
                        nodes[i].kind \in {"Unary", "Binary"} \/ nodes[i].type \in IntType
                 PROVE  IsInt(values'[i])
      BY <1>3 DEF ConstantsAreIntegers
    <2>1. CASE i = At
      BY <1>1, <2>1 DEF Node
    <2>2. CASE i \in DOMAIN values
      BY <1>1, <2>2 DEF ConstantsAreIntegers, BInv, ValuesInv
    <2>3. QED  BY <1>1, <2>1, <2>2
  <1>10. ConstantsAgree'
    <2> SUFFICES ASSUME ~Uses({"Lsft"}), IntLiterals, NEW i \in Ids, i \in DOMAIN values',
                        nodes[i].const, values'[i].tame
                 PROVE  ConstInt[i] = {values'[i].bits}
      BY <1>3 DEF ConstantsAgree, IntLiterals
    <2>1. CASE i = At
      <3>1. ConstResult(Node, ConstInt) = {v.bits}
        BY <1>1, <2>1 DEF Node
      <3>2. ConstInt[i] = ConstResult(nodes[i], ConstInt)
        <4>1. WellOrdered(nodes) /\ Len(nodes) \in Nat
          <5>1. /\ nodes \in Seq(NodeType) /\ Len(nodes) \in Nat
                /\ \A j \in Ids : nodes[j] \in NodeType /\ Shaped(nodes[j])
                /\ \A j \in Ids : \A k \in DOMAIN nodes[j].kids :
                       nodes[j].kids[k] \in 1 .. j - 1
            BY DEF BInv, IInv, TypeOK, TreeInv, Shapely, Ids
          <5>2. ASSUME NEW j \in Ids
                PROVE  /\ nodes[j].kind = "Unary" => 1 \in DOMAIN nodes[j].kids
                       /\ nodes[j].kind = "Binary" =>
                              1 \in DOMAIN nodes[j].kids /\ 2 \in DOMAIN nodes[j].kids
            <6>1. nodes[j].kids \in Seq(Nat)  BY <5>1, NodeFields
            <6>2. QED  BY <5>1, <6>1 DEF Shaped
          <5>3. QED  BY <5>1, <5>2 DEF WellOrdered, Ids
        <4>2. QED  BY <4>1, ConstSteps DEF ConstInt, Ids
      <3>3. QED  BY <1>1, <2>1, <3>1, <3>2 DEF Node
    <2>2. CASE i \in DOMAIN values
      BY <1>1, <2>2 DEF ConstantsAgree, IntLiterals, BInv, ValuesInv
    <2>3. QED  BY <1>1, <2>1, <2>2
  <1>11. QED
    BY <1>1, <1>2, <1>5, <1>6, <1>7, <1>8, <1>9, <1>10 DEF BInv, ValuesInv

-----------------------------------------------------------------------------
(* The builder's actions.                                                   *)

\* A value of a type of LLVM goes on.
LEMMA ValidByType ==
    ASSUME NEW v
    PROVE  /\ v.ty # Invalid.ty => IsValid(v)
           /\ IsInt(v) => IsValid(v)
  <1>1. ~IsInt(Invalid)  BY DEF IsInt, Invalid
  <1>2. QED  BY <1>1 DEF IsValid

\* LastValue is set by a visitor.
LEMMA YieldStep ==
    ASSUME BInv, Emitting, NEW v, Yield(v),
           v.ty \in LlvmTypes,
           ~Uses({"Lsft"}) => Exact(v),
           OnlyIntegers => IsInt(v),
           IntLiterals /\ Node.const /\ v.tame
           /\ (Node.kind \in {"Unary", "Binary"} \/ Node.type \in IntType) => IsInt(v),
           ~Uses({"Lsft"}) /\ IntLiterals /\ Node.const /\ v.tame =>
               ConstResult(Node, ConstInt) = {v.bits}
    PROVE  BInv'
  <1>1. /\ values' = Append(values, v) /\ UNCHANGED emitted /\ stored' = stored
        /\ status' = IF IsValid(v) THEN status ELSE "invalid"
    BY DEF Yield
  <1>2. status = "emitting"  BY DEF Emitting
  <1>3. status' \in {"emitting", "invalid"}  BY <1>1, <1>2
  <1>4. OnlyIntegers => IsInt(v) /\ status' = "emitting"
    BY <1>1, <1>2, ValidByType
  <1>5. ~Uses({"Lsft"}) => Exact(v) /\ Exact(stored')
    BY <1>1 DEF BInv, ValuesInv, ValuesExact
  <1>6. QED  BY <1>1, <1>3, <1>4, <1>5, YieldKeeps

\* The content of a variable.  Read with a sign it may be negative, and is not tame then.
LEMMA AnyOfKeeps ==
    ASSUME BInv, Emitting, NEW t \in ValueType \cup {"Void"}, AnyOf(t), ~Node.const,
           OnlyIntegers => t \in IntType
    PROVE  BInv'
  <1> DEFINE ty == LlvmType(t)
             Bits(n) == [ty |-> ty, bits |-> n]
             Truth(n) == IF ty.k = "int" THEN AsNumber(Bits(n), t \in Signed) ELSE n
  <1>1. PICK n \in IF ty.k = "int" THEN Content(ty.w) ELSE Literal :
            Yield(Make(ty, n, Truth(n), TRUE))
    BY DEF AnyOf
  <1> DEFINE truth == Truth(n)
             v == Make(ty, n, truth, TRUE)
  <1>2. ty \in LlvmTypes /\ (t \in IntType => ty.k = "int")
    BY LlvmTypeOf
  <1>3. CASE ty.k = "int"
    <2>1. t \in IntType /\ ty.w = Size[t] /\ Size[t] \in Nat \ {0}
      BY <1>3, LlvmTypeOf
    <2> DEFINE half == Pow2[ty.w - 1]
               full == Pow2[ty.w]
    <2>2. half \in Nat /\ full \in Nat /\ full = 2 * half
      BY <2>1, Pow2Facts
    <2>3. n \in 0 .. full - 1
      BY <1>1, <1>3, <2>1, ContentAssumption
    <2>4. truth = n \/ truth = n - full
      BY <1>3 DEF AsNumber
    <2> HIDE DEF ty, truth, half, full
    <2>5. truth \in 0 .. full - 1 => truth = n
      BY <2>2, <2>3, <2>4
    <2>6. v.ty = ty /\ v.truth = truth /\ (v.tame => Holds(ty, truth))
          /\ v.bits = n % full
      BY <1>3 DEF Make, full
    <2>7. Holds(ty, truth) => truth \in 0 .. full - 1
      BY <1>3 DEF Holds, full
    <2>8. n % full = n
      BY <2>2, <2>3, Fits0
    <2> HIDE DEF v
    <2>9. Exact(v)
      BY <1>2, <2>5, <2>6, <2>7, <2>8 DEF Exact
    <2>10. IsInt(v)
      BY <1>3, <2>6 DEF IsInt
    <2>11. Yield(v)
      BY <1>1 DEF v, truth, ty
    <2>12. v.ty \in LlvmTypes
      BY <2>9 DEF Exact
    <2>13. QED  BY <2>9, <2>10, <2>11, <2>12, YieldStep
  <1>4. CASE ty.k # "int"
    <2>1. truth = n
      BY <1>4
    <2>2. v.ty = ty
      BY DEF Make
    <2> HIDE DEF ty, truth
    <2>3. Exact(v)
      BY <1>2, <2>1, MakeExact
    <2> HIDE DEF v
    <2>4. Yield(v)
      BY <1>1 DEF v, truth, ty
    <2>5. v.ty \in LlvmTypes /\ ~OnlyIntegers
      BY <1>2, <1>4, <2>2
    <2>6. QED  BY <2>3, <2>4, <2>5, YieldStep
  <1>5. QED  BY <1>3, <1>4

\* A node whose kind makes it a variable or a call is not constant.
LEMMA NotConstant ==
    ASSUME BInv, Emitting, Node.kind \in {"IdRef", "IdIndexedRef", "Call"}
    PROVE  ~Node.const /\ Node.decl \in ValueType \cup {"Void"}
  <1>1. Node \in NodeType /\ FitsKids(Node, nodes)  BY EmitFacts
  <1>2. QED  BY <1>1 DEF FitsKids, NodeType

\* Over integers only, the declaration and the type of a node are integer types.
LEMMA NodeIntegral ==
    ASSUME BInv, Emitting, OnlyIntegers
    PROVE  /\ Node.decl \in IntType /\ Node.type \in IntType
           /\ Node.op \notin FPType \cup {"any", "Div", "Not", "Rusft", "Lusft", "Dot"} \cup Logical
  <1>1. At \in Ids  BY EmitFacts
  <1>2. Integral(Node) /\ Node.op \notin FPType \cup {"any"}
    BY <1>1 DEF OnlyIntegers, Node
  <1>3. Node.op \notin {"Div", "Not", "Rusft", "Lusft", "Dot"} \cup Logical
    BY <1>1 DEF OnlyIntegers, Node, Uses
  <1>4. QED  BY <1>2, <1>3 DEF Integral

\* A value that is no value.
LEMMA InvalidStep ==
    ASSUME BInv, Emitting, Yield(Invalid), ~OnlyIntegers
    PROVE  BInv'
  <1>1. Invalid.ty \in LlvmTypes  BY DEF LlvmTypes
  <1>2. QED  BY <1>1, InvalidExact, YieldStep

\* A variable is read.
LEMMA EmitRefKeeps == ASSUME BInv, EmitRef PROVE BInv'
  <1>1. Emitting /\ Node.kind = "IdRef" /\ AnyOf(Node.decl)  BY DEF EmitRef
  <1>2. ~Node.const /\ Node.decl \in ValueType \cup {"Void"}  BY <1>1, NotConstant
  <1>3. OnlyIntegers => Node.decl \in IntType  BY <1>1, NodeIntegral
  <1>4. QED  BY <1>1, <1>2, <1>3, AnyOfKeeps

\* An element is read: the index was converted to Int.
LEMMA EmitIndexedRefKeeps == ASSUME BInv, EmitIndexedRef PROVE BInv'
  <1> DEFINE index == ToAimType(Kid(1), LlvmType(Node.op))
  <1>1. /\ Emitting /\ Node.kind = "IdIndexedRef"
        /\ IF IsValid(index) THEN AnyOf(Node.decl) ELSE Yield(Invalid)
    BY DEF EmitIndexedRef
  <1>2. ~Node.const /\ Node.decl \in ValueType \cup {"Void"}  BY <1>1, NotConstant
  <1>3. OnlyIntegers => Node.decl \in IntType  BY <1>1, NodeIntegral
  <1>4. CASE IsValid(index)
    BY <1>1, <1>2, <1>3, <1>4, AnyOfKeeps
  <1>5. CASE ~IsValid(index)
    <2>1. Node.op = "Int" /\ 1 \in DOMAIN Node.kids
      BY <1>1, EmitFacts DEF Shaped
    <2>2. Kid(1).ty \in LlvmTypes /\ (OnlyIntegers => IsInt(Kid(1)))
      BY <1>1, <2>1, EmitFacts
    <2>3. LlvmType(Node.op) \in LlvmTypes /\ LlvmType(Node.op).k = "int"
      <3>1. "Int" \in IntType /\ "Int" \in ValueType \cup {"Void"}
        BY ConstantsAssumption DEF ValueType
      <3>2. QED  BY <2>1, <3>1, LlvmTypeOf
    <2>4. OnlyIntegers => IsInt(index)
      BY <2>2, <2>3, ToNumberFacts DEF ToAimType
    <2>5. ~OnlyIntegers
      BY <1>5, <2>4, ValidByType
    <2>6. QED  BY <1>1, <1>5, <2>5, InvalidStep
  <1>6. QED  BY <1>4, <1>5

\* A literal is emitted in the type its parent gave it.
LEMMA EmitNumberKeeps == ASSUME BInv, EmitNumber PROVE BInv'
  <1> DEFINE ty == LlvmType(Node.type)
             v == Make(ty, Node.lit, Node.lit, TRUE)
  <1>1. Emitting /\ Node.kind = "Number" /\ Yield(v)
    BY DEF EmitNumber
  <1>2. Node.type \in ValueType \cup {"Void"}
    <2>1. Node \in NodeType  BY <1>1, EmitFacts
    <2>2. QED  BY <2>1 DEF NodeType
  <1>3. ty \in LlvmTypes /\ (Node.type \in IntType => ty.k = "int")
    BY <1>2, LlvmTypeOf
  <1> HIDE DEF ty
  <1>4. v.ty = ty /\ v.truth = Node.lit
    BY DEF Make
  <1>5. Exact(v)
    BY <1>3, MakeExact
  <1> HIDE DEF v
  <1>6. OnlyIntegers => IsInt(v)
    BY <1>1, <1>3, <1>4, NodeIntegral DEF IsInt
  <1>7. Node.type \in IntType => IsInt(v)
    BY <1>3, <1>4 DEF IsInt
  <1>8. ASSUME IntLiterals, v.tame PROVE ConstResult(Node, ConstInt) = {v.bits}
    <2>1. Node.decl \in IntForm
      <3>1. At \in Ids  BY <1>1, EmitFacts
      <3>2. QED  BY <1>1, <1>8, <3>1 DEF IntLiterals, Node
    <2>2. ConstResult(Node, ConstInt) = {Node.lit}
      BY <1>1, <2>1 DEF ConstResult
    <2>3. v.bits = Node.lit
      BY <1>4, <1>5, <1>8 DEF Exact
    <2>4. QED  BY <2>2, <2>3
  <1>9. Node.kind \notin {"Unary", "Binary"}
    BY <1>1
  <1>10. v.ty \in LlvmTypes
    BY <1>3, <1>4
  <1>11. QED  BY <1>1, <1>5, <1>6, <1>7, <1>8, <1>9, <1>10, YieldStep

\* The build stops: nothing but the status changes.
LEMMA StopKeeps ==
    ASSUME BInv, UNCHANGED <<emitted, values, stored>>, status = "emitting",
           status' \in {"emitting", "assert"}, OnlyIntegers => status' = "emitting"
    PROVE  BInv'
  <1>1. UNCHANGED emitted /\ values' = values /\ stored' = stored
    OBVIOUS
  <1>2. IInv' /\ TreeInv'
    BY <1>1, SameIInv, SameTreeInv DEF BInv
  <1>3. /\ Uses({"Lsft"})' <=> Uses({"Lsft"})
        /\ IntLiterals' <=> IntLiterals
        /\ OnlyIntegers' <=> OnlyIntegers
        /\ Ids' = Ids /\ ConstInt' = ConstInt /\ nodes' = nodes
    BY <1>1, SameHypotheses
  <1>4. StageOK'
    BY <1>3 DEF StageOK, BInv, ValuesInv
  <1>5. ValuesTyped' /\ IsSequence(values')
    BY <1>1 DEF ValuesTyped, BInv, ValuesInv
  <1>6. ValuesExact'
    BY <1>1, <1>3 DEF ValuesExact, BInv, ValuesInv
  <1>7. IntegersStay'
    BY <1>1, <1>3 DEF IntegersStay, BInv, ValuesInv
  <1>8. ConstantsAreIntegers'
    BY <1>1, <1>3 DEF ConstantsAreIntegers, BInv, ValuesInv
  <1>9. ConstantsAgree'
    BY <1>1, <1>3 DEF ConstantsAgree, IntLiterals, BInv, ValuesInv
  <1>10. QED
    BY <1>2, <1>4, <1>5, <1>6, <1>7, <1>8, <1>9 DEF BInv, ValuesInv

\* What fails an assertion is excluded from expressions over integers.
LEMMA EmitAssertKeeps == ASSUME BInv, EmitAssert PROVE BInv'
  <1>1. /\ Emitting /\ status' = "assert" /\ UNCHANGED <<emitted, values, stored>>
        /\ \/ Node.kind = "Number" /\ Node.type = "Void"
           \/ Node.kind = "Binary" /\ Node.op \in {"Rusft", "Lusft", "Dot"}
           \/ Node.kind = "Unary" /\ Node.op = "Not" /\ ~IsInt(Kid(1))
    BY DEF EmitAssert
  <1>2. ~OnlyIntegers
    <2>1. "Void" \notin IntType  BY ConstantsAssumption
    <2>2. QED  BY <1>1, <2>1, NodeIntegral
  <1>3. status = "emitting"  BY <1>1 DEF Emitting
  <1>4. QED  BY <1>1, <1>2, <1>3, StopKeeps

\* A call: the argument is converted to the type of the parameter.
LEMMA EmitCallKeeps == ASSUME BInv, EmitCall PROVE BInv'
  <1>1. /\ Emitting /\ Node.kind = "Call"
        /\ IF ~IsValid(Argument) THEN Yield(Invalid)
           ELSE IF Node.decl = "Void" THEN Yield(Make(LlvmType("Void"), 0, 0, FALSE))
           ELSE AnyOf(Node.decl)
    BY DEF EmitCall
  <1>2. ~Node.const /\ Node.decl \in ValueType \cup {"Void"}  BY <1>1, NotConstant
  <1>3. OnlyIntegers => Node.decl \in IntType /\ Node.decl # "Void"
    BY <1>1, NodeIntegral, ConstantsAssumption
  <1>4. CASE ~IsValid(Argument)
    <2>1. OnlyIntegers => IsInt(Argument)
      <3> SUFFICES ASSUME OnlyIntegers PROVE IsInt(Argument)
        OBVIOUS
      <3>1. Node.op \in ParamType \cup {"any"} /\ 1 \in DOMAIN Node.kids
        BY <1>1, EmitFacts DEF Shaped
      <3>2. Node.op \notin FPType \cup {"any"}
        BY <1>1, NodeIntegral
      <3>3. Node.op \in IntType /\ Node.op \in ValueType \cup {"Void"}
        BY <3>1, <3>2, ConstantsAssumption DEF ValueType
      <3>4. Argument = ToAimType(Kid(1), LlvmType(Node.op))
        BY <3>2 DEF Argument
      <3>5. Kid(1).ty \in LlvmTypes /\ IsInt(Kid(1))
        BY <1>1, <3>1, EmitFacts
      <3>6. LlvmType(Node.op) \in LlvmTypes /\ LlvmType(Node.op).k = "int"
        BY <3>3, LlvmTypeOf
      <3>7. QED  BY <3>4, <3>5, <3>6, ToNumberFacts DEF ToAimType
    <2>2. ~OnlyIntegers
      BY <1>4, <2>1, ValidByType
    <2>3. QED  BY <1>1, <1>4, <2>2, InvalidStep
  <1>5. CASE IsValid(Argument) /\ Node.decl = "Void"
    <2> DEFINE v == Make(LlvmType("Void"), 0, 0, FALSE)
    <2>1. LlvmType("Void") \in LlvmTypes
      BY LlvmTypeOf
    <2>2. Exact(v) /\ v.ty \in LlvmTypes
      BY <2>1, MakeExact, MakeType
    <2>3. Yield(v)
      BY <1>1, <1>5
    <2> HIDE DEF v
    <2>4. ~OnlyIntegers
      BY <1>3, <1>5
    <2>5. QED  BY <1>1, <1>2, <2>2, <2>3, <2>4, YieldStep
  <1>6. CASE IsValid(Argument) /\ Node.decl # "Void"
    BY <1>1, <1>2, <1>3, <1>6, AnyOfKeeps
  <1>7. QED  BY <1>4, <1>5, <1>6

\* The operand of a constant over integers is an integer, and the one that
\* getConstIntByExpr computes.
LEMMA ConstantKid ==
    ASSUME BInv, Emitting, NEW k \in DOMAIN Node.kids, IntLiterals, Node.const, Kid(k).tame
    PROVE  /\ IsInt(Kid(k))
           /\ ~Uses({"Lsft"}) => ConstInt[Node.kids[k]] = {Kid(k).truth}
  <1> DEFINE i == Node.kids[k]
  <1>1. /\ At \in Ids /\ FitsKids(Node, nodes) /\ i \in Ids \cap DOMAIN values
        /\ ~Uses({"Lsft"}) => Exact(Kid(k))
    BY EmitFacts
  <1>2. nodes[i].const
    BY <1>1 DEF FitsKids
  <1>3. nodes[i].type \in IntType
    BY <1>1 DEF BInv, TreeInv, IntegerConstants, Node
  <1>4. Kid(k) = values[i]
    BY DEF Kid
  <1> HIDE DEF i
  <1>5. IsInt(Kid(k))
    BY <1>1, <1>2, <1>3, <1>4 DEF BInv, ValuesInv, ConstantsAreIntegers
  <1>6. ASSUME ~Uses({"Lsft"}) PROVE ConstInt[i] = {Kid(k).truth}
    <2>1. ConstInt[i] = {values[i].bits}
      BY <1>1, <1>2, <1>4, <1>6 DEF BInv, ValuesInv, ConstantsAgree, IntLiterals
    <2>2. QED  BY <1>1, <1>4, <1>6, <2>1 DEF Exact
  <1>7. QED  BY <1>5, <1>6 DEF i

\* A unary instruction, and the constant for it.
LEMMA EmitUnaryExprKeeps == ASSUME BInv, EmitUnaryExpr PROVE BInv'
  <1> DEFINE u == Kid(1)
             v == EmitUnary(Node.op, u, Node.sign)
  <1>1. Emitting /\ Node.kind = "Unary" /\ Yield(v)
    BY DEF EmitUnaryExpr
  <1>2. /\ Node.op \in {"Not", "Sub", "Add"} /\ 1 \in DOMAIN Node.kids
        /\ Node \in NodeType
    BY <1>1, EmitFacts DEF Shaped
  <1>3. Node.sign \in BOOLEAN
    BY <1>2 DEF NodeType
  <1>4. /\ u.ty \in LlvmTypes
        /\ ~Uses({"Lsft"}) => Exact(u)
        /\ OnlyIntegers => IsInt(u)
    BY <1>1, <1>2, EmitFacts
  <1>5. /\ v.ty \in LlvmTypes
        /\ v.tame => u.tame
        /\ IsInt(u) /\ (v.tame \/ Node.op # "Not") => IsInt(v)
        /\ Exact(u) => Exact(v)
        /\ Exact(u) /\ v.tame => v.truth = ConstUnary(Node.op, u.truth)
    BY <1>2, <1>3, <1>4, UnaryFacts
  <1> HIDE DEF v
  <1>6. OnlyIntegers => IsInt(v)
    BY <1>1, <1>4, <1>5, NodeIntegral
  <1>7. ~Uses({"Lsft"}) => Exact(v)
    BY <1>4, <1>5
  <1>8. ASSUME IntLiterals, Node.const, v.tame
        PROVE  /\ IsInt(v)
               /\ ~Uses({"Lsft"}) => ConstInt[Node.kids[1]] = {u.truth}
    <2>1. u.tame  BY <1>5, <1>8
    <2>2. IsInt(u) /\ (~Uses({"Lsft"}) => ConstInt[Node.kids[1]] = {u.truth})
      BY <1>1, <1>2, <1>8, <2>1, ConstantKid
    <2>3. QED  BY <1>5, <1>8, <2>2
  <1>9. ASSUME ~Uses({"Lsft"}), IntLiterals, Node.const, v.tame
        PROVE  ConstResult(Node, ConstInt) = {v.bits}
    <2>1. ConstResult(Node, ConstInt) =
              {ConstUnary(Node.op, x) : x \in ConstInt[Node.kids[1]]}
      BY <1>1 DEF ConstResult
    <2>2. ConstInt[Node.kids[1]] = {u.truth}  BY <1>8, <1>9
    <2>3. v.truth = ConstUnary(Node.op, u.truth)  BY <1>4, <1>5, <1>9
    <2>4. v.bits = v.truth  BY <1>7, <1>9 DEF Exact
    <2>5. QED  BY <2>1, <2>2, <2>3, <2>4
  <1>10. QED  BY <1>1, <1>5, <1>6, <1>7, <1>8, <1>9, YieldStep

\* Both operands are converted to one type, and the instruction computes on that.
LEMMA EmitBinaryExprKeeps == ASSUME BInv, EmitBinaryExpr PROVE BInv'
  <1> DEFINE x == Kid(1)
             y == Kid(2)
             pair == TypeConvert(x, y)
             a == pair[1]
             b == pair[2]
             v == EmitBinary(Node.op, a, b, Node.sign)
  <1>1. /\ Emitting /\ Node.kind = "Binary" /\ Yield(v)
        /\ Node.op \notin {"Assign", "Rusft", "Lusft", "Dot"}
    BY DEF EmitBinaryExpr
  <1>2. /\ Node.op \in BinaryOp /\ Node \in NodeType /\ At \in Ids
        /\ 1 \in DOMAIN Node.kids /\ 2 \in DOMAIN Node.kids
    BY <1>1, EmitFacts DEF Shaped
  <1>3. Node.sign \in BOOLEAN
    BY <1>2 DEF NodeType
  <1>4. /\ x.ty \in LlvmTypes /\ y.ty \in LlvmTypes
        /\ ~Uses({"Lsft"}) => Exact(x) /\ Exact(y)
        /\ OnlyIntegers => IsInt(x) /\ IsInt(y)
    BY <1>1, <1>2, EmitFacts
  <1>5. ~Uses({"Lsft"}) => Node.op # "Lsft"
    BY <1>2 DEF Uses, Node
  <1> HIDE DEF x, y
  <1>6. /\ a.ty = b.ty /\ a.ty \in LlvmTypes
        /\ IsInt(x) /\ IsInt(y) => IsInt(a)
        /\ a.tame => a.truth = x.truth /\ x.tame
        /\ b.tame => b.truth = y.truth /\ y.tame
        /\ Exact(x) /\ Exact(y) => Exact(a) /\ Exact(b)
    BY <1>4, TypeConvertFacts
  <1> HIDE DEF pair, a, b
  <1>7. /\ v.ty \in LlvmTypes
        /\ v.tame => a.tame /\ b.tame
        /\ IsInt(a) /\ (v.tame \/ Node.op \in IntOps) => IsInt(v)
        /\ Node.op # "Lsft" /\ Exact(a) /\ Exact(b) => Exact(v)
    BY <1>3, <1>6, BinaryFacts
  <1>8. ASSUME IsInt(a), Exact(a), Exact(b), Node.op # "Lsft", v.tame
        PROVE  ConstBinary(Node.op, a.truth, b.truth) = {v.truth}
    BY <1>2, <1>3, <1>6, <1>8, ConstBinaryAgrees
  <1> HIDE DEF v
  <1>9. OnlyIntegers => IsInt(v)
    <2>1. OnlyIntegers => Node.op \in IntOps
      BY <1>1, <1>2, NodeIntegral
         DEF BinaryOp, IntOps, Arithmetic, Comparison, Shift, Bitwise, Logical
    <2>2. QED  BY <1>4, <1>6, <1>7, <2>1
  <1>10. ~Uses({"Lsft"}) => Exact(v)
    BY <1>4, <1>5, <1>6, <1>7
  <1>11. ASSUME IntLiterals, Node.const, v.tame
         PROVE  /\ IsInt(x) /\ IsInt(y)
                /\ ~Uses({"Lsft"}) => /\ ConstInt[Node.kids[1]] = {x.truth}
                                      /\ ConstInt[Node.kids[2]] = {y.truth}
    <2>1. x.tame /\ y.tame  BY <1>6, <1>7, <1>11
    <2>2. Kid(1).tame /\ Kid(2).tame  BY <2>1 DEF x, y
    <2>3. IsInt(Kid(1)) /\ (~Uses({"Lsft"}) => ConstInt[Node.kids[1]] = {Kid(1).truth})
      BY <1>1, <1>2, <1>11, <2>2, ConstantKid
    <2>4. IsInt(Kid(2)) /\ (~Uses({"Lsft"}) => ConstInt[Node.kids[2]] = {Kid(2).truth})
      BY <1>1, <1>2, <1>11, <2>2, ConstantKid
    <2>5. QED  BY <2>3, <2>4 DEF x, y
  <1>12. ASSUME IntLiterals, Node.const, v.tame PROVE IsInt(v)
    BY <1>6, <1>7, <1>11, <1>12
  <1>13. ASSUME ~Uses({"Lsft"}), IntLiterals, Node.const, v.tame
         PROVE  ConstResult(Node, ConstInt) = {v.bits}
    <2>1. ConstResult(Node, ConstInt) =
              UNION {ConstBinary(Node.op, m, n) :
                         m \in ConstInt[Node.kids[1]], n \in ConstInt[Node.kids[2]]}
      BY <1>1 DEF ConstResult
    <2>2. ConstInt[Node.kids[1]] = {x.truth} /\ ConstInt[Node.kids[2]] = {y.truth}
      BY <1>11, <1>13
    <2>3. UNION {ConstBinary(Node.op, m, n) : m \in {x.truth}, n \in {y.truth}} =
              ConstBinary(Node.op, x.truth, y.truth)
      OBVIOUS
    <2>4. ConstResult(Node, ConstInt) = ConstBinary(Node.op, x.truth, y.truth)
      BY <2>1, <2>2, <2>3
    <2>5. a.truth = x.truth /\ b.truth = y.truth
      BY <1>6, <1>7, <1>13
    <2>6. IsInt(a) /\ Exact(a) /\ Exact(b)
      BY <1>4, <1>6, <1>11, <1>13
    <2>7. ConstBinary(Node.op, a.truth, b.truth) = {v.truth}
      BY <1>5, <1>8, <1>13, <2>6
    <2>8. v.bits = v.truth  BY <1>10, <1>13 DEF Exact
    <2>9. QED  BY <2>4, <2>5, <2>7, <2>8
  <1>14. QED  BY <1>1, <1>7, <1>9, <1>10, <1>12, <1>13, YieldStep

\* An assignment: the value is converted to the type of the variable.
LEMMA EmitAssignKeeps == ASSUME BInv, EmitAssign PROVE BInv'
  <1> DEFINE left == nodes[Node.kids[1]]
             ty == LlvmType(left.decl)
             u == Kid(2)
             v == ToStored(u, ty)
  <1>1. /\ Emitting /\ Node.kind = "Binary" /\ Node.op = "Assign"
        /\ stored' = v /\ values' = Append(values, u)
        /\ status' = IF IsValid(v) THEN status ELSE "invalid"
        /\ UNCHANGED emitted
    BY DEF EmitAssign
  <1>2. /\ 1 \in DOMAIN Node.kids /\ 2 \in DOMAIN Node.kids
        /\ Node.kids[1] \in Ids /\ FitsKids(Node, nodes)
    BY <1>1, EmitFacts
  <1>3. left.kind \in {"IdRef", "IdIndexedRef"} /\ left \in NodeType
    BY <1>1, <1>2 DEF FitsKids, BInv, IInv, TypeOK, Ids
  <1>4. ~Node.const
    <2>1. ~left.const
      <3>1. FitsKids(left, nodes)
        BY <1>2 DEF BInv, TreeInv, Shapely
      <3>2. QED  BY <1>3, <3>1 DEF FitsKids
    <2>2. QED  BY <1>2, <2>1 DEF FitsKids
  <1>5. ty \in LlvmTypes /\ (left.decl \in IntType => ty.k = "int")
    <2>1. left.decl \in ValueType \cup {"Void"}  BY <1>3 DEF NodeType
    <2>2. QED  BY <2>1, LlvmTypeOf
  <1>6. OnlyIntegers => left.decl \in IntType
    BY <1>2 DEF OnlyIntegers, Integral
  <1> HIDE DEF left, ty
  <1>7. /\ u.ty \in LlvmTypes
        /\ ~Uses({"Lsft"}) => Exact(u)
        /\ OnlyIntegers => IsInt(u)
    BY <1>1, <1>2, EmitFacts
  <1>8. /\ Exact(u) => Exact(v)
        /\ IsInt(u) /\ ty.k = "int" => IsInt(v)
    <2>1. /\ Exact(u) => Exact(ToNumber(u, ty)) /\ Exact(ToStored(u, ty))
          /\ IsInt(u) /\ ty.k = "int" => /\ IsInt(ToNumber(u, ty))
                                         /\ ToStored(u, ty) = ToNumber(u, ty)
      BY <1>5, <1>7, ToNumberFacts
    <2>2. QED  BY <2>1
  <1> HIDE DEF u, v
  <1>9. status = "emitting"  BY <1>1 DEF Emitting
  <1>10. OnlyIntegers => IsInt(u) /\ status' = "emitting"
    BY <1>1, <1>5, <1>6, <1>7, <1>8, <1>9, ValidByType
  <1>11. ~Uses({"Lsft"}) => Exact(u) /\ Exact(stored')
    BY <1>1, <1>7, <1>8
  <1>12. status' \in {"emitting", "invalid"}
    BY <1>1, <1>9
  <1>13. QED  BY <1>1, <1>4, <1>7, <1>10, <1>11, <1>12, YieldKeeps

-----------------------------------------------------------------------------
(* The statement around the expression.                                     *)

\* The value of the whole expression.
LEMMA WholeFacts ==
    ASSUME BInv, Complete
    PROVE  /\ Whole.ty \in LlvmTypes
           /\ ~Uses({"Lsft"}) => Exact(Whole)
           /\ OnlyIntegers => IsInt(Whole)
  <1>1. IsSequence(values) /\ Len(values) \in Nat /\ DOMAIN values = 1 .. Len(values)
    BY AppendWhatever DEF BInv, ValuesInv
  <1>2. Len(values) # 0
    <2>1. nodes \in Seq(NodeType) /\ nodes # <<>>
      BY DEF Complete, BInv, ValuesInv, StageOK, IInv, TypeOK
    <2>2. Len(nodes) # 0  BY <2>1
    <2>3. QED  BY <2>2 DEF Complete
  <1>3. Len(values) \in DOMAIN values
    BY <1>1, <1>2
  <1>4. QED
    BY <1>3 DEF Whole, BInv, ValuesInv, ValuesTyped, ValuesExact, IntegersStay

\* The value that the statement uses is no node's.
LEMMA FinishKeeps ==
    ASSUME BInv, Complete, NEW v, Finish(v),
           v.ty \in LlvmTypes,
           ~Uses({"Lsft"}) => Exact(v),
           OnlyIntegers => IsInt(v)
    PROVE  BInv'
  <1> DEFINE end == Len(values) + 1
  <1>0. /\ values' = Append(values, v) /\ UNCHANGED emitted /\ stored' = stored
        /\ status' = IF IsValid(v) THEN "done" ELSE "invalid"
    BY DEF Finish
  <1>1. /\ IsSequence(values') /\ DOMAIN values' = DOMAIN values \cup {end}
        /\ \A i \in DOMAIN values : values'[i] = values[i]
        /\ values'[end] = v
        /\ end \notin Ids
    <2>1. IsSequence(values)  BY DEF BInv, ValuesInv
    <2>2. Len(values) \in Nat  BY <2>1, AppendWhatever
    <2>3. 1 .. Len(values) + 1 = 1 .. Len(values) \cup {Len(values) + 1}
      BY <2>2
    <2>4. end \notin Ids
      BY <2>2 DEF Ids, Complete
    <2>5. QED  BY <1>0, <2>1, <2>3, <2>4, AppendWhatever
  <1> HIDE DEF end
  <1>2. IInv' /\ TreeInv'
    BY <1>0, SameIInv, SameTreeInv DEF BInv
  <1>3. /\ Uses({"Lsft"})' <=> Uses({"Lsft"})
        /\ IntLiterals' <=> IntLiterals
        /\ OnlyIntegers' <=> OnlyIntegers
        /\ Ids' = Ids /\ ConstInt' = ConstInt /\ nodes' = nodes
    BY <1>0, SameHypotheses
  <1>4. Ids \cap DOMAIN values' = Ids \cap DOMAIN values
    BY <1>1
  <1>5. StageOK'
    BY <1>0 DEF StageOK
  <1>6. ValuesTyped'
    BY <1>1 DEF ValuesTyped, BInv, ValuesInv
  <1>7. ValuesExact'
    BY <1>0, <1>1, <1>3 DEF ValuesExact, BInv, ValuesInv
  <1>8. IntegersStay'
    <2> SUFFICES ASSUME OnlyIntegers
                 PROVE  /\ status' \notin {"invalid", "assert"}
                        /\ \A i \in DOMAIN values' : IsInt(values'[i])
      BY <1>3 DEF IntegersStay
    <2>1. \A i \in DOMAIN values : IsInt(values[i])
      BY DEF IntegersStay, BInv, ValuesInv
    <2>2. status' = "done"
      BY <1>0, ValidByType
    <2>3. QED  BY <1>1, <2>1, <2>2
  <1>9. ConstantsAreIntegers'
    BY <1>1, <1>3, <1>4 DEF ConstantsAreIntegers, BInv, ValuesInv
  <1>10. ConstantsAgree'
    BY <1>1, <1>3, <1>4 DEF ConstantsAgree, IntLiterals, BInv, ValuesInv
  <1>11. QED
    BY <1>1, <1>2, <1>5, <1>6, <1>7, <1>8, <1>9, <1>10 DEF BInv, ValuesInv

\* The statement does not use the value.
LEMMA FinishExprStmtKeeps == ASSUME BInv, FinishExprStmt PROVE BInv'
  <1>1. Complete /\ Finish(Whole)  BY DEF FinishExprStmt
  <1>2. QED  BY <1>1, WholeFacts, FinishKeeps

\* return converts it to the type of the function.
LEMMA FinishReturnKeeps == ASSUME BInv, FinishReturn PROVE BInv'
  <1>1. Complete  BY DEF FinishReturn
  <1>2. PICK t \in Contexts \cap ValueType : Finish(ToAimType(Whole, LlvmType(t)))
    BY DEF FinishReturn
  <1> DEFINE v == ToAimType(Whole, LlvmType(t))
  <1>3. LlvmType(t) \in LlvmTypes /\ (t \in IntType => LlvmType(t).k = "int")
    BY LlvmTypeOf
  <1>4. OnlyIntegers => t \in IntType
    BY DEF OnlyIntegers, ValueType
  <1>5. /\ v.ty \in LlvmTypes
        /\ Exact(Whole) => Exact(v)
        /\ IsInt(Whole) /\ LlvmType(t).k = "int" => IsInt(v)
    BY <1>1, <1>3, WholeFacts, ToNumberFacts DEF ToAimType
  <1>6. Finish(v)  BY <1>2
  <1> HIDE DEF v
  <1>7. /\ ~Uses({"Lsft"}) => Exact(v)
        /\ OnlyIntegers => IsInt(v)
    BY <1>1, <1>3, <1>4, <1>5, WholeFacts
  <1>8. QED  BY <1>1, <1>5, <1>6, <1>7, FinishKeeps

\* A condition takes its lowest bit.
LEMMA FinishConditionKeeps == ASSUME BInv, FinishCondition PROVE BInv'
  <1> DEFINE v == Convert(Whole, I1)
  <1>1. Complete /\ Finish(v)  BY DEF FinishCondition
  <1>2. I1 \in LlvmTypes /\ I1.k = "int"  BY OneBitType
  <1>3. v.ty = I1  BY MakeType DEF Convert
  <1>4. Exact(Whole) => Exact(v)  BY <1>2, ConvertExact DEF Exact
  <1> HIDE DEF v
  <1>5. IsInt(v) /\ v.ty \in LlvmTypes  BY <1>2, <1>3 DEF IsInt
  <1>6. QED  BY <1>1, <1>4, <1>5, WholeFacts, FinishKeeps

\* A condition that is no integer fails an assertion.
LEMMA AssertConditionKeeps == ASSUME BInv, AssertCondition PROVE BInv'
  <1>1. /\ Complete /\ ~IsInt(Whole) /\ status' = "assert"
        /\ UNCHANGED <<emitted, values, stored>>
    BY DEF AssertCondition
  <1>2. ~OnlyIntegers  BY <1>1, WholeFacts
  <1>3. status = "emitting"  BY <1>1 DEF Complete
  <1>4. QED  BY <1>1, <1>2, <1>3, StopKeeps

-----------------------------------------------------------------------------
(* The invariant.                                                           *)

\* While types are checked there are no values, and only an operand without a value stops
\* the checker.
LEMMA CheckTypesKeeps == ASSUME BInv, CheckTypes PROVE BInv'
  <1>1. Next /\ values' = values /\ stored' = stored  BY DEF CheckTypes
  <1>2. IInv' /\ TreeInv'  BY <1>1, StepIInv, StepTree DEF BInv
  <1>3. status = "checking"
    BY <1>1 DEF Next, VisitIdRef, VisitNumber, VisitIdIndexedRef, VisitCall, VisitUnary,
                VisitBinary, AssertTypeSize, Checking
  <1>4. values' = <<>> /\ stored' = Invalid
    BY <1>1, <1>3 DEF BInv, ValuesInv, StageOK
  <1>5. DOMAIN values' = {} /\ IsSequence(values')
    <2>1. <<>> \in Seq({}) /\ DOMAIN <<>> = {}  OBVIOUS
    <2>2. QED  BY <1>4, <2>1 DEF IsSequence
  <1>6. \/ status' = "checking"
        \/ AssertTypeSize
    BY <1>1, <1>3 DEF Next, VisitIdRef, VisitNumber, VisitIdIndexedRef, VisitCall,
                      VisitUnary, VisitBinary, Return, Typed
  <1>7. AssertTypeSize => status' = "assert" /\ ~OnlyIntegers'
    <2> SUFFICES ASSUME AssertTypeSize PROVE status' = "assert" /\ ~OnlyIntegers'
      OBVIOUS
    <2> DEFINE l == open[Len(open) - 1]
               r == open[Len(open)]
    <2>1. /\ Len(open) >= 2 /\ HasNoSize(Attr(nodes[l]), Attr(nodes[r]))
          /\ status' = "assert" /\ UNCHANGED emitted
      BY DEF AssertTypeSize, emitted
    <2>2. open \in Seq(Ids)  BY DEF BInv, IInv, TypeOK
    <2>3. l \in Ids /\ r \in Ids  BY <2>1, <2>2
    <2>4. nodes[l].type = "Void" \/ nodes[r].type = "Void"
      BY <2>1 DEF HasNoSize, Attr
    <2>5. "Void" \notin IntType  BY ConstantsAssumption
    <2>6. ~OnlyIntegers
      BY <2>3, <2>4, <2>5 DEF OnlyIntegers, Integral
    <2>7. QED  BY <2>1, <2>6, SameHypotheses
  <1>8. StageOK'
    BY <1>4, <1>6, <1>7 DEF StageOK
  <1>9. ValuesTyped' /\ ConstantsAreIntegers'
    BY <1>5 DEF ValuesTyped, ConstantsAreIntegers
  <1>10. ValuesExact'
    BY <1>4, <1>5, InvalidExact DEF ValuesExact
  <1>11. IntegersStay'
    BY <1>5, <1>6, <1>7 DEF IntegersStay
  <1>12. ConstantsAgree'
    BY <1>5 DEF ConstantsAgree
  <1>13. QED
    BY <1>2, <1>5, <1>8, <1>9, <1>10, <1>11, <1>12 DEF BInv, ValuesInv

\* The builder starts on an expression that is whole.
LEMMA FinishTypesKeeps == ASSUME BInv, FinishTypes PROVE BInv'
  <1>1. /\ status = "checking" /\ Len(open) = 1 /\ status' = "emitting"
        /\ UNCHANGED emitted /\ values' = values /\ stored' = stored
    BY DEF FinishTypes
  <1>2. IInv' /\ TreeInv'  BY <1>1, SameIInv, SameTreeInv DEF BInv
  <1>3. values' = <<>> /\ stored' = Invalid
    BY <1>1 DEF BInv, ValuesInv, StageOK
  <1>4. DOMAIN values' = {} /\ IsSequence(values')
    <2>1. <<>> \in Seq({}) /\ DOMAIN <<>> = {}  OBVIOUS
    <2>2. QED  BY <1>3, <2>1 DEF IsSequence
  <1>5. nodes' # <<>>
    <2>1. open \in Seq(Ids) /\ nodes \in Seq(NodeType)  BY DEF BInv, IInv, TypeOK
    <2>2. open[1] \in Ids  BY <1>1, <2>1
    <2>3. Len(nodes) # 0  BY <2>1, <2>2 DEF Ids
    <2>4. nodes' = nodes  BY <1>1 DEF emitted
    <2>5. QED  BY <2>3, <2>4
  <1>6. StageOK'
    BY <1>1, <1>5 DEF StageOK
  <1>7. ValuesTyped' /\ ConstantsAreIntegers'
    BY <1>4 DEF ValuesTyped, ConstantsAreIntegers
  <1>8. ValuesExact'
    BY <1>3, <1>4, InvalidExact DEF ValuesExact
  <1>9. IntegersStay'
    BY <1>1, <1>4 DEF IntegersStay
  <1>10. ConstantsAgree'
    BY <1>4 DEF ConstantsAgree
  <1>11. QED
    BY <1>2, <1>4, <1>6, <1>7, <1>8, <1>9, <1>10 DEF BInv, ValuesInv

\* Nothing is emitted at first.
LEMMA BuilderStarts == BuilderInit => BInv
  <1> SUFFICES ASSUME BuilderInit PROVE BInv
    OBVIOUS
  <1>1. Init /\ values = <<>> /\ stored = Invalid  BY DEF BuilderInit
  <1>2. IInv  BY <1>1, InitIInv
  <1>3. /\ nodes = <<>> /\ Ids = {} /\ open = <<>> /\ DOMAIN open = {} /\ status = "checking"
    BY <1>1 DEF Init, Ids
  <1>4. TreeInv
    BY <1>3 DEF TreeInv, Shapely, KidsClosed, IntegerConstants
  <1>5. DOMAIN values = {} /\ IsSequence(values)
    <2>1. <<>> \in Seq({}) /\ DOMAIN <<>> = {}  OBVIOUS
    <2>2. QED  BY <1>1, <2>1 DEF IsSequence
  <1>6. StageOK  BY <1>1, <1>3 DEF StageOK
  <1>7. ValuesTyped /\ ConstantsAreIntegers /\ ConstantsAgree
    BY <1>5 DEF ValuesTyped, ConstantsAreIntegers, ConstantsAgree
  <1>8. ValuesExact  BY <1>1, <1>5, InvalidExact DEF ValuesExact
  <1>9. IntegersStay  BY <1>3, <1>5 DEF IntegersStay
  <1>10. QED  BY <1>2, <1>4, <1>5, <1>6, <1>7, <1>8, <1>9 DEF BInv, ValuesInv

\* Nothing that the invariant names changes.
LEMMA BuilderStutters == ASSUME BInv, UNCHANGED allVars PROVE BInv'
  <1>1. /\ UNCHANGED emitted /\ status' = status /\ values' = values /\ stored' = stored
    BY DEF allVars, vars, emitted
  <1>2. IInv' /\ TreeInv'
    <2>1. status \in {"checking", "emitting", "done", "assert", "invalid"}
      BY DEF BInv, IInv, TypeOK
    <2>2. QED  BY <1>1, <2>1, SameIInv, SameTreeInv DEF BInv
  <1>3. /\ Uses({"Lsft"})' <=> Uses({"Lsft"})
        /\ IntLiterals' <=> IntLiterals
        /\ OnlyIntegers' <=> OnlyIntegers
        /\ Ids' = Ids /\ ConstInt' = ConstInt /\ nodes' = nodes
    BY <1>1, SameHypotheses
  <1>4. StageOK' /\ ValuesTyped' /\ IsSequence(values')
    BY <1>1, <1>3 DEF StageOK, ValuesTyped, BInv, ValuesInv
  <1>5. ValuesExact' /\ IntegersStay'
    BY <1>1, <1>3 DEF ValuesExact, IntegersStay, BInv, ValuesInv
  <1>6. ConstantsAreIntegers'
    BY <1>1, <1>3 DEF ConstantsAreIntegers, BInv, ValuesInv
  <1>7. ConstantsAgree'
    BY <1>1, <1>3 DEF ConstantsAgree, IntLiterals, BInv, ValuesInv
  <1>8. QED  BY <1>2, <1>4, <1>5, <1>6, <1>7 DEF BInv, ValuesInv

\* The builder keeps its invariant, for all types, literals, contents and contexts.
THEOREM BuilderInvariance == BuilderSpec => []BInv
  <1>1. BInv /\ [BuilderNext]_allVars => BInv'
    <2> SUFFICES ASSUME BInv, [BuilderNext]_allVars PROVE BInv'
      OBVIOUS
    <2>1. CASE CheckTypes       BY <2>1, CheckTypesKeeps
    <2>2. CASE FinishTypes      BY <2>2, FinishTypesKeeps
    <2>3. CASE EmitRef          BY <2>3, EmitRefKeeps
    <2>4. CASE EmitIndexedRef   BY <2>4, EmitIndexedRefKeeps
    <2>5. CASE EmitNumber       BY <2>5, EmitNumberKeeps
    <2>6. CASE EmitAssert       BY <2>6, EmitAssertKeeps
    <2>7. CASE EmitCall         BY <2>7, EmitCallKeeps
    <2>8. CASE EmitUnaryExpr    BY <2>8, EmitUnaryExprKeeps
    <2>9. CASE EmitBinaryExpr   BY <2>9, EmitBinaryExprKeeps
    <2>10. CASE EmitAssign      BY <2>10, EmitAssignKeeps
    <2>11. CASE FinishExprStmt  BY <2>11, FinishExprStmtKeeps
    <2>12. CASE FinishReturn    BY <2>12, FinishReturnKeeps
    <2>13. CASE FinishCondition  BY <2>13, FinishConditionKeeps
    <2>14. CASE AssertCondition  BY <2>14, AssertConditionKeeps
    <2>15. CASE UNCHANGED allVars  BY <2>15, BuilderStutters
    <2>16. QED
      BY <2>1, <2>2, <2>3, <2>4, <2>5, <2>6, <2>7, <2>8, <2>9, <2>10, <2>11, <2>12, <2>13,
         <2>14, <2>15 DEF BuilderNext, Emit
  <1>2. QED  BY BuilderStarts, <1>1, PTL DEF BuilderSpec

\* Whatever the types of the variables, literals and casts are, and however wide they
\* are, an emitted value that has lost nothing is what the source means: no conversion
\* that typeConvert, convertToAimType or storeValueToPointer inserts changes it.
THEOREM ConversionsAreExact == BuilderSpec => []ExactOnNonNegatives
  <1>1. BInv => ExactOnNonNegatives
    BY DEF BInv, ValuesInv, ValuesExact, Exact, ExactOnNonNegatives
  <1>2. QED  BY BuilderInvariance, <1>1, PTL

\* getConstIntByExpr returns one number for every constant over integers that the
\* program can compute, and the same as the program.
THEOREM ConstantsAreFolded == BuilderSpec => []ConstantsAgree
  <1>1. BInv => ConstantsAgree  BY DEF BInv, ValuesInv
  <1>2. QED  BY BuilderInvariance, <1>1, PTL

\* No visitor and no statement makes an instruction that LLVM rejects, or fails an
\* assertion, over integers of any widths, for the operators that the property admits.
THEOREM IntegersAreAccepted == BuilderSpec => []IntegersAreWellTyped
  <1>1. BInv => IntegersAreWellTyped
    <2> SUFFICES ASSUME BInv, ~IntegersAreWellTyped PROVE FALSE
      OBVIOUS
    <2>1. OnlyIntegers
      BY DEF IntegersAreWellTyped, OnlyIntegers
    <2>2. QED  BY <2>1 DEF BInv, ValuesInv, IntegersStay, IntegersAreWellTyped
  <1>2. QED  BY BuilderInvariance, <1>1, PTL

\* What the type checker leaves stays as it is while values are emitted.
THEOREM TypesOutliveTheChecker ==
    BuilderSpec => [](TypeOK /\ GarbageStaysInConstants /\ FallsOffOnConstantsOnly)
  <1>1. BInv => TypeOK /\ GarbageStaysInConstants /\ FallsOffOnConstantsOnly
    BY DEF BInv, IInv
  <1>2. QED  BY BuilderInvariance, <1>1, PTL
=============================================================================
