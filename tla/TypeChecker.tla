------------------------------ MODULE TypeChecker ------------------------------
(***************************************************************************)
(* TypeChecker (src/type_checker.cpp): the pass that leaves a type and a     *)
(* sign in every expression, bottom up.  The visitor of a binary expression   *)
(* also overwrites those of its operands.                                   *)
(*                                                                         *)
(* `nodes` is the expression in the order in which its visitors return, so   *)
(* operands come before their operator; `open` are the finished operands      *)
(* whose operator is still to come.  The expression is chosen as it is         *)
(* visited.                                                                 *)
(***************************************************************************)
EXTENDS Integers, Sequences

CONSTANTS
    IntType,     \* the integer types of the language that are considered, with Bool
    Size,        \* getTypeSize: the bits of each type
    Variables,   \* bound: the types of variables and elements
    Forms,       \* bound: the types that literals have of themselves
    Literal,     \* bound: the values of constants
    Ops(_),      \* bound: the binary operators considered for the n-th node
    Kinds(_),    \* bound: the expressions with one operand considered for the n-th node
    Returns,     \* bound: the types that functions return, or Void
    ParamType,   \* bound: the types of parameters
    MaxNodes     \* bound: nodes of the expression

FPType == {"Float", "Double"}
ValueType == IntType \cup FPType
BinaryOp ==
    {"Assign", "Add", "Sub", "Mul", "Div", "Eq", "Neq", "Gt", "Ge", "Lt", "Le", "Or", "And",
     "BitOr", "BitAnd", "BitXor", "Lsft", "Rsft", "Lusft", "Rusft", "Dot"}
Signed == {"Char", "Short", "Int", "Long"} \cup FPType    \* isSigned

ASSUME ConstantsAssumption ==
    /\ {"Bool", "Int", "UChar", "Long", "ULong"} \subseteq IntType
    /\ IntType \cap FPType = {} /\ "Void" \notin IntType
    /\ Size \in [ValueType -> Nat \ {0}]
    /\ \A s, t \in IntType \ Signed : Size[s] = Size[t] => s = t
    /\ Variables \subseteq ValueType /\ Forms \subseteq ValueType
    /\ \A n \in 1 .. MaxNodes : Ops(n) \subseteq BinaryOp
    /\ Literal \subseteq Nat /\ MaxNodes \in Nat
    /\ Returns \subseteq ValueType \cup {"Void"} /\ ParamType \subseteq ValueType

VARIABLES
    nodes,     \* the expressions that are typed
    open,      \* those without a parent yet, from left to right
    fell,      \* has matchType ended without a return statement?
    status     \* "checking", "emitting", "done"; "assert", "invalid"

vars == <<nodes, open, fell, status>>

-----------------------------------------------------------------------------
(* Nodes: what the parser leaves (kind, op, kids, decl, lit), isConstant *)
(* of it, and ExprType and IsSigned.                                         *)

Ids == 1 .. Len(nodes)
IsFP(t) == t \in FPType
Attr(n) == [type |-> n.type, sign |-> n.sign]

Leaf(kind, decl) ==
    [kind |-> kind, op |-> "", kids |-> <<>>, decl |-> decl, lit |-> 0,
     const |-> FALSE, type |-> decl, sign |-> decl \in Signed]

\* a node with its own sign, which may be constant
WithSign(kind, a, const) == [Leaf(kind, a.type) EXCEPT !.const = const, !.sign = a.sign]

\* a node over operands
Over(node, op, kids) == [node EXCEPT !.op = op, !.kids = kids]

\* the operand whose type matchType keeps, where it looks at types that differ
LeftWins(a, b) ==
    \/ a.type = "Double"
    \/ a.type = "Float" /\ b.type # "Double"
    \/ /\ ~IsFP(a.type) /\ ~IsFP(b.type)
       /\ \/ Size[a.type] > Size[b.type]
          \/ Size[a.type] = Size[b.type] /\ a.sign

\* what the other operand becomes: the sign is not copied with a floating-point type
Overwrite(loser, winner) ==
    IF IsFP(winner.type) THEN [loser EXCEPT !.type = winner.type] ELSE winner

\* Mutant of FallsOff: the sign of the right operand is not looked at
MutFallsOff(a, b) ==
    /\ a.type # b.type /\ ~IsFP(a.type) /\ ~IsFP(b.type)
    /\ Size[a.type] = Size[b.type] /\ ~a.sign

\* two integers of the same size, neither of them signed: no return statement is reached
FallsOff(a, b) ==
    /\ a.type # b.type /\ ~IsFP(a.type) /\ ~IsFP(b.type)
    /\ Size[a.type] = Size[b.type] /\ ~a.sign /\ ~b.sign

\* getTypeSize asserts that it knows the type
HasNoSize(a, b) == a.type # b.type /\ ~IsFP(a.type) /\ ~IsFP(b.type) /\ "Void" \in {a.type, b.type}

\* matchType(l, r): both operands behind it and the operand that the caller believes;
\* what is returned behind a missing return statement may be anything.
Match(a, b) ==
    IF a.type = b.type THEN {[l |-> a, r |-> b, by |-> a]}
    ELSE IF FallsOff(a, b) THEN {[l |-> a, r |-> b, by |-> w] : w \in {a, b}}
    ELSE IF LeftWins(a, b) THEN {[l |-> a, r |-> Overwrite(b, a), by |-> a]}
    ELSE {[l |-> Overwrite(a, b), r |-> b, by |-> b]}

-----------------------------------------------------------------------------
Init ==
    /\ nodes = <<>> /\ open = <<>> /\ fell = FALSE
    /\ status = "checking"

Checking == status = "checking" /\ Len(nodes) < MaxNodes
OpenButLast(n) == SubSeq(open, 1, Len(open) - n)

\* a visitor returns: its node takes the place of its last n operands
Return(tree, node, n) ==
    /\ nodes' = Append(tree, node)
    /\ open' = Append(OpenButLast(n), Len(nodes) + 1)
    /\ UNCHANGED status

VisitIdRef ==
    /\ Checking
    /\ \E t \in Variables : Return(nodes, Leaf("IdRef", t), 0)
    /\ UNCHANGED fell

\* NumberExprAST::setIsSigned hides the one of ExprAST, so isSign() of the node is
\* whatever the memory held; the literal's own sign decides the type.
VisitNumber ==
    /\ Checking
    /\ \E n \in Literal, garbage \in BOOLEAN, t \in Forms :
           Return(nodes, [Leaf("Number", t) EXCEPT !.lit = n, !.const = TRUE,
                                                 !.sign = garbage], 0)
    /\ UNCHANGED fell

\* one index stands for all
VisitIdIndexedRef ==
    /\ Checking /\ open # <<>> /\ "IdIndexedRef" \in Kinds(Len(nodes) + 1)
    /\ \E t \in Variables :
           Return(nodes, Over(Leaf("IdIndexedRef", t), "Int", <<open[Len(open)]>>), 1)
    /\ UNCHANGED fell

\* a call with one argument, whose parameter has the type `op`; Print takes any
VisitCall ==
    /\ Checking /\ open # <<>> /\ "Call" \in Kinds(Len(nodes) + 1)
    /\ \E t \in Returns, p \in ParamType \cup {"any"} :
           /\ p = "any" => t = "Void"
           /\ Return(nodes, Over(Leaf("Call", t), p, <<open[Len(open)]>>), 1)
    /\ UNCHANGED fell

VisitUnary ==
    /\ Checking /\ open # <<>> /\ "Unary" \in Kinds(Len(nodes) + 1)
    /\ LET kid == nodes[open[Len(open)]] IN
       \E op \in {"Not", "Sub", "Add"} :
           Return(nodes, Over(WithSign("Unary", Attr(kid), kid.const),
                              op, <<open[Len(open)]>>), 1)
    /\ UNCHANGED fell

\* both operands with the types they now have, and the expression with that of one
Typed(op, l, r, m) ==
    Return([nodes EXCEPT ![l].type = m.l.type, ![l].sign = m.l.sign,
                         ![r].type = m.r.type, ![r].sign = m.r.sign],
           Over(WithSign("Binary", m.by, nodes[l].const /\ nodes[r].const),
                op, <<l, r>>), 2)

IsTarget(i) == nodes[i].kind \in {"IdRef", "IdIndexedRef"}

\* Mutant of Matched: a constant is an operand like every other
MutMatched(l, r) == TRUE

\* the operands whose types matchType decides: both constant, or neither
Matched(l, r) == nodes[l].const = nodes[r].const

VisitBinary ==
    /\ Checking /\ Len(open) >= 2
    /\ LET l == open[Len(open) - 1]  r == open[Len(open)]
           a == Attr(nodes[l])       b == Attr(nodes[r])
       IN  /\ ~(Matched(l, r) /\ HasNoSize(a, b))
           /\ \E op \in Ops(Len(nodes) + 1) :
                  /\ op = "Assign" => IsTarget(l)
                  /\ \/ /\ Matched(l, r)
                        /\ \E m \in Match(a, b) : Typed(op, l, r, m)
                     \/ /\ ~Matched(l, r) /\ nodes[l].const
                        /\ Typed(op, l, r, [l |-> b, r |-> b, by |-> b])
                     \/ /\ ~Matched(l, r) /\ nodes[r].const
                        /\ Typed(op, l, r, [l |-> a, r |-> a, by |-> a])
           /\ fell' = (fell \/ (Matched(l, r) /\ FallsOff(a, b)))

\* an operand without a value
AssertTypeSize ==
    /\ Checking /\ Len(open) >= 2
    /\ LET l == open[Len(open) - 1]  r == open[Len(open)] IN
           Matched(l, r) /\ HasNoSize(Attr(nodes[l]), Attr(nodes[r]))
    /\ status' = "assert"
    /\ UNCHANGED <<nodes, open, fell>>

Next ==
    \/ VisitIdRef \/ VisitNumber \/ VisitIdIndexedRef \/ VisitCall
    \/ VisitUnary \/ VisitBinary \/ AssertTypeSize

Spec == Init /\ [][Next]_vars

-----------------------------------------------------------------------------
(* Properties.                                                              *)

NodeType ==
    [kind : {"IdRef", "Number", "IdIndexedRef", "Call", "Unary", "Binary"},
     op : {"", "any", "Not"} \cup ValueType \cup BinaryOp,
     kids : Seq(Nat), decl : ValueType \cup {"Void"},
     lit : Nat, const : BOOLEAN, type : ValueType \cup {"Void"}, sign : BOOLEAN]

TypeOK ==
    /\ nodes \in Seq(NodeType)
    /\ \A i \in Ids : \A k \in DOMAIN nodes[i].kids : nodes[i].kids[k] \in 1 .. i - 1
    /\ open \in Seq(Ids)
    /\ fell \in BOOLEAN
    /\ status \in {"checking", "emitting", "done", "assert", "invalid"}

\* The sign of a constant is never initialised.  It stays among constants: the sign of
\* an expression with a variable or call in it is that of its type, until its own
\* operator overwrites it, whichever constants stand in it and on which side.
GarbageStaysInConstants ==
    \A k \in DOMAIN open :
        LET n == nodes[open[k]] IN ~n.const => n.sign = (n.type \in Signed)

\* matchType reaches its missing return statement only in expressions that hold an
\* operator over constants: never for variables, calls and single constants alone.
FallsOffOnConstantsOnly ==
    fell => \E i \in Ids : nodes[i].kind = "Binary" /\ nodes[i].const
=============================================================================
