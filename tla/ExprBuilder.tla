------------------------------ MODULE ExprBuilder ------------------------------
(***************************************************************************)
(* The expression visitors of KaleIRBuilder (src/ir_builder.cpp) as far as    *)
(* they convert and compute values, on the tree that TypeChecker leaves.      *)
(* Addresses and indexes are in RefBuilder.                                  *)
(*                                                                         *)
(* An emitted value has its LLVM type, its bits when the program runs, and    *)
(* `truth`: the number the source means, in which nothing is lost.  It is     *)
(* `tame` if no number so far was negative, left its type, or was undefined.  *)
(* Float and double hold every number that is considered.                    *)
(***************************************************************************)
EXTENDS TypeChecker

CONSTANTS
    Contexts,    \* bound: how the value of an expression is used
    Content(_)   \* bound: the bits that a variable of n bits may hold

\* 2 to the power of n
Pow2[n \in Nat] == IF n = 0 THEN 1 ELSE 2 * Pow2[n - 1]

ASSUME ContentAssumption ==
    /\ Size["Bool"] = 1
    /\ \A t \in IntType : Content(Size[t]) \subseteq 0 .. Pow2[Size[t]] - 1

VARIABLES
    values,     \* LastValue when the visitor of each node returned
    stored      \* what the last assignment stored

allVars == <<vars, values, stored>>
emitted == <<nodes, open, fell>>

-----------------------------------------------------------------------------
(* LLVM types and the conversions between them.                             *)

IntOf(n) == [k |-> "int", w |-> n]
LlvmType(t) == IF t \in IntType THEN IntOf(Size[t]) ELSE [k |-> t, w |-> 0]
IsInt(v) == v.ty.k = "int"
IsReal(v) == v.ty.k \in FPType
I1 == IntOf(Size["Bool"])

\* no LLVM instruction has operands of these types
Invalid == [ty |-> [k |-> "invalid", w |-> 0], bits |-> 0, truth |-> 0, tame |-> FALSE]
IsValid(v) == v # Invalid

\* does the type hold the number?  One bit holds 0 and 1.
Holds(ty, n) == ty.k = "int" => n \in 0 .. Pow2[ty.w] - 1
Make(ty, bits, truth, tame) ==
    [ty |-> ty, bits |-> IF ty.k = "int" THEN bits % Pow2[ty.w] ELSE bits,
     truth |-> truth, tame |-> tame /\ Holds(ty, truth)]
Convert(v, ty) == Make(ty, v.bits, v.truth, v.tame)    \* ZExt, Trunc, UIToFP, FPToUI, FPExt

Widen(v, ty) == [Convert(v, ty) EXCEPT !.tame = v.tame]    \* where nothing should be lost

\* Mutant of TypeConvert: the wider operand is cut to the width of the other
MutTypeConvert(a, b) ==
    IF a.ty = b.ty THEN <<a, b>>
    ELSE IF a.ty.w > b.ty.w THEN <<Widen(a, b.ty), b>> ELSE <<a, Widen(b, a.ty)>>

\* typeConvert(lv, rv): an integer at the left of a floating-point number is widened by
\* FPExt, and no such instruction takes an integer.
TypeConvert(a, b) ==
    CASE a.ty = b.ty -> <<a, b>>
      [] a.ty.k = "Double" /\ (IsInt(b) \/ b.ty.k = "Float") -> <<a, Widen(b, a.ty)>>
      [] a.ty.k = "Float" /\ b.ty.k = "Double" -> <<Widen(a, b.ty), b>>
      [] a.ty.k = "Float" /\ IsInt(b) -> <<a, Widen(b, a.ty)>>
      [] IsInt(a) /\ IsInt(b) /\ a.ty.w > b.ty.w -> <<a, Widen(b, a.ty)>>
      [] IsInt(a) /\ IsInt(b) /\ a.ty.w < b.ty.w -> <<Widen(a, b.ty), b>>
      [] OTHER -> <<Invalid, Invalid>>

\* Mutant of ToNumber: integers of another width are left as they are
MutToNumber(v, ty) ==
    IF v.ty = ty THEN v ELSE IF IsInt(v) # (ty.k = "int") THEN Convert(v, ty) ELSE Invalid

\* convertToAimType and the conversion of storeValueToPointer, where they agree
ToNumber(v, ty) ==
    CASE v.ty = ty -> v
      [] v.ty # ty /\ (IsInt(v) \/ (IsReal(v) /\ ty.k = "int")) -> Convert(v, ty)
      [] OTHER -> Invalid
ToAimType(v, ty) == ToNumber(v, ty)
ToStored(v, ty) == IF IsReal(v) /\ ty.k \in FPType THEN Convert(v, ty) ELSE ToNumber(v, ty)

-----------------------------------------------------------------------------
(* Operators.                                                               *)

Arithmetic == {"Add", "Sub", "Mul"}
Comparison == {"Eq", "Neq", "Gt", "Ge", "Lt", "Le"}
Logical == {"Or", "And"}
Shift == {"Rsft", "Lsft"}
Bitwise == {"BitOr", "BitAnd", "BitXor"}
Num(b) == IF b THEN 1 ELSE 0
Abs(x) == IF x < 0 THEN 0 - x ELSE x
OneBit(op, x, y) ==
    CASE op = "BitOr" -> x + y > 0 [] op = "BitAnd" -> x + y > 1 [] op = "BitXor" -> x + y = 1
EachBit(op, x, y) ==
    LET each[m, n \in Nat] ==
            IF m = 0 /\ n = 0 THEN 0
            ELSE Num(OneBit(op, m % 2, n % 2)) + 2 * each[m \div 2, n \div 2]
    IN  each[x, y]

Calculate(op, x, y) ==
    CASE op = "Add" -> x + y
      [] op = "Sub" -> x - y
      [] op = "Mul" -> x * y

Compare(op, x, y) ==
    CASE op = "Eq" -> x = y    [] op = "Neq" -> x # y
      [] op = "Gt" -> x > y    [] op = "Ge" -> x >= y
      [] op = "Lt" -> x < y    [] op = "Le" -> x <= y

\* the number that an instruction takes bits for
AsNumber(v, sign) ==
    IF sign /\ v.bits >= Pow2[v.ty.w - 1] THEN v.bits - Pow2[v.ty.w] ELSE v.bits

\* The code adds the no-signed-wrap flag where the expression is not signed.
NoWrap(ty, n, sign) == (ty.k = "int" /\ ~sign) => n < Pow2[ty.w - 1]

EmitArithmetic(op, a, b, sign) ==
    LET truth == Calculate(op, a.truth, b.truth) IN
    Make(a.ty, Calculate(op, a.bits, b.bits), truth,
         a.tame /\ b.tame /\ NoWrap(a.ty, truth, sign)
         /\ NoWrap(a.ty, a.truth, sign) /\ NoWrap(a.ty, b.truth, sign))

\* there is only the floating-point division
EmitDivide(a, b) ==
    IF b.bits = 0 \/ b.truth = 0 THEN Make(a.ty, 0, 0, FALSE)
    ELSE Make(a.ty, a.bits \div b.bits, a.truth \div b.truth,
              a.tame /\ b.tame /\ a.truth % b.truth = 0)

\* ICmp, for integers only; numbers that the sign does not read as they are meant
\* leave the result without a promise.
EmitCompare(op, a, b, sign) ==
    LET readable(v) == ~sign \/ op \in {"Eq", "Neq"} \/ v.truth < Pow2[v.ty.w - 1] IN
    Make(I1, Num(Compare(op, AsNumber(a, sign), AsNumber(b, sign))),
         Num(Compare(op, a.truth, b.truth)),
         a.tame /\ b.tame /\ readable(a) /\ readable(b))

\* LShr for both; `<<` should be the product
EmitShift(op, a, b) ==
    LET meant == IF op = "Rsft" THEN a.truth \div Pow2[b.truth] ELSE a.truth * Pow2[b.truth] IN
    IF b.bits < a.ty.w /\ b.tame
    THEN Make(a.ty, a.bits \div Pow2[b.bits], meant, a.tame)
    ELSE Make(a.ty, 0, 0, FALSE)

\* Or and And of one bit; the result of a wider one cannot be extended to one bit
EmitLogical(op, a, b) ==
    LET both(x, y) == IF op = "And" THEN x * y ELSE x + y - x * y IN
    Make(I1, both(a.bits, b.bits), both(a.truth, b.truth), a.tame /\ b.tame)

\* and of all bits
EmitBitwise(op, a, b) ==
    IF a.tame /\ b.tame
    THEN Make(a.ty, EachBit(op, a.bits, b.bits), EachBit(op, a.truth, b.truth), TRUE)
    ELSE Make(a.ty, EachBit(op, a.bits, b.bits), 0, FALSE)

EmitBinary(op, a, b, sign) ==
    CASE op \in Arithmetic /\ (IsInt(a) \/ IsReal(a)) -> EmitArithmetic(op, a, b, sign)
      [] op = "Div" /\ IsReal(a) -> EmitDivide(a, b)
      [] op \in Comparison /\ IsInt(a) -> EmitCompare(op, a, b, sign)
      [] op \in Shift /\ IsInt(a) -> EmitShift(op, a, b)
      [] op \in Bitwise /\ IsInt(a) -> EmitBitwise(op, a, b)
      [] op \in Logical /\ a.ty = I1 -> EmitLogical(op, a, b)
      [] OTHER -> Invalid

\* Sub negates, and asks for Float only; what follows a case without a break does too
EmitMinus(v, sign) ==
    IF v.ty.k = "Double" \/ ~(IsInt(v) \/ IsReal(v)) THEN Invalid
    ELSE EmitArithmetic("Sub", Make(v.ty, 0, 0, TRUE), v, sign)

\* Not of one bit runs on into Sub, which negates the bit again.  Without a sign that
\* is promised not to wrap, and 0 - 1 wraps in one bit: !FALSE has no defined value.
EmitNot(v, sign) ==
    IF v.ty = I1 THEN Make(I1, 0 - (1 - v.bits), 1 - v.truth, v.tame /\ (sign \/ v.bits = 1))
    ELSE Invalid

EmitUnary(op, v, sign) ==
    CASE op = "Not" -> EmitNot(v, sign)
      [] op = "Sub" -> EmitMinus(v, sign)
      [] op = "Add" -> v

-----------------------------------------------------------------------------
(* getConstIntByExpr, which computes the sizes of arrays while it builds: what it *)
(* may return for each node.  A literal that is no integer never set the number   *)
(* that is read; nothing is returned where the build stops.                       *)

IntForm == {"Long", "ULong"}    \* the types of integer literals

ConstUnary(op, x) ==
    CASE op = "Add" -> x [] op = "Sub" -> 0 - x [] op = "Not" -> Num(x = 0)

\* Mutant of ConstBinary: comparisons are the wrong way round
MutConstBinary(op, x, y) ==
    IF op \in Arithmetic THEN {Calculate(op, x, y)}
    ELSE IF op \in Comparison THEN {Num(~Compare(op, x, y))} ELSE {}

ConstBinary(op, x, y) ==
    CASE op \in Arithmetic -> {Calculate(op, x, y)}
      [] op \in Comparison -> {Num(Compare(op, x, y))}
      [] op = "Div" /\ y # 0 -> {IF (x < 0) = (y < 0) THEN Abs(x) \div Abs(y)
                                ELSE 0 - (Abs(x) \div Abs(y))}
      [] op = "Rsft" /\ y >= 0 -> {x \div Pow2[y]}
      [] op = "Lsft" /\ y >= 0 -> {x * Pow2[y]}
      [] op = "Or" -> {Num(x # 0 \/ y # 0)}
      [] op = "And" -> {Num(x # 0 /\ y # 0)}
      [] op \in Bitwise /\ x >= 0 /\ y >= 0 -> {EachBit(op, x, y)}
      [] OTHER -> {}

\* for a node, from what is returned for the nodes before it
ConstResult(n, of) ==
    CASE n.kind = "Number" -> IF n.decl \in IntForm THEN {n.lit} ELSE Literal
      [] n.kind = "Unary" -> {ConstUnary(n.op, x) : x \in of[n.kids[1]]}
      [] n.kind = "Binary" ->
             UNION {ConstBinary(n.op, x, y) : x \in of[n.kids[1]], y \in of[n.kids[2]]}
      [] OTHER -> {}

ConstOf(tree) ==
    LET first[i \in 0 .. Len(tree)] ==
            IF i = 0 THEN <<>>
            ELSE Append(first[i - 1], ConstResult(tree[i], first[i - 1]))
    IN  first[Len(tree)]
ConstInt == ConstOf(nodes)

-----------------------------------------------------------------------------
BuilderInit == Init /\ values = <<>> /\ stored = Invalid

\* main() runs the type checker to its end first
CheckTypes == Next /\ UNCHANGED <<values, stored>>

FinishTypes ==
    /\ status = "checking" /\ Len(open) = 1
    /\ status' = "emitting"
    /\ UNCHANGED <<emitted, values, stored>>

Emitting == status = "emitting" /\ Len(values) < Len(nodes)
At == Len(values) + 1
Node == nodes[At]
Kid(k) == values[Node.kids[k]]

\* LastValue is set; an instruction that LLVM does not have ends the build
Yield(v) ==
    /\ values' = Append(values, v)
    /\ status' = IF IsValid(v) THEN status ELSE "invalid"
    /\ UNCHANGED <<emitted, stored>>

\* the content of a variable or element, or the result of a call
AnyOf(t) ==
    LET ty == LlvmType(t) IN
    \E n \in IF ty.k = "int" THEN Content(ty.w) ELSE Literal :
        LET bits == [ty |-> ty, bits |-> n] IN
        Yield(Make(ty, n, IF ty.k = "int" THEN AsNumber(bits, t \in Signed) ELSE n, TRUE))

EmitRef ==
    /\ Emitting /\ Node.kind = "IdRef"
    /\ AnyOf(Node.decl)

\* the index is converted to Int
EmitIndexedRef ==
    /\ Emitting /\ Node.kind = "IdIndexedRef"
    /\ IF IsValid(ToAimType(Kid(1), LlvmType(Node.op))) THEN AnyOf(Node.decl) ELSE Yield(Invalid)

\* a constant is emitted in the type that its parent may have given it
EmitNumber ==
    /\ Emitting /\ Node.kind = "Number" /\ Node.type # "Void"
    /\ Yield(Make(LlvmType(Node.type), Node.lit, Node.lit, TRUE))

\* kaleTypeToLLVMType knows no Void; `>>>`, `<<<` and `.` have no case; Not wants an
\* integer
EmitAssert ==
    /\ Emitting
    /\ \/ Node.kind = "Number" /\ Node.type = "Void"
       \/ Node.kind = "Binary" /\ Node.op \in {"Rusft", "Lusft", "Dot"}
       \/ Node.kind = "Unary" /\ Node.op = "Not" /\ ~IsInt(Kid(1))
    /\ status' = "assert"
    /\ UNCHANGED <<emitted, values, stored>>

Argument ==
    CASE Node.op = "any" /\ Kid(1).ty.k = "Float" -> Convert(Kid(1), LlvmType("Double"))
      [] Node.op = "any" /\ Kid(1).ty.k # "Float" -> Kid(1)
      [] OTHER -> ToAimType(Kid(1), LlvmType(Node.op))

EmitCall ==
    /\ Emitting /\ Node.kind = "Call"
    /\ IF ~IsValid(Argument) THEN Yield(Invalid)
       ELSE IF Node.decl = "Void" THEN Yield(Make(LlvmType("Void"), 0, 0, FALSE))
       ELSE AnyOf(Node.decl)

EmitUnaryExpr ==
    /\ Emitting /\ Node.kind = "Unary"
    /\ Node.op = "Not" => IsInt(Kid(1))
    /\ Yield(EmitUnary(Node.op, Kid(1), Node.sign))

EmitBinaryExpr ==
    /\ Emitting /\ Node.kind = "Binary" /\ Node.op \notin {"Assign", "Rusft", "Lusft", "Dot"}
    /\ LET pair == TypeConvert(Kid(1), Kid(2)) IN
       Yield(EmitBinary(Node.op, pair[1], pair[2], Node.sign))

\* LastValue stays that of the right side
EmitAssign ==
    /\ Emitting /\ Node.kind = "Binary" /\ Node.op = "Assign"
    /\ LET v == ToStored(Kid(2), LlvmType(nodes[Node.kids[1]].decl)) IN
       /\ stored' = v
       /\ values' = Append(values, Kid(2))
       /\ status' = IF IsValid(v) THEN status ELSE "invalid"
    /\ UNCHANGED emitted

-----------------------------------------------------------------------------
(* The statement around the expression.                                      *)

Whole == values[Len(values)]
Complete == status = "emitting" /\ Len(values) = Len(nodes)

Finish(v) ==
    /\ status' = IF IsValid(v) THEN "done" ELSE "invalid"
    /\ values' = Append(values, v)
    /\ UNCHANGED <<emitted, stored>>

FinishExprStmt == Complete /\ "stmt" \in Contexts /\ Finish(Whole)

\* return, in a function of type t
FinishReturn ==
    /\ Complete
    /\ \E t \in Contexts \cap ValueType : Finish(ToAimType(Whole, LlvmType(t)))

\* convertToI1, under an if, for or while: the lowest bit
FinishCondition ==
    /\ Complete /\ "cond" \in Contexts /\ IsInt(Whole)
    /\ Finish(Convert(Whole, I1))

AssertCondition ==
    /\ Complete /\ "cond" \in Contexts /\ ~IsInt(Whole)
    /\ status' = "assert"
    /\ UNCHANGED <<emitted, values, stored>>

Emit ==
    \/ EmitRef \/ EmitIndexedRef \/ EmitNumber \/ EmitAssert \/ EmitCall
    \/ EmitUnaryExpr \/ EmitBinaryExpr \/ EmitAssign
    \/ FinishExprStmt \/ FinishReturn \/ FinishCondition \/ AssertCondition

BuilderNext == CheckTypes \/ FinishTypes \/ Emit

BuilderSpec == BuilderInit /\ [][BuilderNext]_allVars

-----------------------------------------------------------------------------
(* Properties.                                                              *)

Uses(S) == \E i \in Ids : nodes[i].op \in S

\* Conversions lose nothing as long as nothing is negative or too large: what the
\* program computes is what the source means, whatever the types, the constants and the
\* uninitialised signs.  The shift to the left is the exception.
ExactOnNonNegatives ==
    ~Uses({"Lsft"}) =>
        /\ \A i \in DOMAIN values : values[i].tame => values[i].bits = values[i].truth
        /\ stored.tame => stored.bits = stored.truth

\* What the compiler computes for a constant expression over integers, as the size of
\* an array, is what the program would compute for it.  Unary minus, division and
\* truth values that the program cannot compute are outside of it.
ConstantsAgree ==
    (~Uses({"Lsft"}) /\ \A i \in Ids : nodes[i].kind = "Number" => nodes[i].decl \in IntForm)
        => \A i \in Ids \cap DOMAIN values :
               nodes[i].const /\ values[i].tame => ConstInt[i] = {values[i].bits}

Integral(n) == n.type \in IntType /\ n.decl \in IntType

\* An expression over integers that does not divide, and negates or joins truth values
\* only, is accepted by LLVM, however widths, signs and constants are mixed.
IntegersAreWellTyped ==
    status \in {"invalid", "assert"} =>
        \/ \E i \in Ids : ~Integral(nodes[i]) \/ nodes[i].op \in FPType \cup {"any"}
        \/ Uses({"Div", "Not", "Rusft", "Lusft", "Dot"} \cup Logical)
        \/ Contexts \cap FPType # {}
=============================================================================
