---------------------------- MODULE MCExprBuilder ----------------------------
(* ExprBuilder for TLC: types of one to four bits in the order of the real sizes, *)
(* and the bits at which signs and widths change.                              *)
EXTENDS ExprBuilder
MCSize ==
    [t \in ValueType |->
        CASE t = "Bool" -> 1 [] t \in {"Char", "UChar"} -> 2
          [] t \in {"Int", "Float"} -> 3 [] t \in {"Long", "ULong", "Double"} -> 4]
\* many operators over two operands, few over an expression with an operator in it
MCOps(n) ==
    IF n > 3 THEN {"Add", "Lt"}
    ELSE {"Assign", "Add", "Sub", "Div", "Lt", "And", "BitXor", "Rsft", "Lsft", "Rusft"}
MCKinds(n) ==
    CASE n < 4 -> {"IdIndexedRef", "Call", "Unary"} [] n = 4 -> {"Unary"} [] n > 4 -> {}
MCContent(n) == {2 ^ n - 1, IF n = 1 THEN 0 ELSE 1}
=============================================================================
