------------------------------ MODULE ExprParser ------------------------------
(***************************************************************************)
(* The parsing of an expression (src/parser.cpp, parseExpr down to          *)
(* parseConstExpr): one function for each priority of the operators, which  *)
(* calls the next and then, while the next token is one of its operators,   *)
(* calls it again for the right operand.  `stack` is the C++ call stack.    *)
(*                                                                          *)
(* A token is an operator, "a" for a variable, "1" for a constant, "f(" for *)
(* a name that lookUp(2) sees in front of a parenthesis, "a[" for a name in *)
(* front of an index, "][" between two indexes, or punctuation.  A tree is  *)
(* the tuple of its operator and its operands.                              *)
(***************************************************************************)
EXTENDS Naturals, Sequences

CONSTANTS
    Trees,       \* bound: the expressions
    Tokens(_),   \* how an expression is written
    Junk         \* bound: other inputs, most of them no expressions

VARIABLES
    source,   \* the input: tokens, and the tree they mean (<<>> if none)
    pos,      \* tokens read
    stack,    \* the parse functions under way
    value,    \* what the last one has returned, <<>> if it is none
    outcome   \* "running", "done", or "error" (LOG_ERROR)

exprVars == <<source, pos, stack, value, outcome>>

Assignment == 8
Logic == 7
Binary == 2 .. 7
Unary == 1
Brackets == 0   \* parsePrimaryExpr, parseCallExpr, parseIdRef
\* Mutant: shifts and sums change places.
MutOpSetShiftFirst ==
    [level \in Binary |->
        CASE level = 7 -> {"+", "||"}
          [] level = 6 -> {"&", "|", "^"}
          [] level = 5 -> {"<", "<=", ">", ">=", "==", "!="}
          [] level = 4 -> {"+", "-"}
          [] level = 3 -> {"<<", "<<<", ">>", ">>>"}
          [] level = 2 -> {"*", "/"}]

\* parseLogicExpr, parseBitExpr, parseCmpExpr, parseBitMoveExpr, parseAddExpr and
\* parseMulExpr: the operators of each
OpSet ==
    [level \in Binary |->
        CASE level = 7 -> {"+", "||"}
          [] level = 6 -> {"&", "|", "^"}
          [] level = 5 -> {"<", "<=", ">", ">=", "==", "!="}
          [] level = 4 -> {"<<", "<<<", ">>", ">>>"}
          [] level = 3 -> {"+", "-"}
          [] level = 2 -> {"*", "/"}]
UnaryOpSet == {"+", "-", "!"}

-----------------------------------------------------------------------------
(* How an expression is written with no more parentheses than the table of     *)
(* README.md:45-55 asks for: operators of one priority group to the left.       *)

Priority(op) ==
    CASE op \in {"*", "/"} -> 2
      [] op \in {"+", "-"} -> 3
      [] op \in {"<<", "<<<", ">>", ">>>"} -> 4
      [] op \in {"<", "<=", ">", ">=", "==", "!="} -> 5
      [] op \in {"&", "|", "^"} -> 6
      [] op = "||" -> 7

\* `&&` has a priority, but no parse function looks for it
BinOp == {"*", "/", "+", "-", "<<", "<<<", ">>", ">>>", "<", "<=", ">", ">=", "==", "!=",
          "&", "|", "^", "||"}
Token == BinOp \cup UnaryOpSet \cup {"=", "a", "1", "(", ")", "f(", ",", "a[", "][", "]"}

IsTarget(expr) == expr[1] \in {"a", "a["}

Formed(t) ==
    \/ Len(t) = 1 /\ t[1] \in {"a", "1"}
    \/ Len(t) = 2 /\ t[1] \in UnaryOpSet
    \/ Len(t) = 3 /\ t[1] \in BinOp
    \/ Len(t) = 3 /\ t[1] = "=" /\ IsTarget(t[2])
    \/ Len(t) >= 1 /\ t[1] = "f("
    \/ Len(t) >= 2 /\ t[1] = "a["

PriorityOf(t) ==
    CASE Len(t) = 2 /\ t[1] \in UnaryOpSet -> Unary
      [] Len(t) = 3 /\ t[1] \in BinOp -> Priority(t[1])
      [] t[1] = "=" -> Assignment
      [] OTHER -> Brackets

\* where an operator of the given priority is the loosest allowed
In(t, priority) ==
    IF PriorityOf(t) > priority THEN <<"(">> \o Tokens(t) \o <<")">> ELSE Tokens(t)

\* arguments or indexes
List(t, separator) ==
    LET first[n \in 0 .. Len(t) - 1] ==
            IF n = 0 THEN <<>>
            ELSE first[n - 1] \o (IF n = 1 THEN <<>> ELSE <<separator>>) \o Tokens(t[n + 1])
    IN  first[Len(t) - 1]

Written(t) ==
    CASE t[1] \in {"a", "1"} -> <<t[1]>>
      [] Len(t) = 2 /\ t[1] \in UnaryOpSet -> <<t[1]>> \o In(t[2], Unary)
      [] Len(t) = 3 /\ t[1] \in BinOp ->
             In(t[2], Priority(t[1])) \o <<t[1]>> \o In(t[3], Priority(t[1]) - 1)
      [] t[1] = "=" -> In(t[2], Logic) \o <<"=">> \o In(t[3], Logic)
      [] t[1] = "f(" -> <<"f(">> \o List(t, ",") \o <<")">>
      [] t[1] = "a[" -> <<"a[">> \o List(t, "][") \o <<"]">>

ASSUME TreesAssumption ==
    /\ \A t \in Trees :
           /\ Len(t) \in Nat /\ t = [i \in 1 .. Len(t) |-> t[i]] /\ Formed(t)
           /\ Tokens(t) \in Seq(Token) /\ Tokens(t) = Written(t)
    /\ UNION {{t[i] : i \in 2 .. Len(t)} : t \in Trees} \subseteq Trees

Source ==
    UNION {{[tree |-> t, toks |-> Tokens(t)] : t \in Trees},
           {[tree |-> <<>>, toks |-> s] : s \in Junk}}

-----------------------------------------------------------------------------
\* lookUp(1)
NextToken == IF pos < Len(source.toks) THEN source.toks[pos + 1] ELSE "eof"

Top == stack[Len(stack)]
Below == SubSeq(stack, 1, Len(stack) - 1)

\* a function's local state: its operator so far and its operands
Fun(level) == [level |-> level, op |-> "none", parts |-> <<>>]
\* a call of the function for a level calls all those below it at once
Calls(level) == [i \in 1 .. level |-> Fun(level + 1 - i)]

ExprInit ==
    /\ source \in Source
    /\ pos = 0
    /\ stack = Calls(Assignment)
    /\ value = <<>>
    /\ outcome = "running"

-----------------------------------------------------------------------------
Calling(level) == outcome = "running" /\ value = <<>> /\ Top.level = level
Returning(levels) ==
    outcome = "running" /\ value # <<>> /\ stack # <<>> /\ Top.level \in levels

\* getNextToken, which stays at the end of the file
Eat == pos' = (IF pos < Len(source.toks) THEN pos + 1 ELSE pos) /\ UNCHANGED source
NoEat == UNCHANGED <<source, pos>>

\* the function goes on as f, which calls that of a level
GoOn(f, level) == stack' = Append(Below, f) \o Calls(level) /\ value' = <<>>
Return(v) == stack' = Below /\ value' = v
Go == UNCHANGED outcome
Error == outcome' = "error" /\ NoEat /\ UNCHANGED <<stack, value>>

-----------------------------------------------------------------------------
(* parseUnaryExpr and parsePrimaryExpr, which it ends with.                  *)

UnaryOp ==
    /\ Calling(Unary) /\ NextToken \in UnaryOpSet
    /\ Eat /\ Go
    /\ GoOn([Top EXCEPT !.op = NextToken], Unary)

FinishUnary == Returning({Unary}) /\ Return(<<Top.op, value>>) /\ NoEat /\ Go

\* a variable without indexes, or a constant
Leaf ==
    /\ Calling(Unary) /\ NextToken \in {"a", "1"}
    /\ Eat /\ Go
    /\ Return(<<NextToken>>)

\* a parenthesis, a call or an index
Bracket(op) == [level |-> Brackets, op |-> op, parts |-> <<>>]
Open ==
    /\ Calling(Unary) /\ NextToken \in {"(", "a["}
    /\ Eat /\ Go
    /\ GoOn(Bracket(NextToken), Assignment)
OpenCall ==
    /\ Calling(Unary) /\ NextToken = "f("
    /\ Eat /\ Go
    /\ stack' = Append(Below, Bracket("f(")) /\ value' = <<>>

\* parseConstExpr: "error literal"
NoOperand ==
    /\ Calling(Unary)
    /\ NextToken \notin UnaryOpSet \cup {"a", "1", "(", "f(", "a["}
    /\ Error

\* parseCallExpr, in front of an argument
Argument ==
    /\ Calling(Brackets) /\ NextToken # ")"
    /\ NoEat /\ Go
    /\ GoOn(Top, Assignment)
EndOfArguments ==
    /\ Calling(Brackets) /\ NextToken = ")"
    /\ Eat /\ Go
    /\ Return(<<Top.op>> \o Top.parts)

\* ... and behind it: the loop goes on
NextArgument ==
    /\ Returning({Brackets}) /\ Top.op = "f(" /\ NextToken = ","
    /\ Eat /\ Go
    /\ stack' = Append(Below, [Top EXCEPT !.parts = Append(@, value)]) /\ value' = <<>>

\* parseIdRef behind an index: the closing bracket, and the next index
NextIndex ==
    /\ Returning({Brackets}) /\ Top.op = "a[" /\ NextToken = "]["
    /\ Eat /\ Go
    /\ GoOn([Top EXCEPT !.parts = Append(@, value)], Assignment)

\* the token behind the last of them is eaten unseen; parentheses leave no trace
Close ==
    /\ Returning({Brackets})
    /\ ~(Top.op = "f(" /\ NextToken = ",") /\ ~(Top.op = "a[" /\ NextToken = "][")
    /\ Eat /\ Go
    /\ Return(IF Top.op = "(" THEN value ELSE <<Top.op>> \o Append(Top.parts, value))

-----------------------------------------------------------------------------
(* The binary operators.                                                     *)

\* the operand that has been read, with the one before it
Lhs == IF Top.op = "none" THEN value ELSE <<Top.op, Top.parts[1], value>>

Operand(level, next) ==
    /\ Returning({level}) /\ NextToken \in OpSet[level]
    /\ Eat /\ Go
    /\ GoOn([Top EXCEPT !.op = NextToken, !.parts = <<Lhs>>], next)

\* the loop of a level goes on
RightOperand == \E level \in Binary : Operand(level, level - 1)

\* ... or ends
NoMoreOperands ==
    /\ Returning(Binary) /\ NextToken \notin OpSet[Top.level]
    /\ NoEat /\ Go
    /\ Return(Lhs)

\* parseAssignExpr
AssignTo ==
    /\ Returning({Assignment}) /\ Top.op = "none" /\ NextToken = "=" /\ IsTarget(value)
    /\ Eat /\ Go
    /\ GoOn([Top EXCEPT !.op = "=", !.parts = <<value>>], Logic)
NotATarget ==
    /\ Returning({Assignment}) /\ Top.op = "none" /\ NextToken = "=" /\ ~IsTarget(value)
    /\ Error
FinishAssign ==
    /\ Returning({Assignment}) /\ (Top.op # "none" \/ NextToken # "=")
    /\ NoEat /\ Go
    /\ Return(Lhs)

Finish ==
    /\ outcome = "running" /\ stack = <<>>
    /\ outcome' = "done"
    /\ NoEat /\ UNCHANGED <<stack, value>>

-----------------------------------------------------------------------------
ExprNext ==
    \/ UnaryOp \/ FinishUnary \/ Leaf \/ Open \/ OpenCall \/ NoOperand \/ Argument
    \/ EndOfArguments \/ NextArgument \/ NextIndex \/ Close \/ RightOperand
    \/ NoMoreOperands \/ AssignTo \/ NotATarget \/ FinishAssign \/ Finish

ExprSpec == ExprInit /\ [][ExprNext]_exprVars

-----------------------------------------------------------------------------
(* Properties.                                                               *)

\* The README's table of priorities: an expression that is written with no more
\* parentheses than the table asks for is read to its end and means the tree it was
\* written for, operators of one priority grouped to the left.
MeansWhatTheTableSays ==
    source.tree # <<>> /\ outcome # "running" =>
        outcome = "done" /\ value = source.tree /\ pos = Len(source.toks)
=============================================================================
