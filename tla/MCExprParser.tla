----------------------------- MODULE MCExprParser -----------------------------
(* ExprParser for TLC: expressions with up to three nested operators, and all   *)
(* sequences of a few tokens, most of them no expressions.                      *)
EXTENDS ExprParser, SequencesExt

CONSTANTS Used,      \* the binary operators used
          MaxToks    \* bound: tokens of the arbitrary inputs

\* An expression as the table of priorities has it written, from the outside in:
\* TreesAssumption compares it with Written for every tree.
RECURSIVE MCTokens(_)
MCTokens(t) ==
    LET Part(i, loosest) ==
            IF PriorityOf(t[i]) > loosest THEN <<"(">> \o MCTokens(t[i]) \o <<")">>
            ELSE MCTokens(t[i])
        Items(separator) ==
            FlattenSeq([i \in 1 .. Len(t) - 1 |->
                IF i = 1 THEN MCTokens(t[2]) ELSE <<separator>> \o MCTokens(t[i + 1])])
        op == t[1]
    IN  CASE PriorityOf(t) = Unary -> <<op>> \o Part(2, Unary)
          [] PriorityOf(t) = Assignment -> Part(2, Logic) \o <<op>> \o Part(3, Logic)
          [] PriorityOf(t) \in Binary ->
                 Part(2, PriorityOf(t)) \o <<op>> \o Part(3, PriorityOf(t) - 1)
          [] op = "f(" -> <<op>> \o Items(",") \o <<")">>
          [] op = "a[" -> <<op>> \o Items("][") \o <<"]">>
          [] OTHER -> <<op>>

Leaves == {<<"a">>, <<"1">>}
Small ==
    {<<"-", <<"1">>>>, <<"=", <<"a">>, <<"1">>>>, <<"a[", <<"1">>>>}
    \cup Leaves \cup {<<op, <<"a">>, <<"1">>>> : op \in Used}
Medium ==
    {<<"f(">>} \cup {<<op, e>> : op \in {"-", "!", "f(", "a["}, e \in Small}
    \cup {<<op, l, r>> : op \in Used, l \in Small, r \in Small}
Large ==
    {<<op, l, r>> : op \in {"f(", "a["}, l \in Small, r \in Small}
    \cup {<<"-", e>> : e \in Medium}
    \cup {<<"=", t, e>> : t \in {<<"a">>, <<"a[", <<"1">>>>}, e \in Medium}
    \cup {<<op, l, <<"a">>>> : op \in Used, l \in Medium}
    \cup {<<op, <<"a">>, r>> : op \in Used, r \in Medium}
MCTrees == Small \cup Medium \cup Large

Toks == {"a", "1", "(", ")", "f(", ",", "a[", "][", "]", "=", "-", "*", ";"}
MCJunk == UNION {[1 .. n -> Toks] : n \in 0 .. MaxToks}
=============================================================================
