------------------------------ MODULE CppBuilder ------------------------------
(***************************************************************************)
(* CppBuilder (src/cpp_builder.cpp): the visitor that writes a program as C  *)
(* text through a buffer of fixed size.                                     *)
(*                                                                         *)
(* The program is chosen while it is visited.  A visitor is the list of what *)
(* it does, in order: writing text, indenting, changing `deepth`, visiting a *)
(* child; `todo` is what the visitors on the C++ call stack still have to do. *)
(* The two globals argNum and parmNum count the commas still to be written.  *)
(*                                                                         *)
(* Of the text only its separators matter: "w" stands for a name or a number, *)
(* "t" for a type or a keyword, "o" and "u" for an operator with two operands  *)
(* or one, "q" and "Q" for the quotation marks that open and close a string;   *)
(* blanks are left out.                                                      *)
(***************************************************************************)
EXTENDS Integers, Sequences

CONSTANTS
    Capacity,   \* sizeof(buffer)
    MaxVisits,  \* bound: declarations, statements and inner expressions visited
    MaxArgs     \* bound: parameters of a function, arguments of a call

ASSUME CapacityAssumption == Capacity \in Nat \ {0}
ASSUME BoundsAssumption == MaxVisits \in Nat /\ MaxArgs \in Nat

VARIABLES
    todo,     \* what the visitors under way still do
    deepth,   \* bodies the builder is inside of
    argNum,   \* argNum: commas left between the arguments of the last call begun
    parmNum,  \* parmNum: commas left between the parameters
    buf,      \* buffer, head and size, and the text in the output stream
    visits,   \* visited so far, against MaxVisits
    meant,    \* all the text that was given to write()
    compound  \* visited so far: "arg", an argument that is no leaf while commas were owed;
              \* "index", a second index; "init", a list of initializers with a list in it

vars == <<todo, deepth, argNum, parmNum, buf, visits, meant, compound>>

-----------------------------------------------------------------------------
(* The buffer.  head counts from 1; cells[head] is written next.            *)

NoChar == "0"   \* buffer[-1]: the top byte of the reference `out`, not a ')'

Flush(b) == [b EXCEPT !.out = @ \o SubSeq(b.cells, 1, b.size), !.head = 1, !.size = 0]
Before(b) == IF b.head = 1 THEN NoChar ELSE b.cells[b.head - 1]

\* Mutants: the buffer is full one character too late; it is emptied unwritten.
MutMakeRoomLate(b) == IF b.head > Capacity + 1 THEN Flush(b) ELSE b
MutMakeRoomUnwritten(b) ==
    IF b.head = Capacity + 1 THEN [b EXCEPT !.head = 1, !.size = 0] ELSE b

MakeRoom(b) == IF b.head = Capacity + 1 THEN Flush(b) ELSE b

\* one character of write(): a comma behind a parenthesis is dropped
Put(b, c) ==
    LET r == MakeRoom(b)
    IN  IF c = "," /\ Before(r) = ")"
        THEN r
        ELSE [r EXCEPT !.cells[r.head] = c, !.head = @ + 1, !.size = @ + 1]

Written(b, text) ==
    LET puts[n \in 0 .. Len(text)] == IF n = 0 THEN b ELSE Put(puts[n - 1], text[n])
    IN  puts[Len(text)]
write(text) == buf' = Written(buf, text) /\ meant' = meant \o text

-----------------------------------------------------------------------------
(* What visitors do.                                                        *)

Do(what) == [what |-> what, text |-> <<>>]
W(text) == [what |-> "write", text |-> text]
Times(n, item) == [i \in 1 .. n |-> item]

goodLook == Do("goodLook")
Deeper == Do("deeper")
Shallower == Do("shallower")
Stmts == Do("stmts")
Expr == Do("expr")   \* an expression whose parent is no call
Arg == Do("arg")     \* ... and one whose parent is a call
Param == Do("param")
Initializers == Do("init")  \* an InitializedAST
Components == Do("components")

\* Mutant: the else branch is never left.
MutBody == <<W(<<"{">>), Deeper, Stmts, goodLook, W(<<"}">>)>>

\* the statement of a for, a while or an if
Body == <<W(<<"{">>), Deeper, Stmts, Shallower, goodLook, W(<<"}">>)>>

Optional(item) == {<<>>, <<item>>}
At(what) == todo # <<>> /\ Head(todo).what = what
\* a visitor called by the one at the top of the stack
Visit(items) == todo' = items \o Tail(todo)

Init ==
    /\ todo = <<Components>>
    /\ deepth = 0 /\ argNum = 0 /\ parmNum = 0
    /\ buf = [cells |-> Times(Capacity, NoChar), head |-> 1, size |-> 0, out |-> <<>>]
    /\ visits = 0 /\ meant = <<>> /\ compound = {}

Unwritten == UNCHANGED <<buf, meant>>
Uncounted == UNCHANGED <<argNum, parmNum>>
Same == UNCHANGED <<deepth, visits, compound>>
Counted == visits < MaxVisits /\ visits' = visits + 1

WriteText ==
    /\ At("write")
    /\ write(Head(todo).text)
    /\ Visit(<<>>) /\ Uncounted /\ Same

GoodLook ==
    /\ At("goodLook")
    /\ write(Times(deepth, "tab"))
    /\ Visit(<<>>) /\ Uncounted /\ Same

Nest ==
    /\ \/ At("deeper") /\ deepth' = deepth + 1
       \/ At("shallower") /\ deepth' = deepth - 1
    /\ Visit(<<>>) /\ Unwritten /\ Uncounted /\ UNCHANGED <<visits, compound>>

-----------------------------------------------------------------------------
(* Declarations.                                                            *)

\* Mutant: one comma for each parameter.
MutCommas(n) == n

\* getArgs().size() - 1, which is -1 when there are none
Commas(n) == n - 1

\* the body of an external function is visited too, with no statement
VisitFunc ==
    /\ At("components") /\ Counted
    /\ \E n \in 0 .. MaxArgs :
           /\ Visit(<<W(<<"t", "w", "(">>)>> \o Times(n, Param)
                    \o <<W(<<")", "{">>), Deeper, Stmts, Shallower, W(<<"}">>), Components>>)
           /\ parmNum' = Commas(n)
    /\ Unwritten /\ UNCHANGED <<deepth, argNum, compound>>

\* visit(VariableAST) under a ParamAST
VisitParam ==
    /\ At("param")
    /\ IF parmNum # 0
       THEN Visit(<<goodLook, W(<<"t", "w", ",">>)>>) /\ parmNum' = parmNum - 1
       ELSE Visit(<<goodLook, W(<<"t", "w">>)>>) /\ UNCHANGED parmNum
    /\ Unwritten /\ UNCHANGED argNum /\ Same

\* ... and elsewhere; the specifiers and the number in the first dimension are abstracted
Variable ==
    {<<goodLook, W(<<"t", "w">>)>> \o dim \o init \o <<W(<<";">>)>> :
        dim \in Optional(W(<<"[", "w", "]">>)),
        init \in {<<>>, <<W(<<"o">>), Expr>>, <<W(<<"o">>), Initializers>>}}

\* visit(InitializedAST): of a list in braces, the parser keeps the last list and the last
\* expression in it.  A pointer that was never set is taken for null.
VisitInit ==
    /\ At("init") /\ Counted
    /\ \E list \in Optional(Initializers), expr \in Optional(Expr) :
           /\ Visit(list \o expr)
           /\ compound' = compound \cup (IF <<>> \in {list, expr} THEN {} ELSE {"init"})
    /\ Unwritten /\ Uncounted /\ UNCHANGED deepth

VisitGlobal ==
    /\ At("components") /\ Counted
    /\ \E items \in Variable : Visit(Append(items, Components))
    /\ Unwritten /\ Uncounted /\ UNCHANGED <<deepth, compound>>

\* the end of visit(ProgramAST): writeEnd(), which leaves head where it is
FinishProgram ==
    /\ At("components")
    /\ Visit(<<>>)
    /\ buf' = IF buf.size # 0
              THEN [buf EXCEPT !.out = @ \o SubSeq(buf.cells, 1, buf.size), !.size = 0]
              ELSE buf
    /\ Uncounted /\ Same /\ UNCHANGED meant

-----------------------------------------------------------------------------
(* Statements.                                                              *)

Return == {<<goodLook, W(<<"t">>)>> \o e \o <<W(<<";">>)>> : e \in Optional(Expr)}
Jump == {<<goodLook, W(<<"t", ";">>)>>}
ExprStmt == {<<goodLook, Expr, W(<<";">>)>>}
For == {<<goodLook, W(<<"t", "(">>)>> \o e1 \o <<W(<<";">>)>> \o e2 \o <<W(<<";">>)>>
        \o e3 \o <<W(<<")">>)>> \o Body :
            e1 \in Optional(Expr), e2 \in Optional(Expr), e3 \in Optional(Expr)}
While == {<<goodLook, W(<<"t", "(">>), Expr, W(<<")">>)>> \o Body}
If == {<<goodLook, W(<<"t", "(">>), Expr, W(<<")">>)>> \o Body \o else :
           else \in {<<>>, <<goodLook, W(<<"t">>)>> \o Body}}

VisitStmt ==
    /\ At("stmts") /\ Counted
    /\ \E items \in UNION {Variable, Return, Jump, ExprStmt, For, While, If} :
           Visit(Append(items, Stmts))
    /\ Unwritten /\ Uncounted /\ UNCHANGED <<deepth, compound>>

FinishStmts == At("stmts") /\ Visit(<<>>) /\ Unwritten /\ Uncounted /\ Same

-----------------------------------------------------------------------------
(* Expressions.                                                             *)

\* a name, a number, a string; one string holds the characters "),"
Leaf == {<<"w">>, <<"q", "Q">>, <<"q", ")", ",", "Q">>}

VisitLeaf ==
    /\ At("expr")
    /\ \E text \in Leaf : Visit(<<W(text)>>)
    /\ Unwritten /\ Uncounted /\ Same

\* the parent is a CallExprAST
VisitLeafArg ==
    /\ At("arg")
    /\ \E text \in Leaf :
           IF argNum # 0
           THEN Visit(<<W(text), W(<<",">>)>>) /\ argNum' = argNum - 1
           ELSE Visit(<<W(text)>>) /\ UNCHANGED argNum
    /\ Unwritten /\ UNCHANGED parmNum /\ Same

\* Its leaves have another parent: none of them writes the comma that the call owes.
InnerArg == IF At("arg") /\ argNum # 0 THEN {"arg"} ELSE {}
Inner(items) ==
    /\ At("expr") \/ At("arg")
    /\ Counted
    /\ compound' = compound \cup InnerArg
    /\ Visit(items)
    /\ Unwritten /\ UNCHANGED <<deepth, parmNum>>

\* no parentheses are written
VisitBinary == Inner(<<Expr, W(<<"o">>), Expr>>) /\ UNCHANGED argNum
VisitUnary == Inner(<<W(<<"u">>), Expr>>) /\ UNCHANGED argNum

VisitIndexedRef ==
    /\ At("expr") \/ At("arg")
    /\ Counted
    /\ \E n \in 1 .. 2 :
           /\ Visit(<<W(<<"w", "[">>)>> \o Times(n, Expr) \o <<W(<<"]">>)>>)
           /\ compound' = compound \cup InnerArg \cup (IF n > 1 THEN {"index"} ELSE {})
    /\ Unwritten /\ Uncounted /\ UNCHANGED deepth

VisitCall ==
    \E n \in 0 .. MaxArgs :
        /\ Inner(<<W(<<"w", "(">>)>> \o Times(n, Arg) \o <<W(<<")">>)>>)
        /\ argNum' = Commas(n)

-----------------------------------------------------------------------------
Next ==
    \/ WriteText \/ GoodLook \/ Nest
    \/ VisitFunc \/ VisitParam \/ VisitGlobal \/ VisitInit \/ FinishProgram
    \/ VisitStmt \/ FinishStmts
    \/ VisitLeaf \/ VisitLeafArg \/ VisitBinary \/ VisitUnary \/ VisitIndexedRef \/ VisitCall

Spec == Init /\ [][Next]_vars

-----------------------------------------------------------------------------
(* Properties.                                                              *)

\* No character is written behind the buffer, and size never exceeds what it holds.
TypeOK ==
    /\ buf.head \in 1 .. Capacity + 1
    /\ buf.size \in 0 .. Capacity
    /\ deepth \in Nat
    /\ argNum \in Int /\ parmNum \in Int
    /\ visits \in 0 .. MaxVisits /\ compound \subseteq {"arg", "index", "init"}

Delivered == buf.out \o SubSeq(buf.cells, 1, buf.size)
Keep(text, c) == IF c = "," THEN text ELSE Append(text, c)
WithoutCommas(text) ==
    LET kept[n \in 0 .. Len(text)] == IF n = 0 THEN <<>> ELSE Keep(kept[n - 1], text[n])
    IN  kept[Len(text)]
DropCandidate == \E i \in 1 .. Len(meant) - 1 : meant[i] = ")" /\ meant[i + 1] = ","

\* What reached the stream and what waits in the buffer is, in order and once, all that
\* the visitors wrote; only a comma directly behind a parenthesis may be missing, and
\* when the program has been visited nothing waits in the buffer.
TextIsDelivered ==
    /\ WithoutCommas(Delivered) = WithoutCommas(meant)
    /\ ~DropCandidate => Delivered = meant
    /\ todo = <<>> => buf.size = 0

\* the braces that a text opens and does not close
Brace(c) == CASE c = "{" -> 1 [] c = "}" -> -1 [] OTHER -> 0
Open(text) ==
    LET open[n \in 0 .. Len(text)] == IF n = 0 THEN 0 ELSE open[n - 1] + Brace(text[n])
    IN  open[Len(text)]

\* Whenever a statement can begin, the indentation is the number of open braces.
IndentFollowsBraces == At("stmts") => deepth = Open(meant)

\* what an item of a list, or its indentation, begins with; what an item ends with; and
\* what closes a list, an index or a statement
Begin == {"w", "t", "q", "u", "tab"}
End == {"w", ")", "]", "Q"}
Close == {")", "]", ";"}

\* A separator is missing; a comma has nothing to its left (as the second of two commas, or
\* the one behind an opening parenthesis), or nothing to its right.
BadPair(a, b) ==
    \/ a \in End /\ b \in Begin
    \/ b = "," /\ a \notin End
    \/ a = "," /\ b \in Close

Separated ==
    \A i \in 1 .. Len(meant) - 1 : ~BadPair(meant[i], meant[i + 1])

\* The parameters of a function and the arguments of a call are separated by one comma
\* each, with none before the first and none behind the last, however calls are nested in
\* the last argument of calls: argNum is one global, and a nested call overwrites it.  Not
\* claimed once an argument in front of the last is itself a call, an operator or an
\* indexed name (of f(g(), 1) the text is f(g()1), cpp_builder.cpp:354-355), a name has two
\* indexes, or a list of initializers holds a list and an expression: there the code
\* writes no separator.
SimpleListsAreSeparated == compound = {} => Separated
=============================================================================
