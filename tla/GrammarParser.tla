---------------------------- MODULE GrammarParser ----------------------------
(***************************************************************************)
(* The parsing of all programs (src/parser.cpp, GrammarParser): the order   *)
(* of the programs, the symbol tables of names and functions, the nesting   *)
(* of declarations and statements, and NodeStack, which gives every syntax  *)
(* node its parent.                                                         *)
(*                                                                          *)
(* The sources are chosen while they are parsed: each step reads the next   *)
(* declaration, statement or name.  `frames` stands for the C++ call stack  *)
(* of the parse functions.  An expression is the names it refers to, read   *)
(* one by one in any construct; punctuation is there.  A failed assertion   *)
(* and exit(-1) both end the compilation.                                   *)
(***************************************************************************)
EXTENDS SequencesExt

CONSTANTS
    File,         \* the source files; a program is known by its file
    VarName,      \* names of variables
    FuncName,     \* names of functions
    StdFunction,  \* StdFunctionSet
    MaxArgs,      \* bound: files on the command line
    MaxImports,   \* bound: imports of a file
    MaxVars,      \* bound: variables declared
    MaxFuncs,     \* bound: functions declared or defined
    MaxScopes,    \* bound: scopes opened
    MaxDepth      \* bound: constructs nested

ASSUME ConstantsAssumption ==
    /\ StdFunction \subseteq FuncName
    /\ {MaxArgs, MaxImports, MaxVars, MaxFuncs, MaxScopes, MaxDepth} \subseteq Nat

None == 0   \* nullptr

VARIABLES
    programList,        \* ProgramList
    deps,               \* getDependentProgs() of each program
    cur,                \* main's position in ProgramList
    varDecls,           \* the VariableAST nodes built, in order
    funcDecls,          \* the FuncAST nodes built, in order
    funcDefMap,         \* FuncDefMap of each program's parser
    globalVariableMap,  \* GlobalVariableMap of each program's parser
    symTabMap,          \* SymTabMap of the current parser
    isFuncScope,        \* IsFuncScope of the current parser
    nodeStack,          \* NodeStack of the current parser, by class
    frames,             \* the parse functions under way in it
    stmtDone,           \* has the nested parseStmt of the last frame returned?
    scopes,             \* scopes opened so far
    binding,            \* the kind of name just resolved, the name and its node, or <<>>
    status              \* "running", "done", or "failed"

inputs == <<programList, deps>>
tables == <<funcDefMap, globalVariableMap, symTabMap>>
nesting == <<isFuncScope, nodeStack, frames, stmtDone, scopes>>
vars == <<inputs, cur, varDecls, funcDecls, tables, nesting, binding, status>>

SeqUpTo(S, n) == UNION {[1 .. k -> S] : k \in 0 .. n}

VarDecl == [name : VarName, prog : File, scope : Nat,
            parent : {"program", "func", "block", "stmt"}]
FuncDecl == [name : FuncName, prog : File, declare : BOOLEAN]
NodeClass == {"program", "func", "block", "stmt"}
Controls == {"loop", "then", "else"}
Frame == [kind : Controls \cup {"extern", "params", "body", "block"}, scope : Nat]
Table == [VarName -> {None} \cup DOMAIN varDecls]

TypeOK ==
    /\ programList \in Seq(File)
    /\ deps \in [File -> Seq(File)]
    /\ cur \in 1 .. Len(programList) + 1
    /\ varDecls \in Seq(VarDecl) /\ funcDecls \in Seq(FuncDecl)
    /\ funcDefMap \in [File -> [FuncName -> {None} \cup DOMAIN funcDecls]]
    /\ globalVariableMap \in [File -> Table]
    /\ symTabMap \in Seq(Table)
    /\ isFuncScope \in BOOLEAN /\ stmtDone \in BOOLEAN
    /\ nodeStack \in Seq(NodeClass) /\ nodeStack # <<>>
    /\ frames \in Seq(Frame)
    /\ scopes \in Nat
    /\ binding \in {<<>>} \cup ({"variable"} \X VarName \X DOMAIN varDecls)
                       \cup ({"function"} \X FuncName \X DOMAIN funcDecls)
    /\ status \in {"running", "done", "failed"}

-----------------------------------------------------------------------------
(* What the dependence analysis leaves: the programs in the order in which   *)
(* the command line and the files on it first mention them, and the imports  *)
(* of the files on the command line, without a cycle.                        *)

Mentions(args, imports) ==
    [i \in 1 .. Len(args) |-> <<args[i]>> \o imports[args[i]]]

\* is f mentioned no later than g?
NoLater(f, g, mentions) ==
    \E i \in DOMAIN mentions : \E j \in DOMAIN mentions[i] :
        /\ mentions[i][j] = f
        /\ \A k \in 1 .. i - 1 : g \notin ToSet(mentions[k])
        /\ \A k \in 1 .. j - 1 : mentions[i][k] # g

InMentionOrder(list, args, imports) ==
    LET mentions == Mentions(args, imports) IN
    /\ ToSet(list) = UNION {ToSet(mentions[i]) : i \in DOMAIN mentions}
    /\ \A i, j \in DOMAIN list :
           i < j => list[i] # list[j] /\ NoLater(list[i], list[j], mentions)

Acyclic(d) ==
    \A C \in (SUBSET File) \ {{}} : \E f \in C : \A g \in C : g \notin ToSet(d[f])

NoNames(S) == [x \in S |-> None]

Init ==
    /\ \E args \in SeqUpTo(File, MaxArgs) \ {<<>>},
          imports \in [File -> SeqUpTo(File, MaxImports)] :
           /\ deps = [f \in File |-> IF f \in ToSet(args) THEN imports[f] ELSE <<>>]
           /\ Acyclic(deps)
           /\ programList \in SeqUpTo(File, MaxArgs * (MaxImports + 1))
           /\ InMentionOrder(programList, args, imports)
    /\ cur = 1
    /\ varDecls = <<>> /\ funcDecls = <<>>
    /\ funcDefMap = [f \in File |-> NoNames(FuncName)]
    /\ globalVariableMap = [f \in File |-> NoNames(VarName)]
    /\ symTabMap = <<>>
    /\ isFuncScope = FALSE /\ stmtDone = FALSE
    /\ nodeStack = <<"program">>
    /\ frames = <<>> /\ scopes = 0
    /\ binding = <<>>
    /\ status = "running"

-----------------------------------------------------------------------------
(* Looking names up.                                                         *)

ProgAst == programList[cur]
FirstFound(s) ==
    LET i == SelectInSeq(s, LAMBDA n : n # None)
    IN  IF i = 0 THEN None ELSE s[i]

\* getFuncASTNode and getVariableNodeFromGlobalMap: the program's own table, then
\* those of its dependences, in order (no variable is static)
FindIn(map, name) ==
    LET find[prog \in File] ==
            IF map[prog][name] # None THEN map[prog][name]
            ELSE FirstFound([i \in DOMAIN deps[prog] |-> find[deps[prog][i]]])
    IN  find

GetFuncASTNode(name) == FindIn(funcDefMap, name)[ProgAst]
GetVariableNodeFromGlobalMap(name) == FindIn(globalVariableMap, name)[ProgAst]

\* Mutant: the outermost table that has the name wins.
MutGetVariableOutermost(name) ==
    FirstFound([i \in DOMAIN symTabMap |-> symTabMap[i][name]])

\* getVariableNode: the innermost table that has the name
GetVariableNode(name) ==
    FirstFound([i \in DOMAIN symTabMap |-> symTabMap[Len(symTabMap) + 1 - i][name]])

-----------------------------------------------------------------------------
(* Inserting names.                                                          *)

NewVar(name, scope) ==
    [name |-> name, prog |-> ProgAst, scope |-> scope, parent |-> Last(nodeStack)]
VarId == Len(varDecls) + 1

\* insertVariableToVarMap(var) for the node VarId; every caller ignores its result
InsertVariable(name) ==
    IF symTabMap = <<>>
    THEN /\ globalVariableMap' =
                IF GetVariableNodeFromGlobalMap(name) # None THEN globalVariableMap
                ELSE [globalVariableMap EXCEPT ![ProgAst][name] = VarId]
         /\ UNCHANGED symTabMap
    ELSE /\ symTabMap' =
                IF Last(symTabMap)[name] # None THEN symTabMap
                ELSE [symTabMap EXCEPT ![Len(symTabMap)][name] = VarId]
         /\ UNCHANGED globalVariableMap

\* insertFunctionToFuncMap(node): is the name free, or only declared so far? ...
AcceptsFunction(name) ==
    LET func == GetFuncASTNode(name)
    IN  name \notin StdFunction /\ (func # None => funcDecls[func].declare)

\* Mutant: a later node takes the place of the first.
MutMapWithLast(name, node) ==
    IF AcceptsFunction(name)
    THEN [funcDefMap EXCEPT ![ProgAst][name] = node]
    ELSE funcDefMap

\* Mutant: only the program's own functions are looked at.
MutMapWithOwn(name, node) ==
    IF name \notin StdFunction /\ funcDefMap[ProgAst][name] = None
    THEN [funcDefMap EXCEPT ![ProgAst][name] = node]
    ELSE funcDefMap

\* ... and the map afterwards
MapWith(name, node) ==
    IF name \notin StdFunction /\ GetFuncASTNode(name) = None
    THEN [funcDefMap EXCEPT ![ProgAst][name] = node]
    ELSE funcDefMap

-----------------------------------------------------------------------------
(* parseProgram: what stands outside of functions.                           *)

Running == status = "running" /\ cur <= Len(programList)
TopLevel == Running /\ frames = <<>>
Inside(kinds) == Running /\ frames # <<>> /\ Last(frames).kind \in kinds
\* where parseStmt is called
AtStatement == Inside({"body", "block"} \cup Controls) /\ ~stmtDone

\* the variables, in the scope that is being parsed
DeclareVar(name, scope, parent) ==
    /\ Len(varDecls) < MaxVars
    /\ varDecls' = Append(varDecls, [name |-> name, prog |-> ProgAst,
                                     scope |-> scope, parent |-> parent])
    /\ InsertVariable(name)
    /\ binding' = <<>>
    /\ UNCHANGED <<inputs, cur, funcDecls, funcDefMap, isFuncScope, scopes, status>>

\* parseVarDef and parseVarExtern, one declarator
GlobalVar ==
    /\ TopLevel
    /\ \E name \in VarName : DeclareVar(name, 0, Last(nodeStack))
    /\ UNCHANGED <<nodeStack, frames, stmtDone>>

\* the next program of main's loop has a parser of its own
FinishProgram ==
    /\ TopLevel
    /\ cur' = cur + 1
    /\ symTabMap' = <<>> /\ isFuncScope' = FALSE
    /\ nodeStack' = <<"program">>
    /\ status' = IF cur = Len(programList) THEN "done" ELSE status
    /\ binding' = <<>>
    /\ UNCHANGED <<inputs, varDecls, funcDecls, funcDefMap, globalVariableMap, frames,
                   stmtDone, scopes>>

BeginFunc(kind, flag) ==
    /\ TopLevel /\ Len(funcDecls) < MaxFuncs /\ scopes < MaxScopes
    /\ \E name \in FuncName :
           funcDecls' = Append(funcDecls, [name |-> name, prog |-> ProgAst,
                                           declare |-> (kind = "extern")])
    /\ nodeStack' = Append(nodeStack, "func")
    /\ symTabMap' = Append(symTabMap, NoNames(VarName))
    /\ scopes' = scopes + 1
    /\ frames' = Append(frames, [kind |-> kind, scope |-> scopes + 1])
    /\ isFuncScope' = flag
    /\ binding' = <<>>
    /\ UNCHANGED <<inputs, cur, varDecls, funcDefMap, globalVariableMap, stmtDone, status>>

\* parseFuncExtern and parseFuncDef up to the parameters
BeginFuncExtern == BeginFunc("extern", isFuncScope)
BeginFuncDef == BeginFunc("params", TRUE)

\* parseParamDecl
Param ==
    /\ Inside({"extern", "params"})
    /\ \E name \in VarName : DeclareVar(name, Last(frames).scope, Last(nodeStack))
    /\ UNCHANGED <<nodeStack, frames, stmtDone>>

\* the rest of parseFuncExtern: the node is pushed once more, not popped
FinishFuncExtern ==
    /\ Inside({"extern"})
    /\ symTabMap' = Front(symTabMap)
    /\ funcDefMap' = MapWith(Last(funcDecls).name, Len(funcDecls))
    /\ nodeStack' = Append(nodeStack, "func")
    /\ frames' = Front(frames)
    /\ binding' = <<>>
    /\ UNCHANGED <<inputs, cur, varDecls, funcDecls, globalVariableMap, isFuncScope,
                   stmtDone, scopes, status>>

-----------------------------------------------------------------------------
(* Blocks.                                                                   *)

\* Mutant: the flag stays set.
MutOpenBlockKeepsFlag(newFrames, table) ==
    /\ symTabMap' = IF isFuncScope THEN symTabMap ELSE Append(symTabMap, table)
    /\ UNCHANGED isFuncScope
    /\ nodeStack' = Append(nodeStack, "block")
    /\ frames' = newFrames

\* parseBlockStmt up to its statements: the body of a function shares the table
\* of the parameters
OpenBlock(newFrames, table) ==
    /\ symTabMap' = IF isFuncScope THEN symTabMap ELSE Append(symTabMap, table)
    /\ isFuncScope' = FALSE
    /\ nodeStack' = Append(nodeStack, "block")
    /\ frames' = newFrames

\* parseFuncDef from the parameters into the body
BeginBody ==
    /\ Inside({"params"})
    /\ AcceptsFunction(Last(funcDecls).name)
    /\ funcDefMap' = MapWith(Last(funcDecls).name, Len(funcDecls))
    /\ OpenBlock([frames EXCEPT ![Len(frames)].kind = "body"], NoNames(VarName))
    /\ binding' = <<>>
    /\ UNCHANGED <<inputs, cur, varDecls, funcDecls, globalVariableMap, stmtDone, scopes,
                   status>>

\* "Redefine this function": exit(-1)
Redefined ==
    /\ Inside({"params"})
    /\ ~AcceptsFunction(Last(funcDecls).name)
    /\ status' = "failed" /\ binding' = <<>>
    /\ UNCHANGED <<inputs, cur, varDecls, funcDecls, tables, nesting>>

EnterBlock ==
    /\ AtStatement /\ Len(frames) < MaxDepth /\ scopes < MaxScopes
    /\ scopes' = scopes + 1
    /\ OpenBlock(Append(frames, [kind |-> "block", scope |-> scopes + 1]),
                 NoNames(VarName))
    /\ binding' = <<>>
    /\ UNCHANGED <<inputs, cur, varDecls, funcDecls, funcDefMap, globalVariableMap,
                   stmtDone, status>>

\* does the return of a statement into these frames finish a control statement's?
Returns(fs) == fs # <<>> /\ Last(fs).kind \in Controls

\* the end of a construct that had a table of its own and pushed `nodes` nodes
CloseScope(nodes) ==
    /\ symTabMap' = Front(symTabMap)
    /\ nodeStack' = SubSeq(nodeStack, 1, Len(nodeStack) - nodes)
    /\ frames' = Front(frames)
    /\ stmtDone' = Returns(Front(frames))
    /\ binding' = <<>>
    /\ UNCHANGED <<inputs, cur, varDecls, funcDecls, funcDefMap, globalVariableMap,
                   isFuncScope, scopes, status>>

\* Mutant: the function's node stays on NodeStack.
MutLeaveBodyKeepsNode == Inside({"body"}) /\ CloseScope(1)

LeaveBlock == Inside({"block"}) /\ CloseScope(1)
\* ... and of parseFuncDef
LeaveBody == Inside({"body"}) /\ CloseScope(2)

-----------------------------------------------------------------------------
(* Statements.                                                               *)

\* parseVarDef in a block, one declarator
LocalVar ==
    /\ Inside({"body", "block"})
    /\ \E name \in VarName : DeclareVar(name, Last(frames).scope, Last(nodeStack))
    /\ UNCHANGED <<nodeStack, frames, stmtDone>>

\* how many control statements wait directly for the next statement
Waiting ==
    CHOOSE n \in 0 .. Len(frames) :
        /\ \A i \in Len(frames) - n + 1 .. Len(frames) : frames[i].kind \in Controls
        /\ frames[Len(frames) - n].kind \notin Controls

\* A declaration where a control statement wants its statement: parseStmt returns
\* nullptr without reading it, so do the control statements (no else follows), and
\* parseBlockStmt reads the declaration into the block around them.
DeclarationAsBody ==
    /\ AtStatement /\ Last(frames).kind \in Controls
    /\ frames' = SubSeq(frames, 1, Len(frames) - Waiting)
    /\ nodeStack' = SubSeq(nodeStack, 1, Len(nodeStack) - Waiting)
    /\ \E name \in VarName : DeclareVar(name, Last(frames').scope, Last(nodeStack'))
    /\ UNCHANGED stmtDone

SameNames ==
    /\ binding' = <<>>
    /\ UNCHANGED <<inputs, cur, varDecls, funcDecls, tables, isFuncScope, scopes, status>>

\* parseForStmt, parseWhileStmt and parseIfStmt up to the nested statement
EnterControl(kind) ==
    /\ AtStatement /\ Len(frames) < MaxDepth
    /\ frames' = Append(frames, [kind |-> kind, scope |-> 0])
    /\ nodeStack' = Append(nodeStack, "stmt")
    /\ UNCHANGED stmtDone
    /\ SameNames

EnterLoop == EnterControl("loop")
EnterIf == EnterControl("then")

\* a return, break, continue or expression statement as the nested statement (in
\* a block it changes nothing)
SimpleStmt ==
    /\ AtStatement /\ Last(frames).kind \in Controls
    /\ stmtDone' = TRUE
    /\ UNCHANGED <<frames, nodeStack>>
    /\ SameNames

LeaveControl ==
    /\ frames' = Front(frames)
    /\ nodeStack' = Front(nodeStack)
    /\ stmtDone' = Returns(Front(frames))
    /\ SameNames

FinishLoop == Inside({"loop"}) /\ stmtDone /\ LeaveControl
FinishIf == Inside({"then", "else"}) /\ stmtDone /\ LeaveControl

\* the next token is else
EnterElse ==
    /\ Inside({"then"}) /\ stmtDone
    /\ frames' = [frames EXCEPT ![Len(frames)].kind = "else"]
    /\ stmtDone' = FALSE
    /\ UNCHANGED nodeStack
    /\ SameNames

-----------------------------------------------------------------------------
(* Names in expressions.  An expression may stand in any construct: an       *)
(* initial value, a dimension, a condition, a statement.                     *)

\* Mutant: a name that is found nowhere is let through.
MutResolveUnchecked(kind, name, node) ==
    /\ binding' = <<kind, name, node>>
    /\ UNCHANGED <<inputs, cur, varDecls, funcDecls, tables, nesting, status>>

Resolve(kind, name, node) ==
    /\ binding' = IF node = None THEN <<>> ELSE <<kind, name, node>>
    /\ status' = IF node = None THEN "failed" ELSE status
    /\ UNCHANGED <<inputs, cur, varDecls, funcDecls, tables, nesting>>

\* parseIdRef
VariableNode(name) ==
    IF GetVariableNode(name) # None THEN GetVariableNode(name)
    ELSE GetVariableNodeFromGlobalMap(name)
IdRef ==
    /\ Running /\ ~stmtDone
    /\ \E name \in VarName : Resolve("variable", name, VariableNode(name))

\* parseCallExpr of a function that is not in the standard library
Call ==
    /\ Running /\ ~stmtDone
    /\ \E name \in FuncName \ StdFunction :
           Resolve("function", name, GetFuncASTNode(name))

\* LOG_ERROR of a parse function that does not find the token it wants
SyntaxError ==
    /\ Running
    /\ status' = "failed" /\ binding' = <<>>
    /\ UNCHANGED <<inputs, cur, varDecls, funcDecls, tables, nesting>>

-----------------------------------------------------------------------------
Next ==
    \/ GlobalVar \/ FinishProgram \/ BeginFuncExtern \/ BeginFuncDef \/ Param
    \/ FinishFuncExtern \/ BeginBody \/ Redefined \/ EnterBlock \/ LeaveBlock
    \/ LeaveBody \/ LocalVar \/ DeclarationAsBody \/ EnterLoop \/ EnterIf
    \/ SimpleStmt \/ FinishLoop \/ FinishIf \/ EnterElse \/ IdRef \/ Call
    \/ SyntaxError

Spec == Init /\ [][Next]_vars

-----------------------------------------------------------------------------
(* Properties.                                                               *)

\* the scopes around the current token, from the outside
ScopeOf(f) == IF f.kind \in Controls THEN <<>> ELSE <<f.scope>>
ScopesIn(fs) == FlattenSeq([i \in DOMAIN fs |-> ScopeOf(fs[i])])
OpenScopes == ScopesIn(frames)
Declared(x, scope) ==
    {d \in DOMAIN varDecls : varDecls[d].name = x /\ varDecls[d].scope = scope}
First(S) == IF S = {} THEN None ELSE Min(S)

\* SymTabMap has one table for each scope around the current token, function
\* parameters and body counting as one, and each table holds the first declaration
\* of each name in its scope: no scope is left open, closed twice or mixed with the
\* next function's, and outside of functions declarations are global.
ScopesFollowBlocks ==
    symTabMap = [i \in DOMAIN OpenScopes |->
                    [x \in VarName |-> First(Declared(x, OpenScopes[i]))]]

\* The programs whose names a program sees: itself and what it imports.
Visible(prog) ==
    {q \in File : \A S \in SUBSET File :
        (prog \in S /\ \A r \in S : ToSet(deps[r]) \subseteq S) => q \in S}

\* A variable reference means the first declaration of the name in the innermost
\* scope around it that declares it; only when there is none, a global variable of
\* the program or of its imports.
BindingIsLexical ==
    binding # <<>> /\ binding[1] = "variable" =>
        LET x == binding[2]
            d == varDecls[binding[3]]
            scopesWithIt == {i \in DOMAIN OpenScopes : Declared(x, OpenScopes[i]) # {}}
        IN  IF scopesWithIt # {}
            THEN binding[3] = First(Declared(x, OpenScopes[Max(scopesWithIt)]))
            ELSE d.name = x /\ d.scope = 0 /\ d.prog \in Visible(ProgAst)

Functions(f, prog) ==
    {i \in DOMAIN funcDecls : funcDecls[i].name = f /\ funcDecls[i].prog = prog}

\* A call means the first declaration of the function in the program it is found
\* in, the calling one or one of its imports: a later one never takes its place.
CallFindsFunction ==
    binding # <<>> /\ binding[1] = "function" =>
        LET func == funcDecls[binding[3]]
        IN  /\ func.name = binding[2]
            /\ func.prog \in Visible(ProgAst)
            /\ binding[3] = First(Functions(func.name, func.prog))

ParsedBefore(q, p) ==
    \E i, j \in DOMAIN programList : i < j /\ programList[i] = q /\ programList[j] = p

\* Of two programs, one parsed before the other and imported by it, directly or not, no
\* variable is in the global tables of both, and no function: whether a name is taken is
\* looked up in tables that may still be empty, but not in those of such an import.
NoDuplicateAlongImports ==
    \A p, q \in File : q \in Visible(p) /\ ParsedBefore(q, p) =>
        /\ \A x \in VarName :
               globalVariableMap[p][x] = None \/ globalVariableMap[q][x] = None
        /\ \A f \in FuncName :
               funcDefMap[p][f] = None \/ funcDefMap[q][f] = None

NodesOf(f) ==
    CASE f.kind \in Controls            -> <<"stmt">>
      [] f.kind = "block"               -> <<"block">>
      [] f.kind \in {"extern", "params"} -> <<"func">>
      [] f.kind = "body"                -> <<"func", "block">>
NodesIn(fs) == FlattenSeq([i \in DOMAIN fs |-> NodesOf(fs[i])])
FrameNodes == NodesIn(frames)

\* The external functions of the program, except one that is being parsed.
Externs ==
    {i \in DOMAIN funcDecls :
        /\ funcDecls[i].declare /\ funcDecls[i].prog = ProgAst
        /\ frames # <<>> /\ frames[1].kind = "extern" => i < Len(funcDecls)}

\* Wherever a declaration or a statement begins, NodeStack is the program, two nodes for
\* each external function of it (parser.cpp:428 and 469 leave them there, which
\* GlobalsBelongToProgram is about), and the functions, blocks and statements under way,
\* whatever way they have been entered and left.  Nodes of expressions are not modelled.
NodesFollowNesting ==
    status # "done" =>
        nodeStack = <<"program">> \o [i \in 1 .. 2 * Cardinality(Externs) |-> "func"]
                                  \o FrameNodes

\* The IR builder's test for "global variable": the parent of the declaration is
\* the program.
GlobalsBelongToProgram ==
    \A i \in DOMAIN varDecls : varDecls[i].scope = 0 => varDecls[i].parent = "program"

\* parser.h of insertFunctionToFuncMap: "if already define this func, it will return
\* false".
RedefinitionRejected ==
    Inside({"params"}) =>
        LET f == Last(funcDecls) IN
        (\E i \in 1 .. Len(funcDecls) - 1 :
             /\ funcDecls[i].name = f.name /\ funcDecls[i].prog = f.prog
             /\ ~funcDecls[i].declare)
        => ~AcceptsFunction(f.name)
=============================================================================
