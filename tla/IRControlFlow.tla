---------------------------- MODULE IRControlFlow ----------------------------
(***************************************************************************)
(* Basic-block emission of KaleIRBuilder (src/ir_builder.cpp): the visitors *)
(* of a function body and of its return, break, continue, for, while, if    *)
(* and declaration statements.                                              *)
(*                                                                          *)
(* The program is chosen while it is compiled: each step visits the next    *)
(* statement of the source, or finishes the construct it is inside of.  A   *)
(* visitor that visits a nested statement is split at that visit; what it   *)
(* keeps in C++ locals across it is a frame of `frames`, which stands for the*)
(* C++ call stack.  A `{ ... }` block only visits its statements, so a body is*)
(* any sequence of statements.                                              *)
(* Expressions emit instructions into the insertion block and never touch   *)
(* control flow; a declaration also emits an alloca into the entry block.   *)
(***************************************************************************)
EXTENDS Naturals, Sequences

CONSTANTS
    MaxBlocks,   \* bound: basic blocks created in the run of the builder
    MaxStmts,    \* bound: statements visited
    MaxFuncs     \* bound: function bodies visited by the one builder

ASSUME BoundsAssumption ==
    MaxBlocks \in Nat /\ MaxStmts \in Nat /\ MaxFuncs \in Nat

Block == 1 .. MaxBlocks
NoBlock == 0

VARIABLES
    code,        \* the instructions of each basic block, in order
    nblk,        \* blocks created so far (BasicBlock::Create)
    layout,      \* CurFunc->getBasicBlockList()
    insertPt,    \* TheIRBuilder->GetInsertBlock()
    inFunc,      \* CurFunc # nullptr
    afterStack,  \* AfterStack: where break jumps
    condStack,   \* CondStack: where continue jumps
    frames,      \* the visitors that wait for a nested accept to return
    stmts,       \* statements visited, against MaxStmts
    funcs,       \* bodies visited, against MaxFuncs
    status       \* "running", or "asserted" once an assertion has failed

vars == <<code, nblk, layout, insertPt, inFunc, afterStack, condStack,
          frames, stmts, funcs, status>>

-----------------------------------------------------------------------------
(* Instructions: terminators with their targets, and everything else.       *)

TermOps == {"br", "condbr", "ret"}
Instr == [op : TermOps \cup {"inst", "alloca"}, to : SUBSET Block]

Br(b)        == [op |-> "br",     to |-> {b}]
CondBr(b, c) == [op |-> "condbr", to |-> {b, c}]
Ret          == [op |-> "ret",    to |-> {}]
Inst         == [op |-> "inst",   to |-> {}]
Alloca       == [op |-> "alloca", to |-> {}]

Last(s) == s[Len(s)]
Front(s) == SubSeq(s, 1, Len(s) - 1)
Elements(s) == {s[i] : i \in DOMAIN s}

\* Create*: the builder appends to the block it is positioned on
Emit(cd, b, i) == [cd EXCEPT ![b] = Append(@, i)]

\* BasicBlock::getTerminator: the last instruction, if it is a terminator
Terminated(seq) == seq # <<>> /\ Last(seq).op \in TermOps

\* Mutant: the branch is left out whenever the block holds any instruction.
MutBranchIfEmpty(cd, target) ==
    IF cd[Last(layout)] # <<>> THEN cd ELSE Emit(cd, insertPt, Br(target))

\* if(!CurFunc->getBasicBlockList().back().getTerminator()) CreateBr(target)
BranchUnlessTerminated(cd, target) ==
    IF Terminated(cd[Last(layout)]) THEN cd ELSE Emit(cd, insertPt, Br(target))

\* Mutants: SetInsertPoint, or push_back, is forgotten.
MutContinueWithoutMove(b) == layout' = Append(layout, b) /\ UNCHANGED insertPt
MutContinueUnplaced(b) == insertPt' = b /\ UNCHANGED layout

\* getBasicBlockList().push_back(b); SetInsertPoint(b)
ContinueIn(b) == layout' = Append(layout, b) /\ insertPt' = b

-----------------------------------------------------------------------------
(* Frames.  b1, b2 and b3 are the blocks the visitor created, in order:     *)
(* Cond, Body, After for a loop; IfBody, After, Else for an if (Else is     *)
(* NoBlock when there is none).                                             *)

Kinds == {"for", "while", "if", "then", "else"}
Frame == [kind : Kinds, b1 : Block, b2 : Block, b3 : Block \cup {NoBlock}]

IsLoop(f) == f.kind \in {"for", "while"}
TopFrame == Last(frames)
Visiting(k) == status = "running" /\ frames # <<>> /\ TopFrame.kind = k

TypeOK ==
    /\ code \in [Block -> Seq(Instr)]
    /\ nblk \in 0 .. MaxBlocks
    /\ layout \in Seq(Block)
    /\ insertPt \in Block \cup {NoBlock}
    /\ inFunc \in BOOLEAN
    /\ afterStack \in Seq(Block)
    /\ condStack \in Seq(Block)
    /\ frames \in Seq(Frame)
    /\ stmts \in Nat
    /\ funcs \in Nat
    /\ status \in {"running", "asserted"}

Init ==
    /\ code = [b \in Block |-> <<>>]
    /\ nblk = 0
    /\ layout = <<>>
    /\ insertPt = NoBlock
    /\ inFunc = FALSE
    /\ afterStack = <<>>
    /\ condStack = <<>>
    /\ frames = <<>>
    /\ stmts = 0
    /\ funcs = 0
    /\ status = "running"

-----------------------------------------------------------------------------
(* Functions.                                                               *)

\* visit(FuncAST) up to the body: a fresh function whose first block is entry
BeginFunc ==
    /\ status = "running" /\ ~inFunc
    /\ funcs < MaxFuncs /\ nblk < MaxBlocks
    /\ funcs' = funcs + 1
    /\ inFunc' = TRUE
    /\ nblk' = nblk + 1
    /\ layout' = <<nblk + 1>>
    /\ insertPt' = nblk + 1
    /\ UNCHANGED <<code, afterStack, condStack, frames, stmts, status>>

\* ... and after it: CurFunc is reset, the builder keeps its position
FinishFunc ==
    /\ status = "running" /\ inFunc /\ frames = <<>>
    /\ inFunc' = FALSE
    /\ UNCHANGED <<code, nblk, layout, insertPt, afterStack, condStack, frames,
                   stmts, funcs, status>>

-----------------------------------------------------------------------------
(* Statements without a nested statement.                                   *)

Statement ==
    /\ status = "running" /\ inFunc /\ stmts < MaxStmts
    /\ stmts' = stmts + 1

Simple(cd) ==
    /\ Statement
    /\ code' = cd
    /\ UNCHANGED <<nblk, layout, insertPt, inFunc, afterStack, condStack, frames,
                   funcs, status>>

\* an expression statement (one that folds to a constant emits nothing)
VisitExprStmt == Simple(Emit(code, insertPt, Inst))

\* Mutant: the alloca is created where the builder stands.
MutVisitVariableInPlace ==
    \E initialised \in BOOLEAN :
        LET slot == Emit(code, insertPt, Alloca) IN
        Simple(IF initialised THEN Emit(slot, insertPt, Inst) ELSE slot)

\* a local declaration: the alloca goes to the end of the entry block, the
\* builder returns to where it was, and an initial value is stored there
VisitVariable ==
    \E initialised \in BOOLEAN :
        LET slot == Emit(code, layout[1], Alloca) IN
        Simple(IF initialised THEN Emit(slot, insertPt, Inst) ELSE slot)

VisitReturn == Simple(Emit(code, insertPt, Ret))

VisitBreak ==
    /\ afterStack # <<>>
    /\ Simple(Emit(code, insertPt, Br(Last(afterStack))))

VisitContinue ==
    /\ condStack # <<>>
    /\ Simple(Emit(code, insertPt, Br(Last(condStack))))

\* the parser accepts break and continue anywhere: outside a loop the visitor
\* runs into its assertion (undefined behaviour in a build without assertions)
JumpOutsideLoop ==
    /\ Statement
    /\ afterStack = <<>> \/ condStack = <<>>
    /\ status' = "asserted"
    /\ UNCHANGED <<code, nblk, layout, insertPt, inFunc, afterStack, condStack,
                   frames, funcs>>

-----------------------------------------------------------------------------
(* Loops.                                                                   *)

\* up to the visit of the body: br Cond; Cond: condbr Body, After; Body:
EnterLoop(kind) ==
    LET cond == nblk + 1  body == nblk + 2  after == nblk + 3 IN
    /\ Statement
    /\ nblk + 3 <= MaxBlocks
    /\ nblk' = nblk + 3
    /\ afterStack' = Append(afterStack, after)
    /\ condStack' = Append(condStack, cond)
    /\ code' = Emit(Emit(code, insertPt, Br(cond)), cond, CondBr(body, after))
    /\ layout' = layout \o <<cond, body>>
    /\ insertPt' = body
    /\ frames' = Append(frames, [kind |-> kind, b1 |-> cond, b2 |-> body,
                                 b3 |-> after])
    /\ UNCHANGED <<inFunc, funcs, status>>

EnterFor == EnterLoop("for")
EnterWhile == EnterLoop("while")

\* Mutant: only AfterStack is popped.
MutPopAfterOnly == afterStack' = Front(afterStack) /\ UNCHANGED condStack

PopLoop == afterStack' = Front(afterStack) /\ condStack' = Front(condStack)

\* the back edge, unless the body's end is terminated, and on in After
LeaveLoop(cd) ==
    /\ code' = BranchUnlessTerminated(cd, TopFrame.b1)
    /\ ContinueIn(TopFrame.b3)
    /\ PopLoop
    /\ frames' = Front(frames)
    /\ UNCHANGED <<nblk, inFunc, stmts, funcs, status>>

\* Expr3 is emitted behind the body, whatever the body ends with
FinishFor ==
    /\ Visiting("for")
    /\ \E expr3 \in BOOLEAN :
           LeaveLoop(IF expr3 THEN Emit(code, insertPt, Inst) ELSE code)

FinishWhile == Visiting("while") /\ LeaveLoop(code)

-----------------------------------------------------------------------------
(* Conditionals.                                                            *)

\* condbr IfBody, other; IfBody:
EnterBranch(kind, created, other, else) ==
    /\ Statement
    /\ nblk + created <= MaxBlocks
    /\ nblk' = nblk + created
    /\ code' = Emit(code, insertPt, CondBr(nblk + 1, other))
    /\ ContinueIn(nblk + 1)
    /\ frames' = Append(frames, [kind |-> kind, b1 |-> nblk + 1, b2 |-> nblk + 2,
                                 b3 |-> else])
    /\ UNCHANGED <<inFunc, afterStack, condStack, funcs, status>>

\* Mutants: an if without an else takes the path of one with an else; the false
\* edge of an if-else skips the else.
MutEnterIfAsElse == EnterBranch("then", 2, nblk + 2, NoBlock)
MutEnterIfElseSkips == EnterBranch("then", 3, nblk + 2, nblk + 3)

EnterIf == EnterBranch("if", 2, nblk + 2, NoBlock)
EnterIfElse == EnterBranch("then", 3, nblk + 3, nblk + 3)

\* between the two branches: br After unless terminated; Else:
FinishThen ==
    /\ Visiting("then")
    /\ code' = BranchUnlessTerminated(code, TopFrame.b2)
    /\ ContinueIn(TopFrame.b3)
    /\ frames' = Append(Front(frames), [TopFrame EXCEPT !.kind = "else"])
    /\ UNCHANGED <<nblk, inFunc, afterStack, condStack, stmts, funcs, status>>

\* after the last branch: br After unless terminated; After:
LeaveIf(cd) ==
    /\ code' = cd
    /\ ContinueIn(TopFrame.b2)
    /\ frames' = Front(frames)
    /\ UNCHANGED <<nblk, inFunc, afterStack, condStack, stmts, funcs, status>>

\* Mutant: the branch around is put into IfBody, not where its code ended.
MutFinishIfFromBody ==
    Visiting("if") /\ LeaveIf(Emit(code, TopFrame.b1, Br(TopFrame.b2)))

FinishIf ==
    Visiting("if") /\ LeaveIf(BranchUnlessTerminated(code, TopFrame.b2))
FinishElse ==
    Visiting("else") /\ LeaveIf(BranchUnlessTerminated(code, TopFrame.b2))

-----------------------------------------------------------------------------
Next ==
    \/ BeginFunc \/ FinishFunc
    \/ VisitExprStmt \/ VisitVariable \/ VisitReturn
    \/ VisitBreak \/ VisitContinue \/ JumpOutsideLoop
    \/ EnterFor \/ FinishFor \/ EnterWhile \/ FinishWhile
    \/ EnterIf \/ FinishIf \/ EnterIfElse \/ FinishThen \/ FinishElse

Spec == Init /\ [][Next]_vars

-----------------------------------------------------------------------------
(* Properties.                                                              *)

\* Every visitor asks "is the block I am emitting into terminated?" of the last
\* block of the function's list.  The question is the right one only while the
\* insertion block is that last block.
InsertAtEnd == inFunc => layout # <<>> /\ insertPt = Last(layout)

Placed == Elements(layout)
\* the blocks a visitor still has to place
WaitsFor(f) == CASE IsLoop(f)                 -> {f.b3}
                 [] f.kind = "then"           -> {f.b2, f.b3}
                 [] f.kind \in {"if", "else"} -> {f.b2}
Pending == UNION {WaitsFor(f) : f \in Elements(frames)}
Targets(b) == UNION {i.to : i \in Elements(code[b])}

\* Every block the builder branches to is in the function's list, or is one that
\* a waiting visitor will still put there; no block is put there twice.  Once the
\* body is done (no frame waits) no branch dangles.
EveryBlockPlacedOnce ==
    inFunc =>
        /\ \A i, j \in DOMAIN layout : layout[i] = layout[j] => i = j
        /\ Pending \cap Placed = {}
        /\ \A b \in Placed : Targets(b) \subseteq Placed \cup Pending

Stops(seq) == \E i \in DOMAIN seq : seq[i].op \in TermOps
HasTerminator(b) == Stops(code[b])

\* Control never runs off the end of a block into the next one of the list: a
\* block the builder has left holds a terminator, whatever ended it (the back
\* edge, break, continue, return, a branch around an else).
ClosedBlocksTerminate ==
    inFunc => \A b \in Placed : b # Last(layout) => HasTerminator(b)

\* A local's stack slot is allocated at most once per call, however deep in loops it is
\* declared: allocas are in the entry block and nothing jumps back to it.  That it is
\* allocated at all is not claimed: one that is declared in or behind a loop, a branch or
\* a return comes to stand behind the terminator of the entry block (ir_builder.cpp:111-113).
AllocaOncePerCall ==
    inFunc => \A b \in Placed :
        /\ layout[1] \notin Targets(b)
        /\ b # layout[1] => \A i \in DOMAIN code[b] : code[b][i].op # "alloca"

\* the loops among these visitors, outermost first
LoopsOf(fs) ==
    LET loops[n \in 0 .. Len(fs)] ==
            IF n = 0 THEN <<>>
            ELSE IF IsLoop(fs[n]) THEN Append(loops[n - 1], fs[n]) ELSE loops[n - 1]
    IN  loops[Len(fs)]
LoopFrames == LoopsOf(frames)

\* break and continue of the statement being visited go to the loop the source
\* puts it in: the two jump stacks are the blocks of the loops around it,
\* outermost first, and are empty again between functions.
JumpStacksFollowLoops ==
    /\ afterStack = [i \in DOMAIN LoopFrames |-> LoopFrames[i].b3]
    /\ condStack  = [i \in DOMAIN LoopFrames |-> LoopFrames[i].b1]
    /\ ~inFunc => frames = <<>>

\* Only the entry block (allocas) and the insertion block are ever written: the
\* code of a block that was left stays as it was.
ClosedBlocksFrozen ==
    [][\A b \in Placed : b # insertPt /\ b # layout[1] => code'[b] = code[b]]_vars

-----------------------------------------------------------------------------
(* Refinement.  Control leaves a block at its first terminator, so what the  *)
(* emitted code can reach is what the entry reaches along those.  A          *)
(* statement of the source is live exactly when the insertion block is       *)
(* reached and holds no terminator yet.                                      *)

FirstTerminator(seq) ==
    CHOOSE i \in DOMAIN seq :
        /\ seq[i].op \in TermOps
        /\ \A j \in 1 .. i - 1 : seq[j].op \notin TermOps

\* where control can go from a block that holds these instructions
Exits(seq) == IF Stops(seq) THEN seq[FirstTerminator(seq)].to ELSE {}
Jumps(cd) == [b \in Block |-> Exits(cd[b])]

\* the blocks that the jumps lead to from the start, which is one of them
ReachableFrom(jumps, start) ==
    LET closure[reached \in SUBSET Block] ==
            LET more == reached \cup UNION {jumps[b] : b \in reached}
            IN  IF more = reached THEN reached ELSE closure[more]
    IN  closure[{start}]

Reached == IF inFunc THEN ReachableFrom(Jumps(code), layout[1]) ELSE {}

liveBar == insertPt \in Reached /\ ~HasTerminator(insertPt)

\* the block a construct's current branch, or the loop's condition, begins with
EntryOf(f) == IF f.kind = "else" THEN f.b3 ELSE f.b1

ConstructOf(f, reached) ==
    [kind |-> IF IsLoop(f) THEN "loop" ELSE f.kind,
     in   |-> EntryOf(f) \in reached,
     out  |-> f.kind = "else" /\ f.b2 \in reached]

stackBar == [i \in DOMAIN frames |-> ConstructOf(frames[i], Reached)]

Structured == INSTANCE StructuredFlow WITH stack <- stackBar, live <- liveBar

\* The emitted graph implements the source's control flow: a statement's code can
\* be executed exactly when the statement can.
ImplementsStructuredFlow == Structured!Spec
=============================================================================
