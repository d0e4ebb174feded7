------------------------- MODULE IRControlFlowProofs -------------------------
(***************************************************************************)
(* Proofs about IRControlFlow, for every value of the bounds.  The first   *)
(* invariant (IInv) says that it is type correct, that the insertion block *)
(* is the last block of the function's list, and that every block that was *)
(* left holds a terminator.  The second (GInv) adds that the jump stacks   *)
(* are those of the loops around (JumpsOK, which takes an induction over   *)
(* the frames) and what the blocks of the graph hold and who places them   *)
(* (GraphOK).  The third (ReachOK) says which of the blocks are reached, and *)
(* carries the refinement of StructuredFlow.                               *)
(***************************************************************************)
EXTENDS IRControlFlow, Induction, FiniteSetTheorems, TLAPS

-----------------------------------------------------------------------------
(* Sequences.                                                              *)

\* What Append does to the last element, the elements and the type.
LEMMA AppendFacts ==
    ASSUME NEW S, NEW s \in Seq(S), NEW x \in S
    PROVE  /\ Append(s, x) \in Seq(S)
           /\ Append(s, x) # <<>>
           /\ Last(Append(s, x)) = x
           /\ Elements(Append(s, x)) = Elements(s) \cup {x}
  BY DEF Last, Elements

\* Front keeps the type and the elements but the last, which is of the type.
LEMMA FrontFacts ==
    ASSUME NEW S, NEW s \in Seq(S), s # <<>>
    PROVE  /\ Front(s) \in Seq(S)
           /\ \A i \in DOMAIN Front(s) : i \in DOMAIN s /\ Front(s)[i] = s[i]
           /\ Len(s) \in DOMAIN s
           /\ Last(s) \in S
           /\ Last(s) \in Elements(s)
  <1>1. Len(s) \in Nat /\ Len(s) > 0 /\ DOMAIN s = 1 .. Len(s)
    OBVIOUS
  <1>2. Len(s) - 1 \in Nat /\ \A i \in 1 .. Len(s) - 1 : s[i] \in S
    BY <1>1
  <1>3. /\ Front(s) \in Seq(S)
        /\ \A i \in DOMAIN Front(s) : i \in DOMAIN s /\ Front(s)[i] = s[i]
    BY <1>1, <1>2 DEF Front
  <1>4. Len(s) \in DOMAIN s /\ Last(s) \in S /\ Last(s) \in Elements(s)
    BY <1>1 DEF Last, Elements
  <1>5. QED  BY <1>3, <1>4

\* Every element of a sequence over S is in S.
LEMMA ElementsType ==
    ASSUME NEW S, NEW s \in Seq(S)
    PROVE  Elements(s) \subseteq S
  BY DEF Elements

-----------------------------------------------------------------------------
(* Emission.                                                               *)

Code == [Block -> Seq(Instr)]

\* Emission appends to one block and changes no other.
LEMMA EmitFacts ==
    ASSUME NEW cd \in Code, NEW b \in Block, NEW i \in Instr
    PROVE  /\ Emit(cd, b, i) \in Code
           /\ \A c \in Block : c # b => Emit(cd, b, i)[c] = cd[c]
           /\ Emit(cd, b, i)[b] = Append(cd[b], i)
  BY DEF Emit, Code

\* A terminator stays, and appending one gives the block one.
LEMMA StopsAppend ==
    ASSUME NEW s \in Seq(Instr), NEW i \in Instr
    PROVE  /\ Stops(s) => Stops(Append(s, i))
           /\ i.op \in TermOps => Stops(Append(s, i))
  <1>1. /\ Append(s, i) \in Seq(Instr)
        /\ \A j \in DOMAIN s : j \in DOMAIN Append(s, i) /\ Append(s, i)[j] = s[j]
        /\ Len(s) + 1 \in DOMAIN Append(s, i) /\ Append(s, i)[Len(s) + 1] = i
    OBVIOUS
  <1>2. QED  BY <1>1 DEF Stops

\* Emission as the invariants see it: blocks keep their terminators, and the one
\* written to gains one if the instruction is one.
LEMMA EmitStops ==
    ASSUME NEW cd \in Code, NEW b \in Block, NEW i \in Instr
    PROVE  /\ \A c \in Block : Stops(cd[c]) => Stops(Emit(cd, b, i)[c])
           /\ i.op \in TermOps => Stops(Emit(cd, b, i)[b])
  <1>1. cd[b] \in Seq(Instr)  BY DEF Code
  <1>2. /\ \A c \in Block : c # b => Emit(cd, b, i)[c] = cd[c]
        /\ Emit(cd, b, i)[b] = Append(cd[b], i)
    BY EmitFacts
  <1>3. /\ Stops(cd[b]) => Stops(Append(cd[b], i))
        /\ i.op \in TermOps => Stops(Append(cd[b], i))
    BY <1>1, StopsAppend
  <1>4. QED  BY <1>2, <1>3

\* The instructions the visitors emit.
LEMMA InstrTypes ==
    ASSUME NEW b \in Block, NEW c \in Block
    PROVE  /\ Br(b) \in Instr /\ Br(b).op \in TermOps
           /\ CondBr(b, c) \in Instr /\ CondBr(b, c).op \in TermOps
           /\ Ret \in Instr /\ Inst \in Instr /\ Alloca \in Instr
  BY DEF Br, CondBr, Ret, Inst, Alloca, Instr, TermOps

\* The guarded branch at the end of a body, where the invariant on the insertion
\* block holds: the block holds a terminator afterwards.
LEMMA BranchFacts ==
    ASSUME NEW cd \in Code, NEW b \in Block, insertPt \in Block,
           insertPt = Last(layout)
    PROVE  /\ BranchUnlessTerminated(cd, b) \in Code
           /\ \A c \in Block : Stops(cd[c]) => Stops(BranchUnlessTerminated(cd, b)[c])
           /\ Stops(BranchUnlessTerminated(cd, b)[insertPt])
  <1>1. CASE Terminated(cd[Last(layout)])
    <2>1. cd[insertPt] \in Seq(Instr) /\ cd[insertPt] # <<>>
          /\ Last(cd[insertPt]).op \in TermOps
      BY <1>1 DEF Terminated, Code
    <2>2. Stops(cd[insertPt])  BY <2>1 DEF Stops, Last
    <2>3. QED  BY <1>1, <2>2 DEF BranchUnlessTerminated
  <1>2. CASE ~Terminated(cd[Last(layout)])
    BY <1>2, EmitFacts, EmitStops, InstrTypes DEF BranchUnlessTerminated
  <1>3. QED  BY <1>1, <1>2

-----------------------------------------------------------------------------
(* The inductive invariant.                                                *)

\* Only an if without an else has no third block.
FramesOK ==
    /\ frames # <<>> => inFunc
    /\ \A i \in DOMAIN frames : frames[i].b3 = NoBlock => frames[i].kind = "if"

IInv == TypeOK /\ FramesOK /\ InsertAtEnd /\ ClosedBlocksTerminate

\* The initial state satisfies the first invariant.
LEMMA InitIInv == Init => IInv
  <1> SUFFICES ASSUME Init PROVE IInv
    OBVIOUS
  <1>1. code \in [Block -> Seq(Instr)]
    <2>1. <<>> \in Seq(Instr)  OBVIOUS
    <2>2. QED  BY <2>1 DEF Init
  <1>2. TypeOK
    <2>1. nblk \in 0 .. MaxBlocks  BY BoundsAssumption DEF Init
    <2>2. layout \in Seq(Block) /\ afterStack \in Seq(Block)
          /\ condStack \in Seq(Block) /\ frames \in Seq(Frame)
      BY DEF Init
    <2>3. QED  BY <1>1, <2>1, <2>2 DEF Init, TypeOK
  <1>3. FramesOK /\ InsertAtEnd /\ ClosedBlocksTerminate
    BY DEF Init, FramesOK, InsertAtEnd, ClosedBlocksTerminate
  <1>4. QED  BY <1>2, <1>3 DEF IInv

\* What cd has to be for the invariant to survive code' = cd: well typed, with at
\* least the terminators of code.
Extends(cd) ==
    cd \in Code /\ \A c \in Block : Stops(code[c]) => Stops(cd[c])

\* Emitting in sequence only extends the code.
LEMMA ExtendsEmit ==
    ASSUME NEW cd, Extends(cd), NEW b \in Block, NEW i \in Instr
    PROVE  Extends(Emit(cd, b, i))
  BY EmitFacts, EmitStops DEF Extends

\* While a body is visited the insertion block is a block, the last of the list.
LEMMA InsideFacts ==
    ASSUME IInv, inFunc
    PROVE  /\ Extends(code)
           /\ insertPt \in Block /\ insertPt = Last(layout)
           /\ layout \in Seq(Block) /\ layout # <<>> /\ layout[1] \in Block
           /\ Placed \subseteq Block
  <1>1. layout \in Seq(Block) /\ layout # <<>> /\ insertPt = Last(layout)
    BY DEF IInv, TypeOK, InsertAtEnd
  <1>2. layout[1] \in Block /\ Last(layout) \in Block /\ Placed \subseteq Block
    BY <1>1, FrontFacts, ElementsType DEF Placed
  <1>3. Extends(code)  BY DEF IInv, TypeOK, Extends, Code
  <1>4. QED  BY <1>1, <1>2, <1>3

\* A statement without a nested one: only the code grows.
LEMMA SimpleKeeps ==
    ASSUME IInv, NEW cd, Extends(cd), Simple(cd)
    PROVE  IInv'
  <1>1. TypeOK' /\ FramesOK' /\ InsertAtEnd'
    BY DEF IInv, TypeOK, FramesOK, InsertAtEnd, Simple, Statement, Extends, Code
  <1>2. ClosedBlocksTerminate'
    <2>1. inFunc /\ Placed' = Placed /\ Last(layout)' = Last(layout)
      BY DEF Simple, Statement, Placed, Elements, Last
    <2>2. \A b \in Placed : b # Last(layout) => Stops(cd[b])
      BY <2>1, InsideFacts DEF IInv, ClosedBlocksTerminate, HasTerminator, Extends
    <2>3. code' = cd  BY DEF Simple
    <2>4. QED  BY <2>1, <2>2, <2>3 DEF ClosedBlocksTerminate, HasTerminator
  <1>3. QED  BY <1>1, <1>2 DEF IInv

\* Moving on to a new last block: sound if the block that is left holds a
\* terminator in the code the step writes.
LEMMA MoveKeeps ==
    ASSUME IInv, inFunc, NEW cd, Extends(cd), Stops(cd[insertPt]), code' = cd,
           NEW b \in Block, ContinueIn(b), inFunc' = inFunc
    PROVE  /\ layout' \in Seq(Block) /\ insertPt' \in Block
           /\ InsertAtEnd' /\ ClosedBlocksTerminate'
  <1>1. /\ layout' \in Seq(Block) /\ layout' # <<>> /\ Last(layout)' = b
        /\ Placed' = Placed \cup {b} /\ insertPt' = b
    <2>1. /\ Append(layout, b) \in Seq(Block) /\ Append(layout, b) # <<>>
          /\ Last(Append(layout, b)) = b
          /\ Elements(Append(layout, b)) = Elements(layout) \cup {b}
      BY InsideFacts, AppendFacts
    <2>2. QED  BY <2>1 DEF ContinueIn, Placed, Elements, Last
  <1>2. \A c \in Placed : Stops(cd[c])
    BY InsideFacts DEF IInv, ClosedBlocksTerminate, HasTerminator, Extends
  <1>3. ClosedBlocksTerminate'
    BY <1>1, <1>2 DEF ClosedBlocksTerminate, HasTerminator
  <1>4. QED  BY <1>1, <1>3 DEF InsertAtEnd

-----------------------------------------------------------------------------
(* Frames.                                                                 *)

\* A visitor that waits runs inside a function, and its blocks are blocks.
LEMMA VisitingFacts ==
    ASSUME IInv, NEW k \in Kinds, Visiting(k)
    PROVE  /\ inFunc
           /\ frames # <<>> /\ frames \in Seq(Frame)
           /\ TopFrame \in Frame /\ TopFrame.kind = k
           /\ TopFrame.b1 \in Block /\ TopFrame.b2 \in Block
           /\ k # "if" => TopFrame.b3 \in Block
  <1>1. inFunc /\ frames # <<>> /\ frames \in Seq(Frame) /\ TopFrame.kind = k
    BY DEF Visiting, IInv, TypeOK, FramesOK
  <1>2. TopFrame \in Frame /\ Len(frames) \in DOMAIN frames
    BY <1>1, FrontFacts DEF TopFrame
  <1>3. TopFrame.b3 = NoBlock => TopFrame.kind = "if"
    BY <1>2 DEF IInv, FramesOK, TopFrame, Last
  <1>4. QED  BY <1>1, <1>2, <1>3 DEF Frame

\* Pushing a well-formed frame inside a function, and popping one, keep FramesOK.
LEMMA PushFrame ==
    ASSUME IInv, inFunc, NEW f \in Frame, f.b3 = NoBlock => f.kind = "if",
           frames' = Append(frames, f), inFunc' = inFunc
    PROVE  frames' \in Seq(Frame) /\ FramesOK'
  <1>1. frames \in Seq(Frame) /\ frames' \in Seq(Frame)
    BY DEF IInv, TypeOK
  <1>2. ASSUME NEW i \in DOMAIN frames'
        PROVE  frames'[i].b3 = NoBlock => frames'[i].kind = "if"
    <2>1. CASE i \in DOMAIN frames
      <3>1. frames'[i] = frames[i]  BY <1>1, <2>1
      <3>2. QED  BY <2>1, <3>1 DEF IInv, FramesOK
    <2>2. CASE i \notin DOMAIN frames
      <3>1. frames'[i] = f  BY <1>1, <1>2, <2>2
      <3>2. QED  BY <3>1
    <2>3. QED  BY <2>1, <2>2
  <1>3. QED  BY <1>1, <1>2 DEF FramesOK

\* A popped frame leaves the frames below it well formed.
LEMMA PopFrame ==
    ASSUME IInv, inFunc, frames # <<>>, frames' = Front(frames), inFunc' = inFunc
    PROVE  frames' \in Seq(Frame) /\ FramesOK'
  <1>1. frames \in Seq(Frame)
    BY DEF IInv, TypeOK
  <1>2. /\ frames' \in Seq(Frame)
        /\ \A i \in DOMAIN frames' : i \in DOMAIN frames /\ frames'[i] = frames[i]
    BY <1>1, FrontFacts
  <1>3. QED  BY <1>2 DEF IInv, FramesOK

-----------------------------------------------------------------------------
(* The steps that move to another block.                                   *)

\* Entering a loop keeps the first invariant: Cond is terminated at once.
LEMMA EnterLoopKeeps ==
    ASSUME IInv, NEW kind \in {"for", "while"}, EnterLoop(kind)
    PROVE  IInv'
  <1> DEFINE cond == nblk + 1
             body == nblk + 2
             after == nblk + 3
             mid == Emit(code, insertPt, Br(cond))
             cd == Emit(mid, cond, CondBr(body, after))
  <1>1. inFunc /\ cond \in Block /\ body \in Block /\ after \in Block
        /\ nblk' \in 0 .. MaxBlocks /\ inFunc' = inFunc
    BY BoundsAssumption DEF EnterLoop, Statement, IInv, TypeOK, Block
  <1>2. /\ Extends(mid) /\ Extends(cd) /\ code' = cd
        /\ Stops(cd[insertPt]) /\ Stops(cd[cond])
    <2>1. Extends(mid) /\ Stops(mid[insertPt]) /\ insertPt \in Block
      BY <1>1, InsideFacts, InstrTypes, ExtendsEmit, EmitStops DEF Extends
    <2>2. Extends(cd) /\ Stops(cd[cond]) /\ Stops(cd[insertPt])
      <3>1. mid \in Code  BY <2>1 DEF Extends
      <3>2. CondBr(body, after) \in Instr /\ CondBr(body, after).op \in TermOps
        BY <1>1, InstrTypes
      <3>3. Stops(cd[cond]) /\ Stops(cd[insertPt])
        BY <1>1, <2>1, <3>1, <3>2, EmitStops
      <3>4. Extends(cd)  BY <1>1, <2>1, <3>2, ExtendsEmit
      <3>5. QED  BY <3>3, <3>4
    <2>3. code' = cd  BY DEF EnterLoop
    <2>4. QED  BY <2>1, <2>2, <2>3
  <1>3. /\ layout' \in Seq(Block) /\ layout' # <<>>
        /\ Last(layout)' = body /\ insertPt' = body
        /\ Placed' = Placed \cup {cond, body}
    <2>1. layout \in Seq(Block) /\ layout' = Append(Append(layout, cond), body)
      <3>1. layout \in Seq(Block)  BY DEF IInv, TypeOK
      <3>2. layout \o <<cond, body>> = Append(Append(layout, cond), body)
        BY <1>1, <3>1
      <3>3. layout' = layout \o <<cond, body>>  BY DEF EnterLoop
      <3>4. QED  BY <3>1, <3>2, <3>3
    <2> DEFINE one == Append(layout, cond)
    <2>2. one \in Seq(Block) /\ Elements(one) = Elements(layout) \cup {cond}
      BY <1>1, <2>1, AppendFacts
    <2> HIDE DEF one
    <2>3. /\ Append(one, body) \in Seq(Block) /\ Append(one, body) # <<>>
          /\ Last(Append(one, body)) = body
          /\ Elements(Append(one, body)) = Elements(one) \cup {body}
      BY <1>1, <2>2, AppendFacts
    <2>4. layout' = Append(one, body) /\ insertPt' = body
      BY <2>1 DEF one, EnterLoop
    <2>5. Last(layout)' = Last(layout') /\ Placed' = Elements(layout')
      BY DEF Last, Placed, Elements
    <2>6. QED  BY <2>2, <2>3, <2>4, <2>5 DEF Placed
  <1>4. \A c \in Placed : Stops(cd[c])
    BY <1>1, <1>2, InsideFacts
       DEF IInv, ClosedBlocksTerminate, HasTerminator, Extends
  <1>5. InsertAtEnd' /\ ClosedBlocksTerminate'
    <2> HIDE DEF cd
    <2>1. QED
      BY <1>2, <1>3, <1>4 DEF InsertAtEnd, ClosedBlocksTerminate, HasTerminator
  <1>6. frames' \in Seq(Frame) /\ FramesOK'
    <2>1. frames' = Append(frames, [kind |-> kind, b1 |-> cond, b2 |-> body,
                                    b3 |-> after])
      BY DEF EnterLoop
    <2>2. [kind |-> kind, b1 |-> cond, b2 |-> body, b3 |-> after] \in Frame
      BY <1>1 DEF Frame, Kinds
    <2>3. after # NoBlock  BY <1>1 DEF Block, NoBlock
    <2>4. QED  BY <1>1, <2>1, <2>2, <2>3, PushFrame
  <1>7. TypeOK'
    <2>1. afterStack' \in Seq(Block) /\ condStack' \in Seq(Block)
          /\ stmts' \in Nat /\ funcs' \in Nat /\ status' \in {"running", "asserted"}
          /\ inFunc' \in BOOLEAN
      BY <1>1 DEF EnterLoop, Statement, IInv, TypeOK
    <2>2. code' \in [Block -> Seq(Instr)]  BY <1>2 DEF Extends, Code
    <2>3. insertPt' \in Block  BY <1>1, <1>3
    <2>4. QED  BY <1>1, <1>3, <1>6, <2>1, <2>2, <2>3 DEF TypeOK
  <1>8. QED  BY <1>5, <1>6, <1>7 DEF IInv

\* Entering a conditional keeps it: the block that is left gets its condbr.
LEMMA EnterBranchKeeps ==
    ASSUME IInv, EnterIf \/ EnterIfElse
    PROVE  IInv'
  <1> DEFINE body == nblk + 1
  <1>1. PICK kind \in Kinds, created \in {2, 3}, other \in Nat, else \in Nat :
           /\ EnterBranch(kind, created, other, else)
           /\ other \in {nblk + 2, nblk + created}
           /\ else \in {NoBlock, nblk + created}
           /\ else = NoBlock => kind = "if"
    <2>1. nblk \in Nat /\ nblk + 3 # NoBlock
      BY BoundsAssumption DEF IInv, TypeOK, NoBlock
    <2>2. CASE EnterIf
      BY <2>1, <2>2 DEF EnterIf, NoBlock, Kinds
    <2>3. CASE EnterIfElse
      BY <2>1, <2>3 DEF EnterIfElse, Kinds
    <2>4. QED  BY <2>2, <2>3
  <1>2. /\ inFunc /\ inFunc' = inFunc /\ nblk' \in 0 .. MaxBlocks
        /\ body \in Block /\ nblk + 2 \in Block /\ other \in Block
        /\ else \in Block \cup {NoBlock}
    BY <1>1, BoundsAssumption
       DEF EnterBranch, Statement, IInv, TypeOK, Block, NoBlock
  <1> DEFINE cd == Emit(code, insertPt, CondBr(body, other))
  <1>3. Extends(cd) /\ Stops(cd[insertPt])
    <2>1. CondBr(body, other) \in Instr /\ CondBr(body, other).op \in TermOps
      BY <1>2, InstrTypes
    <2>2. Extends(code) /\ code \in Code /\ insertPt \in Block
      BY <1>2, InsideFacts DEF Extends
    <2>3. Extends(cd)  BY <2>1, <2>2, ExtendsEmit
    <2>4. Stops(cd[insertPt])  BY <2>1, <2>2, EmitStops
    <2>5. QED  BY <2>3, <2>4
  <1>4. code' = cd /\ ContinueIn(body)
    BY <1>1 DEF EnterBranch
  <1>5. layout' \in Seq(Block) /\ insertPt' \in Block /\ InsertAtEnd'
        /\ ClosedBlocksTerminate'
    <2> HIDE DEF cd
    <2>1. QED  BY <1>2, <1>3, <1>4, MoveKeeps
  <1>6. frames' \in Seq(Frame) /\ FramesOK'
    <2> DEFINE f == [kind |-> kind, b1 |-> body, b2 |-> nblk + 2, b3 |-> else]
    <2>1. frames' = Append(frames, f)  BY <1>1 DEF EnterBranch
    <2>2. f \in Frame /\ (f.b3 = NoBlock => f.kind = "if")
      BY <1>1, <1>2 DEF Frame
    <2> HIDE DEF f
    <2>3. QED  BY <1>2, <2>1, <2>2, PushFrame
  <1>7. TypeOK'
    <2>1. afterStack' \in Seq(Block) /\ condStack' \in Seq(Block)
          /\ stmts' \in Nat /\ funcs' \in Nat /\ status' \in {"running", "asserted"}
          /\ inFunc' \in BOOLEAN
      BY <1>1 DEF EnterBranch, Statement, IInv, TypeOK
    <2>2. code' \in [Block -> Seq(Instr)]  BY <1>3, <1>4 DEF Extends, Code
    <2>3. QED  BY <1>2, <1>5, <1>6, <2>1, <2>2 DEF TypeOK
  <1>8. QED  BY <1>5, <1>6, <1>7 DEF IInv

\* Leaving a loop keeps it: the guarded back edge ends the body's last block.
LEMMA LeaveLoopKeeps ==
    ASSUME IInv, NEW k \in {"for", "while"}, Visiting(k),
           NEW cd0, Extends(cd0), LeaveLoop(cd0)
    PROVE  IInv'
  <1> DEFINE cd == BranchUnlessTerminated(cd0, TopFrame.b1)
  <1>1. /\ inFunc /\ inFunc' = inFunc /\ frames # <<>>
        /\ TopFrame.b1 \in Block /\ TopFrame.b3 \in Block
    BY VisitingFacts DEF Kinds, LeaveLoop
  <1>2. Extends(cd) /\ Stops(cd[insertPt])
    BY <1>1, InsideFacts, BranchFacts DEF Extends
  <1>3. code' = cd /\ ContinueIn(TopFrame.b3)
    BY DEF LeaveLoop
  <1>4. layout' \in Seq(Block) /\ insertPt' \in Block /\ InsertAtEnd'
        /\ ClosedBlocksTerminate'
    <2> HIDE DEF cd
    <2>1. QED  BY <1>1, <1>2, <1>3, MoveKeeps
  <1>5. frames' \in Seq(Frame) /\ FramesOK'
    <2>1. frames' = Front(frames)  BY DEF LeaveLoop
    <2>2. QED  BY <1>1, <2>1, PopFrame
  <1>6. afterStack' \in Seq(Block) /\ condStack' \in Seq(Block)
    <2>1. afterStack \in Seq(Block) /\ condStack \in Seq(Block)
      BY DEF IInv, TypeOK
    <2>2. \A s \in Seq(Block) : Front(s) \in Seq(Block)
      <3> TAKE s \in Seq(Block)
      <3>1. CASE s = <<>>  BY <3>1 DEF Front
      <3>2. CASE s # <<>>  BY <3>2, FrontFacts
      <3>3. QED  BY <3>1, <3>2
    <2>3. QED  BY <2>1, <2>2 DEF LeaveLoop, PopLoop
  <1>7. TypeOK'
    <2>1. nblk' \in 0 .. MaxBlocks /\ stmts' \in Nat /\ funcs' \in Nat
          /\ status' \in {"running", "asserted"} /\ inFunc' \in BOOLEAN
      BY DEF LeaveLoop, IInv, TypeOK
    <2>2. code' \in [Block -> Seq(Instr)]  BY <1>2, <1>3 DEF Extends, Code
    <2>3. QED  BY <1>4, <1>5, <1>6, <2>1, <2>2 DEF TypeOK
  <1>8. QED  BY <1>4, <1>5, <1>7 DEF IInv

\* Leaving a conditional keeps it, by the guarded branch to After.
LEMMA LeaveIfKeeps ==
    ASSUME IInv, NEW k \in {"if", "else"}, Visiting(k),
           LeaveIf(BranchUnlessTerminated(code, TopFrame.b2))
    PROVE  IInv'
  <1> DEFINE cd == BranchUnlessTerminated(code, TopFrame.b2)
  <1>1. inFunc /\ inFunc' = inFunc /\ frames # <<>> /\ TopFrame.b2 \in Block
    BY VisitingFacts DEF Kinds, LeaveIf
  <1>2. Extends(cd) /\ Stops(cd[insertPt])
    BY <1>1, InsideFacts, BranchFacts DEF Extends
  <1>3. code' = cd /\ ContinueIn(TopFrame.b2)
    BY DEF LeaveIf
  <1>4. layout' \in Seq(Block) /\ insertPt' \in Block /\ InsertAtEnd'
        /\ ClosedBlocksTerminate'
    <2> HIDE DEF cd
    <2>1. QED  BY <1>1, <1>2, <1>3, MoveKeeps
  <1>5. frames' \in Seq(Frame) /\ FramesOK'
    <2>1. frames' = Front(frames)  BY DEF LeaveIf
    <2>2. QED  BY <1>1, <2>1, PopFrame
  <1>6. TypeOK'
    <2>1. /\ nblk' \in 0 .. MaxBlocks /\ stmts' \in Nat /\ funcs' \in Nat
          /\ status' \in {"running", "asserted"} /\ inFunc' \in BOOLEAN
          /\ afterStack' \in Seq(Block) /\ condStack' \in Seq(Block)
      BY DEF LeaveIf, IInv, TypeOK
    <2>2. code' \in [Block -> Seq(Instr)]  BY <1>2, <1>3 DEF Extends, Code
    <2>3. QED  BY <1>4, <1>5, <2>1, <2>2 DEF TypeOK
  <1>7. QED  BY <1>4, <1>5, <1>6 DEF IInv

\* Moving on to the else branch keeps it.
LEMMA FinishThenKeeps ==
    ASSUME IInv, FinishThen
    PROVE  IInv'
  <1> DEFINE cd == BranchUnlessTerminated(code, TopFrame.b2)
             f == [TopFrame EXCEPT !.kind = "else"]
  <1>1. /\ inFunc /\ inFunc' = inFunc /\ frames # <<>> /\ frames \in Seq(Frame)
        /\ TopFrame \in Frame /\ TopFrame.b2 \in Block /\ TopFrame.b3 \in Block
    <2>1. Visiting("then") /\ inFunc' = inFunc  BY DEF FinishThen
    <2>2. QED  BY <2>1, VisitingFacts DEF Kinds
  <1>2. Extends(cd) /\ Stops(cd[insertPt])
    BY <1>1, InsideFacts, BranchFacts DEF Extends
  <1>3. code' = cd /\ ContinueIn(TopFrame.b3)
    BY DEF FinishThen
  <1>4. layout' \in Seq(Block) /\ insertPt' \in Block /\ InsertAtEnd'
        /\ ClosedBlocksTerminate'
    <2> HIDE DEF cd
    <2>1. QED  BY <1>1, <1>2, <1>3, MoveKeeps
  <1>5. frames' \in Seq(Frame) /\ FramesOK'
    <2>1. frames' = Append(Front(frames), f)  BY DEF FinishThen
    <2>2. f \in Frame /\ f.b3 # NoBlock
      BY <1>1 DEF Frame, Kinds, Block, NoBlock
    <2>3. /\ Front(frames) \in Seq(Frame)
          /\ \A i \in DOMAIN Front(frames) :
                 i \in DOMAIN frames /\ Front(frames)[i] = frames[i]
      BY <1>1, FrontFacts
    <2> HIDE DEF f
    <2>4. \A i \in DOMAIN frames' :
              \/ i \in DOMAIN Front(frames) /\ frames'[i] = Front(frames)[i]
              \/ frames'[i] = f
      BY <2>1, <2>2, <2>3
    <2>5. QED
      BY <1>1, <2>1, <2>2, <2>3, <2>4 DEF IInv, FramesOK
  <1>6. TypeOK'
    <2>1. /\ nblk' \in 0 .. MaxBlocks /\ stmts' \in Nat /\ funcs' \in Nat
          /\ status' \in {"running", "asserted"} /\ inFunc' \in BOOLEAN
          /\ afterStack' \in Seq(Block) /\ condStack' \in Seq(Block)
      BY DEF FinishThen, IInv, TypeOK
    <2>2. code' \in [Block -> Seq(Instr)]  BY <1>2, <1>3 DEF Extends, Code
    <2>3. QED  BY <1>4, <1>5, <2>1, <2>2 DEF TypeOK
  <1>7. QED  BY <1>4, <1>5, <1>6 DEF IInv

-----------------------------------------------------------------------------
(* Every step keeps the invariant.                                         *)

\* Every step keeps the first invariant.
LEMMA NextIInv == IInv /\ [Next]_vars => IInv'
  <1> SUFFICES ASSUME IInv, [Next]_vars PROVE IInv'
    OBVIOUS
  <1>1. CASE BeginFunc
    <2>1. nblk + 1 \in Block /\ nblk' \in 0 .. MaxBlocks
      BY <1>1, BoundsAssumption DEF BeginFunc, IInv, TypeOK, Block
    <2>2. layout' = <<nblk + 1>> /\ insertPt' = nblk + 1
      BY <1>1 DEF BeginFunc
    <2>3. TypeOK'
      BY <1>1, <2>1, <2>2 DEF BeginFunc, IInv, TypeOK
    <2>4. InsertAtEnd' /\ ClosedBlocksTerminate'
      BY <2>2 DEF InsertAtEnd, ClosedBlocksTerminate, Last, Placed, Elements
    <2>5. FramesOK'  BY <1>1 DEF BeginFunc, IInv, FramesOK
    <2>6. QED  BY <2>3, <2>4, <2>5 DEF IInv
  <1>2. CASE FinishFunc
    BY <1>2 DEF FinishFunc, IInv, TypeOK, FramesOK, InsertAtEnd,
                ClosedBlocksTerminate
  <1>3. ASSUME Statement
        PROVE  /\ Extends(code) /\ insertPt \in Block /\ layout[1] \in Block
               /\ Inst \in Instr /\ Alloca \in Instr /\ Ret \in Instr
               /\ \A b \in Block : Br(b) \in Instr
    BY <1>3, InsideFacts, InstrTypes DEF Statement
  <1>4. CASE VisitExprStmt
    <2>1. Statement  BY <1>4 DEF VisitExprStmt, Simple
    <2>2. Extends(Emit(code, insertPt, Inst))  BY <1>3, <2>1, ExtendsEmit
    <2>3. QED  BY <1>4, <2>2, SimpleKeeps DEF VisitExprStmt
  <1>5. CASE VisitVariable
    <2> DEFINE slot == Emit(code, layout[1], Alloca)
    <2>1. PICK initialised \in BOOLEAN :
             Simple(IF initialised THEN Emit(slot, insertPt, Inst) ELSE slot)
      BY <1>5 DEF VisitVariable
    <2>2. Statement  BY <2>1 DEF Simple
    <2>3. Extends(slot)  BY <1>3, <2>2, ExtendsEmit
    <2> HIDE DEF slot
    <2>4. Extends(Emit(slot, insertPt, Inst))
      BY <1>3, <2>2, <2>3, ExtendsEmit
    <2>5. Extends(IF initialised THEN Emit(slot, insertPt, Inst) ELSE slot)
      BY <2>3, <2>4
    <2>6. QED  BY <2>1, <2>5, SimpleKeeps
  <1>6. CASE VisitReturn
    <2>1. Statement  BY <1>6 DEF VisitReturn, Simple
    <2>2. Extends(Emit(code, insertPt, Ret))  BY <1>3, <2>1, ExtendsEmit
    <2>3. QED  BY <1>6, <2>2, SimpleKeeps DEF VisitReturn
  <1>7. CASE VisitBreak
    <2>1. Statement  BY <1>7 DEF VisitBreak, Simple
    <2>2. Last(afterStack) \in Block
      BY <1>7, FrontFacts DEF VisitBreak, IInv, TypeOK
    <2>3. Extends(Emit(code, insertPt, Br(Last(afterStack))))
      BY <1>3, <2>1, <2>2, ExtendsEmit
    <2>4. QED  BY <1>7, <2>3, SimpleKeeps DEF VisitBreak
  <1>8. CASE VisitContinue
    <2>1. Statement  BY <1>8 DEF VisitContinue, Simple
    <2>2. Last(condStack) \in Block
      BY <1>8, FrontFacts DEF VisitContinue, IInv, TypeOK
    <2>3. Extends(Emit(code, insertPt, Br(Last(condStack))))
      BY <1>3, <2>1, <2>2, ExtendsEmit
    <2>4. QED  BY <1>8, <2>3, SimpleKeeps DEF VisitContinue
  <1>9. CASE JumpOutsideLoop
    <2>1. UNCHANGED <<code, nblk, layout, insertPt, inFunc, afterStack, condStack,
                      frames, funcs>> /\ stmts' = stmts + 1 /\ status' = "asserted"
      BY <1>9 DEF JumpOutsideLoop, Statement
    <2>2. TypeOK' /\ FramesOK'  BY <2>1 DEF IInv, TypeOK, FramesOK
    <2>3. InsertAtEnd' /\ ClosedBlocksTerminate'
      BY <2>1 DEF IInv, InsertAtEnd, ClosedBlocksTerminate, Placed, Elements,
                  HasTerminator, Last
    <2>4. QED  BY <2>2, <2>3 DEF IInv
  <1>10. CASE EnterFor
    BY <1>10, EnterLoopKeeps DEF EnterFor
  <1>11. CASE EnterWhile
    BY <1>11, EnterLoopKeeps DEF EnterWhile
  <1>12. CASE FinishFor
    <2>1. Visiting("for")  BY <1>12 DEF FinishFor
    <2>2. PICK expr3 \in BOOLEAN :
             LeaveLoop(IF expr3 THEN Emit(code, insertPt, Inst) ELSE code)
      BY <1>12 DEF FinishFor
    <2>3. inFunc  BY <2>1, VisitingFacts DEF Kinds
    <2>4. Extends(code) /\ Extends(Emit(code, insertPt, Inst))
      BY <2>3, InsideFacts, InstrTypes, ExtendsEmit
    <2>5. Extends(IF expr3 THEN Emit(code, insertPt, Inst) ELSE code)
      BY <2>4
    <2>6. QED  BY <2>1, <2>2, <2>5, LeaveLoopKeeps
  <1>13. CASE FinishWhile
    <2>1. Visiting("while") /\ LeaveLoop(code)  BY <1>13 DEF FinishWhile
    <2>2. Extends(code)  BY <2>1, VisitingFacts, InsideFacts DEF Kinds
    <2>3. QED  BY <2>1, <2>2, LeaveLoopKeeps
  <1>14. CASE EnterIf \/ EnterIfElse
    BY <1>14, EnterBranchKeeps
  <1>15. CASE FinishIf
    BY <1>15, LeaveIfKeeps DEF FinishIf
  <1>16. CASE FinishElse
    BY <1>16, LeaveIfKeeps DEF FinishElse
  <1>17. CASE FinishThen
    BY <1>17, FinishThenKeeps
  <1>18. CASE UNCHANGED vars
    <2>1. TypeOK' /\ FramesOK'  BY <1>18 DEF vars, IInv, TypeOK, FramesOK
    <2>2. InsertAtEnd' /\ ClosedBlocksTerminate'
      BY <1>18 DEF vars, IInv, InsertAtEnd, ClosedBlocksTerminate, Placed,
                   Elements, HasTerminator, Last
    <2>3. QED  BY <2>1, <2>2 DEF IInv
  <1>19. QED
    BY <1>1, <1>2, <1>4, <1>5, <1>6, <1>7, <1>8, <1>9, <1>10, <1>11, <1>12,
       <1>13, <1>14, <1>15, <1>16, <1>17, <1>18 DEF Next

\* The first invariant holds in every behaviour.
LEMMA InductiveInvariant == Spec => []IInv
  <1>1. Init => IInv  BY InitIInv
  <1>2. IInv /\ [Next]_vars => IInv'  BY NextIInv
  <1>3. QED  BY <1>1, <1>2, PTL DEF Spec

-----------------------------------------------------------------------------
(* The theorems.                                                           *)

\* The builder's state keeps its shape in every compilation: the jump stacks and
\* the block list hold blocks it created, and it is never positioned nowhere.
THEOREM TypeCorrect == Spec => []TypeOK
  <1>1. IInv => TypeOK  BY DEF IInv
  <1>2. QED  BY <1>1, InductiveInvariant, PTL

\* However the statements nest, the builder inserts at the end of the function's
\* block list, so that asking the last block for its terminator asks the block
\* that is being written.
THEOREM InsertionAtTheEnd == Spec => []InsertAtEnd
  <1>1. IInv => InsertAtEnd  BY DEF IInv
  <1>2. QED  BY <1>1, InductiveInvariant, PTL

\* However the statements nest and whatever a body ends with, a block that the
\* builder has left holds a terminator: control never falls into the next block.
THEOREM NoFallThrough == Spec => []ClosedBlocksTerminate
  <1>1. IInv => ClosedBlocksTerminate  BY DEF IInv
  <1>2. QED  BY <1>1, InductiveInvariant, PTL

-----------------------------------------------------------------------------
(* The loops among the frames.                                             *)

\* What the recursion in LoopsOf computes.
CountsLoops(g, fs) ==
    /\ g \in [0 .. Len(fs) -> Seq(Frame)] /\ g[0] = <<>>
    /\ \A n \in 1 .. Len(fs) :
           g[n] = IF IsLoop(fs[n]) THEN Append(g[n - 1], fs[n]) ELSE g[n - 1]

\* The recursion has a solution, and LoopsOf is its last value.
LEMMA LoopsFunction ==
    ASSUME NEW fs \in Seq(Frame)
    PROVE  \E g : CountsLoops(g, fs) /\ LoopsOf(fs) = g[Len(fs)]
  <1> DEFINE last == Len(fs)
             V == Seq(Frame)
             step == [p \in V \X (1 .. last) |->
                         IF IsLoop(fs[p[2]]) THEN Append(p[1], fs[p[2]]) ELSE p[1]]
             Step(g) == [n \in 0 .. last |->
                            IF n = 0 THEN <<>>
                            ELSE IF IsLoop(fs[n]) THEN Append(g[n - 1], fs[n]) ELSE g[n - 1]]
             loops == CHOOSE g : g = Step(g)
  <1>1. last \in Nat /\ <<>> \in V /\ \A n \in 1 .. last : fs[n] \in Frame
    OBVIOUS
  <1>2. step \in Steps(V, last)
    <2>1. \A p \in V \X (1 .. last) : p[1] \in V /\ fs[p[2]] \in Frame  BY <1>1
    <2>2. \A s \in V, f \in Frame : Append(s, f) \in V  OBVIOUS
    <2> HIDE DEF V, last
    <2>3. QED  BY <2>1, <2>2 DEF Steps
  <1>3. PICK g \in [0 .. last -> V] :
           g[0] = <<>> /\ \A n \in 1 .. last : g[n] = step[<<g[n - 1], n>>]
    <2> DEFINE start == <<>>
    <2>1. start \in V  BY <1>1
    <2> HIDE DEF step, V, last, start
    <2>2. \E g : Computes(g, V, start, last, step)
      BY <1>1, <1>2, <2>1, RecursiveFunction
    <2>3. QED  BY <2>2 DEF start, Computes
  <1>4. \A n \in 1 .. last :
           g[n] = IF IsLoop(fs[n]) THEN Append(g[n - 1], fs[n]) ELSE g[n - 1]
    <2> TAKE n \in 1 .. last
    <2>1. n - 1 \in 0 .. last  BY <1>1
    <2>2. g[n - 1] \in V  BY <2>1
    <2>3. <<g[n - 1], n>> \in V \X (1 .. last)  BY <2>2
    <2>4. step[<<g[n - 1], n>>] =
             IF IsLoop(fs[n]) THEN Append(g[n - 1], fs[n]) ELSE g[n - 1]
      <3> HIDE DEF V, last
      <3>1. QED  BY <2>3
    <2>5. QED  BY <1>3, <2>4
  <1>5. g = Step(g)
    <2>1. \A n \in 0 .. last : n # 0 => n \in 1 .. last  BY <1>1
    <2> HIDE DEF step, last
    <2>2. \A n \in 0 .. last : g[n] = Step(g)[n]  BY <1>3, <1>4, <2>1
    <2>3. QED  BY <1>3, <2>2
  <1>6. loops = Step(loops)
    <2> HIDE DEF Step
    <2>1. QED  BY <1>5
  <1>7. LoopsOf(fs) = loops[last]  BY DEF LoopsOf
  <1> HIDE DEF loops
  <1>8. DOMAIN loops = 0 .. last /\ loops[0] = <<>>
        /\ \A n \in 1 .. last :
             loops[n] = IF IsLoop(fs[n]) THEN Append(loops[n - 1], fs[n]) ELSE loops[n - 1]
    <2>1. 0 \in 0 .. last /\ \A n \in 1 .. last : n \in 0 .. last /\ n # 0
      BY <1>1
    <2>2. QED  BY <1>6, <2>1
  <1>9. loops = g
    <2> DEFINE S == {m \in Nat : m <= last => loops[m] = g[m]}
    <2>1. 0 \in S  BY <1>3, <1>8
    <2>2. ASSUME NEW m \in Nat, m \in S PROVE m + 1 \in S
      <3> SUFFICES ASSUME m + 1 <= last PROVE loops[m + 1] = g[m + 1]
        OBVIOUS
      <3>1. m + 1 \in 1 .. last /\ m + 1 - 1 = m /\ loops[m] = g[m]  BY <1>1, <2>2
      <3>2. QED  BY <1>4, <1>8, <3>1
    <2>3. Nat \subseteq S
      <3> HIDE DEF S
      <3>1. QED  BY <2>1, <2>2, InductionOnSet
    <2>4. \A m \in 0 .. last : loops[m] = g[m]  BY <1>1, <2>3
    <2>5. loops = [m \in 0 .. last |-> loops[m]]  BY <1>6, <1>8
    <2>6. QED  BY <1>3, <1>8, <2>4, <2>5
  <1>10. QED  BY <1>3, <1>4, <1>7, <1>9 DEF CountsLoops

\* Without frames there are no loops.
LEMMA LoopsEmpty == LoopsOf(<<>>) = <<>>
  <1>1. <<>> \in Seq(Frame) /\ Len(<<>>) = 0  OBVIOUS
  <1>2. QED  BY <1>1, LoopsFunction DEF CountsLoops

\* A frame that is pushed adds itself to the loops if it is one.
LEMMA LoopsAppend ==
    ASSUME NEW fs \in Seq(Frame), NEW f \in Frame
    PROVE  LoopsOf(Append(fs, f)) =
               IF IsLoop(f) THEN Append(LoopsOf(fs), f) ELSE LoopsOf(fs)
  <1> DEFINE more == Append(fs, f)
             last == Len(fs)
  <1>1. /\ last \in Nat /\ more \in Seq(Frame) /\ Len(more) = last + 1
        /\ more[last + 1] = f /\ \A n \in 1 .. last : more[n] = fs[n]
    OBVIOUS
  <1> HIDE DEF more, last
  <1>2. PICK g : CountsLoops(g, fs) /\ LoopsOf(fs) = g[last]
    BY LoopsFunction DEF last
  <1>3. PICK h : CountsLoops(h, more) /\ LoopsOf(more) = h[last + 1]
    BY <1>1, LoopsFunction
  <1> DEFINE S == {m \in Nat : m <= last => h[m] = g[m]}
  <1>4. 0 \in S  BY <1>2, <1>3 DEF CountsLoops
  <1>5. ASSUME NEW m \in Nat, m \in S PROVE m + 1 \in S
    <2> SUFFICES ASSUME m + 1 <= last PROVE h[m + 1] = g[m + 1]
      OBVIOUS
    <2>1. /\ m + 1 \in 1 .. last /\ m + 1 \in 1 .. last + 1 /\ m + 1 - 1 = m
          /\ h[m] = g[m]
      BY <1>1, <1>5
    <2>2. QED  BY <1>1, <1>2, <1>3, <2>1 DEF CountsLoops, last
  <1>6. Nat \subseteq S
    <2> HIDE DEF S
    <2>1. QED  BY <1>4, <1>5, InductionOnSet
  <1>7. h[last] = g[last]  BY <1>1, <1>6
  <1>8. last + 1 \in 1 .. last + 1 /\ last + 1 - 1 = last  BY <1>1
  <1>9. h[last + 1] = IF IsLoop(f) THEN Append(h[last], f) ELSE h[last]
    BY <1>1, <1>3, <1>8 DEF CountsLoops
  <1>10. QED  BY <1>2, <1>3, <1>7, <1>9 DEF more

\* They are frames, and loops.
LEMMA LoopsElements ==
    ASSUME NEW fs \in Seq(Frame)
    PROVE  /\ LoopsOf(fs) \in Seq(Frame)
           /\ \A f \in Elements(LoopsOf(fs)) : f \in Elements(fs) /\ IsLoop(f)
  <1> DEFINE last == Len(fs)
  <1>1. last \in Nat /\ \A n \in 1 .. last : fs[n] \in Frame /\ fs[n] \in Elements(fs)
    BY DEF Elements
  <1> HIDE DEF last
  <1>2. PICK g : CountsLoops(g, fs) /\ LoopsOf(fs) = g[last]
    BY LoopsFunction DEF last
  <1>3. \A n \in 0 .. last : g[n] \in Seq(Frame)
    BY <1>2 DEF CountsLoops, last
  <1> DEFINE Right(s) == \A f \in Elements(s) : f \in Elements(fs) /\ IsLoop(f)
             S == {m \in Nat : m <= last => Right(g[m])}
  <1>4. 0 \in S
    <2>1. Elements(<<>>) = {}  BY DEF Elements
    <2>2. QED  BY <1>2, <2>1 DEF CountsLoops
  <1>5. ASSUME NEW m \in Nat, m \in S PROVE m + 1 \in S
    <2> SUFFICES ASSUME m + 1 <= last PROVE Right(g[m + 1])
      OBVIOUS
    <2>1. /\ m + 1 \in 1 .. last /\ m + 1 - 1 = m /\ Right(g[m]) /\ m \in 0 .. last
      BY <1>1, <1>5
    <2>2. g[m + 1] = IF IsLoop(fs[m + 1]) THEN Append(g[m], fs[m + 1]) ELSE g[m]
      BY <1>2, <2>1 DEF CountsLoops, last
    <2>3. fs[m + 1] \in Frame /\ fs[m + 1] \in Elements(fs) /\ g[m] \in Seq(Frame)
      BY <1>1, <1>3, <2>1
    <2>4. Elements(Append(g[m], fs[m + 1])) = Elements(g[m]) \cup {fs[m + 1]}
      BY <2>3, AppendFacts
    <2>5. QED  BY <2>1, <2>2, <2>3, <2>4
  <1>6. Nat \subseteq S
    <2> HIDE DEF S
    <2>1. QED  BY <1>4, <1>5, InductionOnSet
  <1>7. QED  BY <1>1, <1>2, <1>3, <1>6

-----------------------------------------------------------------------------
(* The jump stacks.                                                        *)

\* The stacks that the loops among these frames make.
AfterOf(fs) == [i \in DOMAIN LoopsOf(fs) |-> LoopsOf(fs)[i].b3]
CondOf(fs) == [i \in DOMAIN LoopsOf(fs) |-> LoopsOf(fs)[i].b1]

\* A sequence is its front and its last element.
LEMMA FrontAppend ==
    ASSUME NEW S, NEW s \in Seq(S)
    PROVE  /\ \A x \in S : Front(Append(s, x)) = s
           /\ s # <<>> => s = Append(Front(s), Last(s))
  <1>1. Len(s) \in Nat  OBVIOUS
  <1>2. ASSUME NEW x \in S PROVE Front(Append(s, x)) = s
    <2>1. Append(s, x) \in Seq(S) /\ Len(Append(s, x)) = Len(s) + 1  OBVIOUS
    <2>2. Len(s) + 1 - 1 = Len(s)  BY <1>1
    <2>3. \A i \in 1 .. Len(s) : Append(s, x)[i] = s[i]  OBVIOUS
    <2>4. SubSeq(Append(s, x), 1, Len(s)) = s  BY <1>1, <2>1, <2>3
    <2>5. QED  BY <2>1, <2>2, <2>4 DEF Front
  <1>3. ASSUME s # <<>> PROVE s = Append(Front(s), Last(s))
    <2>1. Front(s) \in Seq(S) /\ Last(s) \in S  BY <1>3, FrontFacts
    <2>2. Len(s) > 0 /\ Len(Front(s)) = Len(s) - 1
      <3>1. Len(s) > 0  BY <1>3
      <3>2. \A m \in Nat : m <= Len(s) => Len(SubSeq(s, 1, m)) = m  OBVIOUS
      <3>3. Len(s) - 1 \in Nat /\ Len(s) - 1 <= Len(s)  BY <1>1, <3>1
      <3>4. QED  BY <3>1, <3>2, <3>3 DEF Front
    <2>3. Len(Append(Front(s), Last(s))) = Len(s)  BY <1>1, <2>1, <2>2
    <2>4. ASSUME NEW i \in 1 .. Len(s) PROVE Append(Front(s), Last(s))[i] = s[i]
      <3>1. CASE i = Len(s)  BY <1>1, <2>1, <2>2, <3>1 DEF Last
      <3>2. CASE i # Len(s)
        <4>1. i \in 1 .. Len(s) - 1  BY <1>1, <3>2
        <4>2. Append(Front(s), Last(s))[i] = Front(s)[i]  BY <2>1, <2>2, <4>1
        <4>3. Front(s)[i] = s[i]  BY <1>1, <4>1 DEF Front
        <4>4. QED  BY <4>2, <4>3
      <3>3. QED  BY <3>1, <3>2
    <2>5. Append(Front(s), Last(s)) \in Seq(S)  BY <2>1
    <2> DEFINE t == Append(Front(s), Last(s))
    <2> HIDE DEF t
    <2>6. t \in Seq(S) /\ Len(t) = Len(s) /\ \A i \in 1 .. Len(s) : t[i] = s[i]
      BY <2>3, <2>4, <2>5 DEF t
    <2>7. s = t  BY <2>6
    <2>8. QED  BY <2>7 DEF t
  <1>4. QED  BY <1>2, <1>3

\* A sequence one longer than t, equal to it up to there, appends its last element.
LEMMA IsAppend ==
    ASSUME NEW S, NEW t \in Seq(S), NEW u \in [1 .. Len(t) + 1 -> S],
           \A i \in 1 .. Len(t) : u[i] = t[i]
    PROVE  u = Append(t, u[Len(t) + 1])
  <1> DEFINE n == Len(t)
             x == u[n + 1]
  <1>1. n \in Nat /\ n + 1 \in Nat /\ n + 1 \in 1 .. n + 1
    <2>1. n \in Nat  OBVIOUS
    <2> HIDE DEF n
    <2>2. QED  BY <2>1
  <1>2. x \in S  BY <1>1
  <1> HIDE DEF x
  <1>3. /\ Append(t, x) \in Seq(S) /\ Len(Append(t, x)) = n + 1
        /\ Append(t, x)[n + 1] = x /\ \A i \in 1 .. n : Append(t, x)[i] = t[i]
    BY <1>2
  <1>4. u \in Seq(S) /\ Len(u) = n + 1  BY <1>1
  <1> DEFINE v == Append(t, x)
  <1>5. u[n + 1] = v[n + 1]  BY <1>3 DEF x
  <1>6. \A i \in 1 .. n + 1 : i = n + 1 \/ i \in 1 .. n
    <2> HIDE DEF n
    <2>1. QED  BY <1>1
  <1> HIDE DEF v, n
  <1>7. \A i \in 1 .. n + 1 : u[i] = v[i]  BY <1>3, <1>5, <1>6 DEF v, n
  <1>8. u = v  BY <1>1, <1>3, <1>4, <1>7 DEF v
  <1>9. QED  BY <1>8 DEF v, x, n

\* The fields of a sequence of frames, and of one with a frame more.
LEMMA FieldsAppend ==
    ASSUME NEW ls \in Seq(Frame), NEW f \in Frame
    PROVE  /\ [i \in DOMAIN Append(ls, f) |-> Append(ls, f)[i].b3] =
                  Append([i \in DOMAIN ls |-> ls[i].b3], f.b3)
           /\ [i \in DOMAIN Append(ls, f) |-> Append(ls, f)[i].b1] =
                  Append([i \in DOMAIN ls |-> ls[i].b1], f.b1)
  <1> DEFINE more == Append(ls, f)
             n == Len(ls)
             T == Block \cup {NoBlock}
             t3 == [i \in 1 .. n |-> ls[i].b3]
             u3 == [i \in 1 .. n + 1 |-> more[i].b3]
             t1 == [i \in 1 .. n |-> ls[i].b1]
             u1 == [i \in 1 .. n + 1 |-> more[i].b1]
  <1>1. /\ n \in Nat /\ DOMAIN ls = 1 .. n /\ DOMAIN more = 1 .. n + 1
        /\ more[n + 1] = f /\ \A i \in 1 .. n : more[i] = ls[i]
    OBVIOUS
  <1>2. (\A i \in 1 .. n : ls[i] \in Frame) /\ (\A i \in 1 .. n + 1 : more[i] \in Frame)
    <2>1. more \in Seq(Frame)  OBVIOUS
    <2> HIDE DEF more
    <2>2. QED  BY <1>1, <2>1
  <1> HIDE DEF more, n
  <1>3. \A i \in 1 .. n : i \in 1 .. n + 1  BY <1>1
  <1>4. n + 1 \in 1 .. n + 1  BY <1>1
  <1>5. u3 = Append(t3, f.b3)
    <2>1. t3 \in [1 .. n -> T] /\ u3 \in [1 .. n + 1 -> T]
      BY <1>2 DEF Frame
    <2>2. u3[n + 1] = f.b3 /\ \A i \in 1 .. n : u3[i] = t3[i]
      BY <1>1, <1>3, <1>4
    <2> HIDE DEF t3, u3, T
    <2>3. t3 \in Seq(T) /\ Len(t3) = n  BY <1>1, <2>1
    <2>4. QED  BY <2>1, <2>2, <2>3, IsAppend
  <1>6. u1 = Append(t1, f.b1)
    <2>1. t1 \in [1 .. n -> T] /\ u1 \in [1 .. n + 1 -> T]
      BY <1>2 DEF Frame
    <2>2. u1[n + 1] = f.b1 /\ \A i \in 1 .. n : u1[i] = t1[i]
      BY <1>1, <1>3, <1>4
    <2> HIDE DEF t1, u1, T
    <2>3. t1 \in Seq(T) /\ Len(t1) = n  BY <1>1, <2>1
    <2>4. QED  BY <2>1, <2>2, <2>3, IsAppend
  <1>7. QED  BY <1>1, <1>5, <1>6 DEF more

\* A pushed loop pushes a block on each stack, another frame none.
LEMMA PushJumps ==
    ASSUME NEW fs \in Seq(Frame), NEW f \in Frame
    PROVE  /\ IsLoop(f) => /\ AfterOf(Append(fs, f)) = Append(AfterOf(fs), f.b3)
                           /\ CondOf(Append(fs, f)) = Append(CondOf(fs), f.b1)
           /\ ~IsLoop(f) => /\ AfterOf(Append(fs, f)) = AfterOf(fs)
                            /\ CondOf(Append(fs, f)) = CondOf(fs)
  <1>1. LoopsOf(fs) \in Seq(Frame)  BY LoopsElements
  <1>2. CASE IsLoop(f)
    <2>1. LoopsOf(Append(fs, f)) = Append(LoopsOf(fs), f)  BY <1>2, LoopsAppend
    <2>2. QED  BY <1>1, <1>2, <2>1, FieldsAppend DEF AfterOf, CondOf
  <1>3. CASE ~IsLoop(f)
    BY <1>3, LoopsAppend DEF AfterOf, CondOf
  <1>4. QED  BY <1>2, <1>3

\* The stacks hold third and first blocks of frames.
LEMMA AfterType ==
    ASSUME NEW fs \in Seq(Frame)
    PROVE  /\ AfterOf(fs) \in Seq(Block \cup {NoBlock})
           /\ CondOf(fs) \in Seq(Block \cup {NoBlock})
  <1>1. LoopsOf(fs) \in Seq(Frame)  BY LoopsElements
  <1> DEFINE T == Block \cup {NoBlock}
             ls == LoopsOf(fs)
             n == Len(ls)
  <1>2. n \in Nat /\ DOMAIN ls = 1 .. n /\ \A i \in 1 .. n : ls[i] \in Frame
    BY <1>1
  <1>3. \A f \in Frame : f.b3 \in T /\ f.b1 \in T  BY DEF Frame
  <1> HIDE DEF T, ls, n
  <1>4. /\ [i \in 1 .. n |-> ls[i].b3] \in [1 .. n -> T]
        /\ [i \in 1 .. n |-> ls[i].b1] \in [1 .. n -> T]
    BY <1>2, <1>3
  <1>5. \A g \in [1 .. n -> T] : g \in Seq(T)  BY <1>2
  <1>6. QED  BY <1>2, <1>4, <1>5 DEF AfterOf, CondOf, T, ls

\* A frame that is popped takes back what it has pushed.
LEMMA PopJumps ==
    ASSUME NEW fs \in Seq(Frame), fs # <<>>
    PROVE  /\ IsLoop(Last(fs)) => /\ AfterOf(Front(fs)) = Front(AfterOf(fs))
                                  /\ CondOf(Front(fs)) = Front(CondOf(fs))
           /\ ~IsLoop(Last(fs)) => /\ AfterOf(Front(fs)) = AfterOf(fs)
                                   /\ CondOf(Front(fs)) = CondOf(fs)
  <1> DEFINE below == Front(fs)
             f == Last(fs)
  <1>1. below \in Seq(Frame) /\ f \in Frame /\ fs = Append(below, f)
    BY FrontFacts, FrontAppend
  <1>2. f.b3 \in Block \cup {NoBlock} /\ f.b1 \in Block \cup {NoBlock}
    BY <1>1 DEF Frame
  <1> HIDE DEF below, f
  <1>3. /\ Front(Append(AfterOf(below), f.b3)) = AfterOf(below)
        /\ Front(Append(CondOf(below), f.b1)) = CondOf(below)
    BY <1>1, <1>2, AfterType, FrontAppend
  <1>4. QED  BY <1>1, <1>3, PushJumps DEF below, f

\* The jump stacks are those of the frames.
JumpsOK == afterStack = AfterOf(frames) /\ condStack = CondOf(frames)

\* Where frames are well formed, this is the property that the runs check.
LEMMA JumpsAreStacks ==
    ASSUME FramesOK
    PROVE  JumpsOK <=> JumpStacksFollowLoops
  BY DEF JumpsOK, JumpStacksFollowLoops, AfterOf, CondOf, LoopFrames, FramesOK

\* Every step keeps the jump stacks those of the loops.
LEMMA NextJumps ==
    ASSUME IInv, JumpsOK, [Next]_vars
    PROVE  JumpsOK'
  <1>1. frames \in Seq(Frame)  BY DEF IInv, TypeOK
  <1>2. ASSUME UNCHANGED <<frames, afterStack, condStack>> PROVE JumpsOK'
    BY <1>2 DEF JumpsOK, AfterOf, CondOf
  <1>3. CASE EnterFor \/ EnterWhile
    <2>1. PICK kind \in {"for", "while"} : EnterLoop(kind)
      BY <1>3 DEF EnterFor, EnterWhile
    <2> DEFINE f == [kind |-> kind, b1 |-> nblk + 1, b2 |-> nblk + 2, b3 |-> nblk + 3]
    <2>2. f \in Frame /\ IsLoop(f) /\ f.b3 = nblk + 3 /\ f.b1 = nblk + 1
      BY <2>1, BoundsAssumption
         DEF EnterLoop, IInv, TypeOK, Frame, Block, Kinds, IsLoop
    <2>3. /\ frames' = Append(frames, f)
          /\ afterStack' = Append(afterStack, nblk + 3)
          /\ condStack' = Append(condStack, nblk + 1)
      BY <2>1 DEF EnterLoop
    <2> HIDE DEF f
    <2>4. QED  BY <1>1, <2>2, <2>3, PushJumps DEF JumpsOK
  <1>4. CASE EnterIf \/ EnterIfElse
    <2>1. PICK kind \in {"if", "then"}, created \in Nat, other \in Nat, else \in Nat :
             EnterBranch(kind, created, other, else) /\ else \in {NoBlock, nblk + created}
             /\ created \in {2, 3}
      BY <1>4, BoundsAssumption DEF EnterIf, EnterIfElse, IInv, TypeOK, NoBlock
    <2> DEFINE f == [kind |-> kind, b1 |-> nblk + 1, b2 |-> nblk + 2, b3 |-> else]
    <2>2. f \in Frame /\ ~IsLoop(f)
      BY <2>1, BoundsAssumption
         DEF EnterBranch, IInv, TypeOK, Frame, Block, Kinds, IsLoop, NoBlock
    <2>3. frames' = Append(frames, f) /\ UNCHANGED <<afterStack, condStack>>
      BY <2>1 DEF EnterBranch
    <2> HIDE DEF f
    <2>4. QED  BY <1>1, <2>2, <2>3, PushJumps DEF JumpsOK
  <1>5. CASE FinishFor \/ FinishWhile
    <2>1. /\ frames # <<>> /\ IsLoop(Last(frames)) /\ frames' = Front(frames)
          /\ afterStack' = Front(afterStack) /\ condStack' = Front(condStack)
      BY <1>5 DEF FinishFor, FinishWhile, Visiting, TopFrame, IsLoop, LeaveLoop, PopLoop
    <2>2. QED  BY <1>1, <2>1, PopJumps DEF JumpsOK
  <1>6. CASE FinishIf \/ FinishElse
    <2>1. /\ frames # <<>> /\ ~IsLoop(Last(frames)) /\ frames' = Front(frames)
          /\ UNCHANGED <<afterStack, condStack>>
      BY <1>6 DEF FinishIf, FinishElse, Visiting, TopFrame, IsLoop, LeaveIf
    <2>2. QED  BY <1>1, <2>1, PopJumps DEF JumpsOK
  <1>7. CASE FinishThen
    <2> DEFINE f == [Last(frames) EXCEPT !.kind = "else"]
    <2>1. /\ frames # <<>> /\ ~IsLoop(Last(frames)) /\ frames' = Append(Front(frames), f)
          /\ UNCHANGED <<afterStack, condStack>>
      BY <1>7 DEF FinishThen, Visiting, TopFrame, IsLoop
    <2>2. Front(frames) \in Seq(Frame) /\ Last(frames) \in Frame
      BY <1>1, <2>1, FrontFacts
    <2>3. f \in Frame /\ ~IsLoop(f)  BY <2>2 DEF Frame, Kinds, IsLoop
    <2> HIDE DEF f
    <2>4. QED  BY <1>1, <2>1, <2>2, <2>3, PushJumps, PopJumps DEF JumpsOK
  <1>8. CASE BeginFunc \/ FinishFunc \/ JumpOutsideLoop \/ UNCHANGED vars
    BY <1>2, <1>8 DEF BeginFunc, FinishFunc, JumpOutsideLoop, vars
  <1>9. CASE VisitExprStmt \/ VisitVariable \/ VisitReturn \/ VisitBreak \/ VisitContinue
    <2>1. \E cd : Simple(cd)
      BY <1>9 DEF VisitExprStmt, VisitVariable, VisitReturn, VisitBreak, VisitContinue
    <2>2. QED  BY <1>2, <2>1 DEF Simple
  <1>10. QED
    BY <1>3, <1>4, <1>5, <1>6, <1>7, <1>8, <1>9 DEF Next

-----------------------------------------------------------------------------
(* The graph of blocks.                                                    *)

\* The blocks nothing has been written to: those not created, and those that wait
\* to be placed.
Uncreated == nblk + 1 .. MaxBlocks
Unwritten == Uncreated \cup Pending
Empty(cd, blocks) == \A b \in blocks : cd[b] = <<>>

\* A jump leads to a known block other than the entry, and allocas are in the entry.
InstrFits(i, b, known, entry) ==
    i.to \subseteq known \ {entry} /\ (i.op = "alloca" => b = entry)
CodeFits(cd, placed, known, entry) ==
    \A b \in placed : \A j \in DOMAIN cd[b] : InstrFits(cd[b][j], b, known, entry)

\* No two visitors wait for the same block.
Apart(fs) ==
    /\ \A i, j \in DOMAIN fs : i # j => WaitsFor(fs[i]) \cap WaitsFor(fs[j]) = {}
    /\ \A i \in DOMAIN fs : fs[i].kind = "then" => fs[i].b2 # fs[i].b3
PendingOf(fs) == UNION {WaitsFor(f) : f \in Elements(fs)}

\* The condition blocks of loops have been placed, behind the entry.
HeadsIn(fs, blocks) == \A f \in Elements(fs) : IsLoop(f) => f.b1 \in blocks

Injective(s) == \A i, j \in DOMAIN s : s[i] = s[j] => i = j

GraphOK ==
    /\ Empty(code, Uncreated)
    /\ inFunc =>
         /\ Injective(layout)
         /\ Placed \cap Unwritten = {}
         /\ Pending \subseteq 1 .. nblk
         /\ Empty(code, Pending)
         /\ Apart(frames)
         /\ HeadsIn(frames, Placed \ {layout[1]})
         /\ CodeFits(code, Placed, Placed \cup Pending, layout[1])

\* Emission of an instruction that fits.
LEMMA EmitFits ==
    ASSUME NEW cd \in Code, NEW b \in Block, NEW i \in Instr,
           NEW placed \in SUBSET Block, NEW known, NEW entry,
           CodeFits(cd, placed, known, entry), InstrFits(i, b, known, entry)
    PROVE  CodeFits(Emit(cd, b, i), placed, known, entry)
  <1> SUFFICES ASSUME NEW c \in placed, NEW j \in DOMAIN Emit(cd, b, i)[c]
               PROVE  InstrFits(Emit(cd, b, i)[c][j], c, known, entry)
    BY DEF CodeFits
  <1>1. CASE c # b
    <2>1. Emit(cd, b, i)[c] = cd[c]  BY <1>1, EmitFacts
    <2>2. QED  BY <2>1 DEF CodeFits
  <1>2. CASE c = b
    <2>1. Emit(cd, b, i)[c] = Append(cd[b], i)  BY <1>2, EmitFacts
    <2>2. cd[b] \in Seq(Instr)  BY DEF Code
    <2>3. (j \in DOMAIN cd[b] /\ Append(cd[b], i)[j] = cd[b][j]) \/ Append(cd[b], i)[j] = i
      BY <2>1, <2>2
    <2>4. QED  BY <1>2, <2>1, <2>3 DEF CodeFits
  <1>3. QED  BY <1>1, <1>2

\* Emission leaves the empty blocks alone that it does not write to.
LEMMA EmitEmpty ==
    ASSUME NEW cd \in Code, NEW b \in Block, NEW i \in Instr,
           NEW blocks, blocks \subseteq Block, b \notin blocks, Empty(cd, blocks)
    PROVE  Empty(Emit(cd, b, i), blocks)
  BY EmitFacts DEF Empty

\* What cd has to be for the graph to survive code' = cd.
Fits(cd, placed, known, entry, empty) ==
    /\ cd \in Code
    /\ CodeFits(cd, placed, known, entry)
    /\ Empty(cd, empty)

\* Emission of a fitting instruction into a placed block keeps code fitting.
LEMMA FitsEmit ==
    ASSUME NEW placed \in SUBSET Block, NEW known, NEW entry, NEW empty \in SUBSET Block,
           NEW cd, Fits(cd, placed, known, entry, empty),
           NEW b \in placed, b \notin empty, NEW i \in Instr, InstrFits(i, b, known, entry)
    PROVE  Fits(Emit(cd, b, i), placed, known, entry, empty)
  <1>1. b \in Block  OBVIOUS
  <1>2. QED  BY <1>1, EmitFacts, EmitFits, EmitEmpty DEF Fits

\* The instructions of the visitors fit.
LEMMA InstrsFit ==
    ASSUME NEW known, NEW entry, NEW b
    PROVE  /\ \A c \in known \ {entry} : InstrFits(Br(c), b, known, entry)
           /\ \A c, d \in known \ {entry} : InstrFits(CondBr(c, d), b, known, entry)
           /\ InstrFits(Ret, b, known, entry) /\ InstrFits(Inst, b, known, entry)
           /\ InstrFits(Alloca, entry, known, entry)
  BY DEF InstrFits, Br, CondBr, Ret, Inst, Alloca

\* The guarded branch emits to the insertion block, if at all.
LEMMA FitsBranch ==
    ASSUME NEW placed \in SUBSET Block, NEW known \in SUBSET Block, NEW entry,
           NEW empty \in SUBSET Block,
           NEW cd, Fits(cd, placed, known, entry, empty),
           insertPt \in placed, insertPt \notin empty, NEW c \in known \ {entry}
    PROVE  Fits(BranchUnlessTerminated(cd, c), placed, known, entry, empty)
  <1>1. Br(c) \in Instr /\ InstrFits(Br(c), insertPt, known, entry)
    BY InstrTypes, InstrsFit
  <1>2. Fits(Emit(cd, insertPt, Br(c)), placed, known, entry, empty)
    BY <1>1, FitsEmit
  <1>3. QED  BY <1>2 DEF BranchUnlessTerminated

\* Blocks that are empty may be placed, and others become known.
LEMMA FitsPlace ==
    ASSUME NEW placed, NEW known, NEW entry, NEW empty, NEW cd,
           Fits(cd, placed, known, entry, empty),
           NEW new, new \subseteq empty, NEW known2, known \subseteq known2,
           NEW empty2, empty2 \subseteq empty
    PROVE  Fits(cd, placed \cup new, known2, entry, empty2)
  <1>1. Empty(cd, empty2)  BY DEF Fits, Empty
  <1>2. ASSUME NEW b \in placed \cup new, NEW j \in DOMAIN cd[b]
        PROVE  InstrFits(cd[b][j], b, known2, entry)
    <2>1. CASE b \in placed
      BY <1>2, <2>1 DEF Fits, CodeFits, InstrFits
    <2>2. CASE b \in new
      <3>1. cd[b] = <<>>  BY <2>2 DEF Fits, Empty
      <3>2. DOMAIN cd[b] = {}  BY <3>1
      <3>3. QED  BY <3>2
    <2>3. QED  BY <2>1, <2>2
  <1>3. QED  BY <1>1, <1>2 DEF Fits, CodeFits

\* The blocks that frames wait for, by kind.
LEMMA WaitsForKind ==
    ASSUME NEW f \in Frame
    PROVE  /\ IsLoop(f) => WaitsFor(f) = {f.b3}
           /\ f.kind = "then" => WaitsFor(f) = {f.b2, f.b3}
           /\ f.kind \in {"if", "else"} => WaitsFor(f) = {f.b2}
           /\ f.kind \in {"for", "while", "if", "then", "else"}
  BY DEF WaitsFor, IsLoop, Frame, Kinds

\* What a frame that is pushed adds to the pending blocks.
LEMMA PendingPush ==
    ASSUME NEW fs \in Seq(Frame), NEW f \in Frame
    PROVE  /\ PendingOf(Append(fs, f)) = PendingOf(fs) \cup WaitsFor(f)
           /\ Apart(fs) /\ WaitsFor(f) \cap PendingOf(fs) = {}
              /\ (f.kind = "then" => f.b2 # f.b3) => Apart(Append(fs, f))
           /\ \A blocks : HeadsIn(fs, blocks) /\ (IsLoop(f) => f.b1 \in blocks)
                              => HeadsIn(Append(fs, f), blocks)
  <1>1. Elements(Append(fs, f)) = Elements(fs) \cup {f}  BY AppendFacts
  <1>2. \A i \in DOMAIN Append(fs, f) :
            \/ Append(fs, f)[i] = f /\ i = Len(fs) + 1
            \/ i \in DOMAIN fs /\ Append(fs, f)[i] = fs[i]
    OBVIOUS
  <1>3. \A i \in DOMAIN fs : WaitsFor(fs[i]) \subseteq PendingOf(fs)
    BY DEF PendingOf, Elements
  <1>4. PendingOf(Append(fs, f)) = PendingOf(fs) \cup WaitsFor(f)
    BY <1>1 DEF PendingOf
  <1>5. ASSUME Apart(fs), WaitsFor(f) \cap PendingOf(fs) = {},
               f.kind = "then" => f.b2 # f.b3
        PROVE  Apart(Append(fs, f))
    <2> DEFINE more == Append(fs, f)
    <2>1. ASSUME NEW i \in DOMAIN more, NEW j \in DOMAIN more, i # j
          PROVE  WaitsFor(more[i]) \cap WaitsFor(more[j]) = {}
      <3>1. CASE i \in DOMAIN fs /\ more[i] = fs[i] /\ j \in DOMAIN fs /\ more[j] = fs[j]
        BY <1>5, <2>1, <3>1 DEF Apart
      <3>2. CASE i \in DOMAIN fs /\ more[i] = fs[i] /\ more[j] = f
        BY <1>3, <1>5, <3>2
      <3>3. CASE more[i] = f /\ j \in DOMAIN fs /\ more[j] = fs[j]
        BY <1>3, <1>5, <3>3
      <3>4. QED  BY <1>2, <2>1, <3>1, <3>2, <3>3
    <2>2. \A i \in DOMAIN more : more[i].kind = "then" => more[i].b2 # more[i].b3
      BY <1>2, <1>5 DEF Apart
    <2>3. QED  BY <2>1, <2>2 DEF Apart
  <1>6. ASSUME NEW blocks, HeadsIn(fs, blocks), IsLoop(f) => f.b1 \in blocks
        PROVE  HeadsIn(Append(fs, f), blocks)
    BY <1>1, <1>6 DEF HeadsIn
  <1>7. QED  BY <1>4, <1>5, <1>6

\* What a frame that is popped takes from them.
LEMMA PendingPop ==
    ASSUME NEW fs \in Seq(Frame), fs # <<>>, Apart(fs)
    PROVE  /\ PendingOf(Front(fs)) = PendingOf(fs) \ WaitsFor(Last(fs))
           /\ WaitsFor(Last(fs)) \subseteq PendingOf(fs)
           /\ Apart(Front(fs))
           /\ Last(fs).kind = "then" => Last(fs).b2 # Last(fs).b3
           /\ \A blocks : HeadsIn(fs, blocks) => HeadsIn(Front(fs), blocks)
  <1> DEFINE below == Front(fs)
             f == Last(fs)
             last == Len(fs)
  <1>1. /\ below \in Seq(Frame) /\ f \in Frame /\ last \in DOMAIN fs /\ f = fs[last]
        /\ \A i \in DOMAIN below : i \in DOMAIN fs /\ below[i] = fs[i]
    BY FrontFacts DEF Last
  <1>2. \A i \in DOMAIN below : i # last
    <2>1. Len(fs) \in Nat /\ \A m \in Nat : DOMAIN SubSeq(fs, 1, m - 1) = 1 .. m - 1
      OBVIOUS
    <2>2. DOMAIN below = 1 .. last - 1  BY <2>1 DEF Front
    <2>3. QED  BY <2>1, <2>2
  <1>3. fs = Append(below, f)  BY FrontAppend
  <1>4. PendingOf(fs) = PendingOf(below) \cup WaitsFor(f)
    BY <1>1, <1>3, PendingPush
  <1>5. PendingOf(below) \cap WaitsFor(f) = {}
    <2>1. \A i \in DOMAIN below : WaitsFor(below[i]) \cap WaitsFor(f) = {}
      BY <1>1, <1>2 DEF Apart
    <2> HIDE DEF below, f
    <2>2. QED  BY <2>1 DEF PendingOf, Elements
  <1>6. Apart(below)
    <2> HIDE DEF below
    <2>1. QED  BY <1>1 DEF Apart
  <1>7. f.kind = "then" => f.b2 # f.b3
    <2> HIDE DEF f
    <2>1. QED  BY <1>1 DEF Apart
  <1>8. ASSUME NEW blocks, HeadsIn(fs, blocks) PROVE HeadsIn(below, blocks)
    <2>1. Elements(below) \subseteq Elements(fs)
      <3> HIDE DEF below
      <3>1. QED  BY <1>1 DEF Elements
    <2>2. QED  BY <1>8, <2>1 DEF HeadsIn
  <1> HIDE DEF below, f
  <1>9. QED  BY <1>4, <1>5, <1>6, <1>7, <1>8 DEF below, f

-----------------------------------------------------------------------------
(* What a step does to the graph.                                          *)

Known == Placed \cup Pending

\* Inside a function, in the terms of the emission lemmas.
LEMMA GraphFacts ==
    ASSUME IInv, GraphOK, inFunc
    PROVE  /\ Fits(code, Placed, Known, layout[1], Unwritten)
           /\ insertPt \in Placed /\ layout[1] \in Placed
           /\ Placed \subseteq 1 .. nblk /\ Placed \in SUBSET Block
           /\ Placed \cap Unwritten = {} /\ Placed \cap Pending = {}
           /\ Unwritten \in SUBSET Block /\ Known \in SUBSET Block
           /\ nblk \in Nat /\ nblk <= MaxBlocks /\ MaxBlocks \in Nat
  <1>1. nblk \in Nat /\ nblk <= MaxBlocks /\ MaxBlocks \in Nat
    BY BoundsAssumption DEF IInv, TypeOK
  <1>2. /\ layout \in Seq(Block) /\ layout # <<>> /\ insertPt = Last(layout)
        /\ Placed \subseteq Block
    BY InsideFacts
  <1>3. insertPt \in Placed  BY <1>2, FrontFacts DEF Placed
  <1>4. layout[1] \in Placed
    <2>1. 1 \in DOMAIN layout  BY <1>2
    <2>2. QED  BY <2>1 DEF Placed, Elements
  <1>5. Unwritten \subseteq Block
    BY <1>1 DEF GraphOK, Unwritten, Uncreated, Block
  <1>6. Placed \subseteq 1 .. nblk
    <2>1. \A b \in Block : b \in 1 .. nblk \/ b \in Uncreated
      BY <1>1 DEF Block, Uncreated
    <2>2. QED  BY <1>2, <2>1 DEF GraphOK, Unwritten
  <1>7. Pending \subseteq Block /\ Placed \cap Pending = {}
    BY <1>5 DEF Unwritten, GraphOK
  <1>8. Fits(code, Placed, Known, layout[1], Unwritten)
    <2>1. code \in Code  BY DEF IInv, TypeOK, Code
    <2>2. Empty(code, Unwritten)  BY DEF GraphOK, Empty, Unwritten
    <2>3. QED  BY <2>1, <2>2 DEF Fits, GraphOK, Known
  <1>9. QED
    BY <1>1, <1>2, <1>3, <1>4, <1>5, <1>6, <1>7, <1>8 DEF Known, GraphOK

\* A statement without a nested one keeps the graph if its code fits.
LEMMA GraphSimple ==
    ASSUME IInv, GraphOK, NEW cd, Fits(cd, Placed, Known, layout[1], Unwritten),
           inFunc, Simple(cd)
    PROVE  GraphOK'
  <1>1. UNCHANGED <<nblk, layout, inFunc, frames>> /\ code' = cd
    BY DEF Simple, Statement
  <1>2. UNCHANGED <<Placed, Pending, Uncreated, Unwritten>> /\ layout[1]' = layout[1]
    BY <1>1 DEF Placed, Pending, Uncreated, Unwritten, Elements
  <1>3. Empty(cd, Uncreated) /\ Empty(cd, Pending)
    BY DEF Fits, Empty, Unwritten
  <1>4. CodeFits(cd, Placed, Placed \cup Pending, layout[1])
    BY DEF Fits, Known
  <1>5. /\ Injective(layout') /\ Apart(frames')
        /\ HeadsIn(frames', Placed \ {layout[1]})
    BY <1>1 DEF GraphOK
  <1>6. QED  BY <1>1, <1>2, <1>3, <1>4, <1>5 DEF GraphOK

\* A pending block is placed.
LEMMA GraphPlace ==
    ASSUME IInv, GraphOK, inFunc, inFunc' = inFunc, nblk' = nblk,
           NEW b \in Pending, ContinueIn(b), Pending' = Pending \ {b},
           Apart(frames'), HeadsIn(frames', Placed \ {layout[1]}),
           NEW cd, code' = cd,
           Fits(cd, Placed \cup {b}, Known, layout[1], Unwritten \ {b})
    PROVE  GraphOK'
  <1>1. /\ layout \in Seq(Block) /\ layout # <<>> /\ b \in Block
        /\ layout' = Append(layout, b) /\ b \notin Placed
    BY InsideFacts, GraphFacts DEF ContinueIn, Known
  <1>2. Placed' = Placed \cup {b}
    BY <1>1, AppendFacts DEF Placed, Elements
  <1>3. layout'[1] = layout[1]
    <2>1. 1 \in DOMAIN layout  BY <1>1
    <2>2. QED  BY <1>1, <2>1
  <1>4. Injective(layout')
    <2>1. \A i \in DOMAIN layout' :
              \/ layout'[i] = b /\ i = Len(layout) + 1
              \/ i \in DOMAIN layout /\ layout'[i] = layout[i]
      BY <1>1
    <2>2. Injective(layout)  BY DEF GraphOK
    <2>3. \A i \in DOMAIN layout : layout[i] # b  BY <1>1 DEF Placed, Elements
    <2>4. QED  BY <2>1, <2>2, <2>3 DEF Injective
  <1>5. b \notin Uncreated
    <2>1. b \in 1 .. nblk /\ nblk \in Nat  BY GraphFacts DEF GraphOK
    <2>2. QED  BY <2>1 DEF Uncreated
  <1>6. Uncreated' = Uncreated /\ Unwritten' = Unwritten \ {b}
    <2>1. Uncreated' = Uncreated  BY DEF Uncreated
    <2>2. QED  BY <1>5, <2>1 DEF Unwritten
  <1>7. Placed' \cap Unwritten' = {} /\ Pending' \subseteq 1 .. nblk'
    BY <1>2, <1>6 DEF GraphOK
  <1>8. Empty(cd, Uncreated') /\ Empty(cd, Pending')
    BY <1>6 DEF Fits, Empty, Unwritten
  <1>9. Placed' \cup Pending' = Known
    BY <1>2 DEF Known
  <1>10. CodeFits(cd, Placed', Placed' \cup Pending', layout'[1])
    BY <1>2, <1>3, <1>9 DEF Fits
  <1>11. HeadsIn(frames', Placed' \ {layout'[1]})
    BY <1>2, <1>3 DEF HeadsIn
  <1>12. QED
    BY <1>4, <1>7, <1>8, <1>10, <1>11 DEF GraphOK

\* The numbers above n are above m, and not between them.
LEMMA Intervals ==
    ASSUME NEW m \in Nat, NEW n \in Nat, NEW k \in Nat, m <= n
    PROVE  /\ n + 1 .. k \subseteq m + 1 .. k
           /\ (n + 1 .. k) \cap (m + 1 .. n) = {}
  OBVIOUS

\* New blocks are created, of which some are placed and a new frame waits for others.
LEMMA GraphGrow ==
    ASSUME IInv, GraphOK, inFunc, inFunc' = inFunc,
           nblk' \in nblk .. MaxBlocks,
           NEW f \in Frame, frames' = Append(frames, f),
           f.kind = "then" => f.b2 # f.b3,
           NEW new, new \subseteq nblk + 1 .. nblk',
           WaitsFor(f) \subseteq nblk + 1 .. nblk', WaitsFor(f) \cap new = {},
           IsLoop(f) => f.b1 \in new,
           Placed' = Placed \cup new, layout'[1] = layout[1], Injective(layout'),
           NEW cd, code' = cd,
           Fits(cd, Placed \cup new, Known \cup new \cup WaitsFor(f), layout[1],
                Unwritten \ new)
    PROVE  GraphOK'
  <1>1. /\ nblk \in Nat /\ nblk' \in Nat /\ nblk <= nblk' /\ MaxBlocks \in Nat
        /\ layout[1] \in Placed /\ Placed \subseteq 1 .. nblk
        /\ Placed \cap Unwritten = {} /\ Pending \subseteq 1 .. nblk
    BY GraphFacts DEF GraphOK
  <1>2. frames \in Seq(Frame)  BY DEF IInv, TypeOK
  <1>3. Pending = PendingOf(frames) /\ Pending' = PendingOf(frames')
    BY DEF Pending, PendingOf
  <1>4. Pending' = Pending \cup WaitsFor(f)  BY <1>2, <1>3, PendingPush
  <1>5. \A b \in nblk + 1 .. nblk' : b \notin 1 .. nblk
    BY <1>1
  <1>6. Apart(frames')
    <2>1. WaitsFor(f) \cap PendingOf(frames) = {}  BY <1>1, <1>3, <1>5
    <2>2. QED  BY <1>2, <2>1, PendingPush DEF GraphOK
  <1>7. HeadsIn(frames', Placed' \ {layout'[1]})
    <2>1. HeadsIn(frames, Placed' \ {layout'[1]})  BY DEF GraphOK, HeadsIn
    <2>2. IsLoop(f) => f.b1 \in Placed' \ {layout'[1]}  BY <1>1, <1>5
    <2>3. QED  BY <1>2, <2>1, <2>2, PendingPush
  <1>8. Uncreated' \subseteq Uncreated /\ Uncreated' \cap (nblk + 1 .. nblk') = {}
    <2>1. Uncreated' = nblk' + 1 .. MaxBlocks  BY DEF Uncreated
    <2>2. QED  BY <1>1, <2>1, Intervals DEF Uncreated
  <1>9. nblk + 1 .. nblk' \subseteq Uncreated
    BY <1>1 DEF Uncreated
  <1>10. Placed' \cap Unwritten' = {}
    <2>1. Placed \cap WaitsFor(f) = {} /\ new \cap Pending = {}
      BY <1>1, <1>5
    <2>2. QED  BY <1>1, <1>4, <1>8, <2>1 DEF Unwritten
  <1>11. Pending' \subseteq 1 .. nblk'
    <2>1. \A b \in 1 .. nblk : b \in 1 .. nblk'  BY <1>1
    <2>2. \A b \in nblk + 1 .. nblk' : b \in 1 .. nblk'  BY <1>1
    <2>3. QED  BY <1>1, <1>4, <2>1, <2>2
  <1>12. Empty(cd, Uncreated') /\ Empty(cd, Pending')
    <2>1. Uncreated' \cap new = {} /\ Pending' \cap new = {}
      BY <1>1, <1>4, <1>5, <1>8
    <2>2. Uncreated' \subseteq Unwritten /\ Pending' \subseteq Unwritten
      BY <1>4, <1>8, <1>9 DEF Unwritten
    <2>3. QED  BY <2>1, <2>2 DEF Fits, Empty
  <1>13. CodeFits(cd, Placed', Placed' \cup Pending', layout'[1])
    <2>1. Placed' \cup Pending' = Known \cup new \cup WaitsFor(f)
      BY <1>4 DEF Known
    <2>2. QED  BY <2>1 DEF Fits
  <1>14. QED
    BY <1>6, <1>7, <1>10, <1>11, <1>12, <1>13 DEF GraphOK

\* Entering a loop: Cond and Body are placed, After is awaited.
LEMMA EnterLoopGraph ==
    ASSUME IInv, GraphOK, NEW kind \in {"for", "while"}, EnterLoop(kind)
    PROVE  GraphOK'
  <1> DEFINE cond == nblk + 1
             body == nblk + 2
             after == nblk + 3
             f == [kind |-> kind, b1 |-> cond, b2 |-> body, b3 |-> after]
             new == {cond, body}
             mid == Emit(code, insertPt, Br(cond))
             cd == Emit(mid, cond, CondBr(body, after))
             known == Known \cup new \cup {after}
             empty == Unwritten \ new
  <1>1. inFunc /\ inFunc' = inFunc /\ nblk' = nblk + 3 /\ nblk + 3 <= MaxBlocks
        /\ frames' = Append(frames, f) /\ layout' = layout \o <<cond, body>>
        /\ code' = cd
    BY DEF EnterLoop, Statement
  <1>2. /\ nblk \in Nat /\ MaxBlocks \in Nat /\ Placed \subseteq 1 .. nblk
        /\ layout[1] \in Placed /\ insertPt \in Placed /\ insertPt \notin Unwritten
        /\ Fits(code, Placed, Known, layout[1], Unwritten)
        /\ Placed \in SUBSET Block /\ Known \in SUBSET Block /\ Unwritten \in SUBSET Block
    BY <1>1, GraphFacts
  <1>3. /\ cond \in Block /\ body \in Block /\ after \in Block
        /\ cond \in nblk + 1 .. nblk' /\ body \in nblk + 1 .. nblk' /\ after \in nblk + 1 .. nblk'
        /\ nblk' \in nblk .. MaxBlocks
        /\ cond # body /\ body # after /\ cond # after /\ after # NoBlock
        /\ cond \notin 1 .. nblk /\ body \notin 1 .. nblk /\ after \notin 1 .. nblk
        /\ cond \in Uncreated /\ body \in Uncreated
    BY <1>1, <1>2 DEF Block, NoBlock, Uncreated
  <1>4. f \in Frame /\ IsLoop(f) /\ f.b1 = cond /\ f.b3 = after /\ f.kind # "then"
    BY <1>3 DEF Frame, Kinds, IsLoop
  <1>5. WaitsFor(f) = {after}  BY <1>4, WaitsForKind
  <1>6. /\ Placed' = Placed \cup new /\ layout'[1] = layout[1] /\ Injective(layout')
    <2>1. layout \in Seq(Block) /\ layout # <<>> /\ Injective(layout)
      BY <1>1, InsideFacts DEF GraphOK
    <2>2. \A i \in DOMAIN layout' :
              \/ i \in DOMAIN layout /\ layout'[i] = layout[i]
              \/ i = Len(layout) + 1 /\ layout'[i] = cond
              \/ i = Len(layout) + 2 /\ layout'[i] = body
      BY <1>1, <1>3, <2>1
    <2>3. /\ \A i \in DOMAIN layout : i \in DOMAIN layout' /\ layout'[i] = layout[i]
          /\ Len(layout) + 1 \in DOMAIN layout' /\ layout'[Len(layout) + 1] = cond
          /\ Len(layout) + 2 \in DOMAIN layout' /\ layout'[Len(layout) + 2] = body
          /\ 1 \in DOMAIN layout
      BY <1>1, <1>3, <2>1
    <2>4. Placed' = Placed \cup new  BY <2>2, <2>3 DEF Placed, Elements
    <2>5. \A i \in DOMAIN layout : layout[i] # cond /\ layout[i] # body
      BY <1>2, <1>3 DEF Placed, Elements
    <2>6. Injective(layout')  BY <1>3, <2>1, <2>2, <2>5 DEF Injective
    <2>7. QED  BY <2>3, <2>4, <2>6
  <1>7. Fits(code, Placed \cup new, known, layout[1], empty)
    <2>1. new \subseteq Unwritten  BY <1>3 DEF Unwritten
    <2> HIDE DEF new
    <2>2. QED  BY <1>2, <2>1, FitsPlace
  <1>8. /\ Br(cond) \in Instr /\ InstrFits(Br(cond), insertPt, known, layout[1])
        /\ CondBr(body, after) \in Instr
        /\ InstrFits(CondBr(body, after), cond, known, layout[1])
    <2>1. cond \in known \ {layout[1]} /\ body \in known \ {layout[1]}
          /\ after \in known \ {layout[1]}
      BY <1>2, <1>3
    <2> HIDE DEF known, cond, body, after
    <2>2. QED  BY <1>3, <2>1, InstrTypes, InstrsFit
  <1>9. Fits(cd, Placed \cup new, known, layout[1], empty)
    <2>1. Placed \cup new \in SUBSET Block /\ empty \in SUBSET Block
          /\ insertPt \in Placed \cup new /\ insertPt \notin empty
          /\ cond \in Placed \cup new /\ cond \notin empty
      BY <1>2, <1>3
    <2> HIDE DEF known, cond, body, after, new, empty
    <2>2. Fits(mid, Placed \cup new, known, layout[1], empty)
      BY <1>7, <1>8, <2>1, FitsEmit
    <2> HIDE DEF mid
    <2>3. QED  BY <1>8, <2>1, <2>2, FitsEmit
  <1>10. new \subseteq nblk + 1 .. nblk' /\ {after} \subseteq nblk + 1 .. nblk'
         /\ {after} \cap new = {} /\ cond \in new
    BY <1>3
  <1> HIDE DEF cd, f, new, mid, cond, body, after
  <1>11. Fits(cd, Placed \cup new, Known \cup new \cup WaitsFor(f), layout[1],
              Unwritten \ new)
    BY <1>5, <1>9
  <1>12. QED
    BY <1>1, <1>3, <1>4, <1>5, <1>6, <1>10, <1>11, GraphGrow

\* Entering a conditional: IfBody is placed, After (and Else) are awaited.
LEMMA EnterBranchGraph ==
    ASSUME IInv, GraphOK, NEW kind \in {"if", "then"}, NEW created \in {2, 3},
           NEW other \in Nat, NEW else \in Nat,
           EnterBranch(kind, created, other, else),
           \/ kind = "if" /\ created = 2 /\ other = nblk + 2 /\ else = NoBlock
           \/ kind = "then" /\ created = 3 /\ other = nblk + 3 /\ else = nblk + 3
    PROVE  GraphOK'
  <1> DEFINE body == nblk + 1
             after == nblk + 2
             f == [kind |-> kind, b1 |-> body, b2 |-> after, b3 |-> else]
             new == {body}
             cd == Emit(code, insertPt, CondBr(body, other))
             waits == IF kind = "if" THEN {after} ELSE {after, else}
             known == Known \cup new \cup waits
             empty == Unwritten \ new
  <1>1. inFunc /\ inFunc' = inFunc /\ nblk' = nblk + created /\ nblk + created <= MaxBlocks
        /\ frames' = Append(frames, f) /\ layout' = Append(layout, body)
        /\ code' = cd
    BY DEF EnterBranch, Statement, ContinueIn
  <1>2. /\ nblk \in Nat /\ MaxBlocks \in Nat /\ Placed \subseteq 1 .. nblk
        /\ layout[1] \in Placed /\ insertPt \in Placed /\ insertPt \notin Unwritten
        /\ Fits(code, Placed, Known, layout[1], Unwritten)
        /\ Placed \in SUBSET Block /\ Known \in SUBSET Block /\ Unwritten \in SUBSET Block
    BY <1>1, GraphFacts
  <1>3. /\ body \in Block /\ after \in Block /\ other \in Block /\ else \in Block \cup {NoBlock}
        /\ body \in nblk + 1 .. nblk' /\ after \in nblk + 1 .. nblk' /\ other \in nblk + 1 .. nblk'
        /\ kind = "then" => else \in nblk + 1 .. nblk' /\ else = other /\ after # else
        /\ nblk' \in nblk .. MaxBlocks
        /\ body # after /\ body # other
        /\ kind = "if" => other = after
        /\ body \notin 1 .. nblk /\ other \notin 1 .. nblk
        /\ body \in Uncreated
    BY <1>1, <1>2 DEF Block, NoBlock, Uncreated
  <1>4. f \in Frame /\ ~IsLoop(f) /\ f.b2 = after /\ f.b3 = else /\ f.kind = kind
    BY <1>3 DEF Frame, Kinds, IsLoop
  <1>5. WaitsFor(f) = waits  BY <1>4, WaitsForKind
  <1>6. /\ Placed' = Placed \cup new /\ layout'[1] = layout[1] /\ Injective(layout')
    <2>1. layout \in Seq(Block) /\ layout # <<>> /\ Injective(layout)
      BY <1>1, InsideFacts DEF GraphOK
    <2>2. \A i \in DOMAIN layout' :
              \/ i \in DOMAIN layout /\ layout'[i] = layout[i]
              \/ i = Len(layout) + 1 /\ layout'[i] = body
      BY <1>1, <1>3, <2>1
    <2>3. Placed' = Placed \cup new
      <3>1. Elements(Append(layout, body)) = Elements(layout) \cup {body}
        BY <1>3, <2>1, AppendFacts
      <3>2. Placed' = Elements(layout')  BY DEF Placed, Elements
      <3>3. QED  BY <1>1, <3>1, <3>2 DEF Placed
    <2>4. \A i \in DOMAIN layout : layout[i] # body
      BY <1>2, <1>3 DEF Placed, Elements
    <2>5. Injective(layout')  BY <1>3, <2>1, <2>2, <2>4 DEF Injective
    <2>6. 1 \in DOMAIN layout  BY <2>1
    <2>7. layout'[1] = layout[1]  BY <1>1, <1>3, <2>1, <2>6
    <2>8. QED  BY <2>3, <2>5, <2>7
  <1>7. Fits(code, Placed \cup new, known, layout[1], empty)
    <2>1. new \subseteq Unwritten  BY <1>3 DEF Unwritten
    <2> HIDE DEF new
    <2>2. QED  BY <1>2, <2>1, FitsPlace
  <1>8. /\ CondBr(body, other) \in Instr
        /\ InstrFits(CondBr(body, other), insertPt, known, layout[1])
    <2>1. body \in known \ {layout[1]} /\ other \in known \ {layout[1]}
      BY <1>2, <1>3
    <2> HIDE DEF known, body, after
    <2>2. QED  BY <1>3, <2>1, InstrTypes, InstrsFit
  <1>9. Fits(cd, Placed \cup new, known, layout[1], empty)
    <2>1. Placed \cup new \in SUBSET Block /\ empty \in SUBSET Block
          /\ insertPt \in Placed \cup new /\ insertPt \notin empty
      BY <1>2, <1>3
    <2> HIDE DEF known, body, after, new, empty
    <2>2. QED  BY <1>7, <1>8, <2>1, FitsEmit
  <1>10. new \subseteq nblk + 1 .. nblk' /\ waits \subseteq nblk + 1 .. nblk'
         /\ waits \cap new = {}
    BY <1>3
  <1>11. f.kind = "then" => f.b2 # f.b3  BY <1>3, <1>4
  <1> HIDE DEF cd, f, new, body, after, waits
  <1>12. Fits(cd, Placed \cup new, Known \cup new \cup WaitsFor(f), layout[1],
              Unwritten \ new)
    BY <1>5, <1>9
  <1>13. QED
    BY <1>1, <1>3, <1>4, <1>5, <1>6, <1>10, <1>11, <1>12, GraphGrow

\* A visitor that waits, in the terms of the lemmas: what it waits for is pending.
LEMMA VisitingGraph ==
    ASSUME IInv, GraphOK, NEW k \in Kinds, Visiting(k)
    PROVE  /\ inFunc /\ frames # <<>> /\ frames \in Seq(Frame)
           /\ TopFrame \in Frame /\ TopFrame.kind = k
           /\ Pending = PendingOf(frames)
           /\ Apart(frames) /\ HeadsIn(frames, Placed \ {layout[1]})
           /\ WaitsFor(TopFrame) \subseteq Pending
           /\ IsLoop(TopFrame) => TopFrame.b1 \in Placed \ {layout[1]}
           /\ \A b \in Pending : b # layout[1] /\ b \in Known /\ b \in Unwritten
  <1>1. /\ inFunc /\ frames # <<>> /\ frames \in Seq(Frame)
        /\ TopFrame \in Frame /\ TopFrame.kind = k
    BY VisitingFacts
  <1>2. Pending = PendingOf(frames)  BY DEF Pending, PendingOf
  <1>3. Apart(frames) /\ HeadsIn(frames, Placed \ {layout[1]})
    BY <1>1 DEF GraphOK
  <1>4. TopFrame = Last(frames) /\ TopFrame \in Elements(frames)
    BY <1>1, FrontFacts DEF TopFrame
  <1>5. WaitsFor(TopFrame) \subseteq Pending  BY <1>4 DEF Pending
  <1>6. IsLoop(TopFrame) => TopFrame.b1 \in Placed \ {layout[1]}
    BY <1>3, <1>4 DEF HeadsIn
  <1>7. layout[1] \in Placed /\ Placed \cap Pending = {}
    BY <1>1, GraphFacts
  <1>8. QED
    BY <1>1, <1>2, <1>3, <1>5, <1>6, <1>7 DEF Known, Unwritten

\* The code a visitor leaves behind as it moves on to the block b: the guarded
\* branch to c, behind code that fits.
LEMMA FitsLeave ==
    ASSUME IInv, GraphOK, inFunc, NEW cd,
           Fits(cd, Placed, Known, layout[1], Unwritten),
           NEW c \in Known \ {layout[1]}, NEW b \in Pending
    PROVE  Fits(BranchUnlessTerminated(cd, c), Placed \cup {b}, Known, layout[1],
                Unwritten \ {b})
  <1>1. /\ Placed \in SUBSET Block /\ Known \in SUBSET Block /\ Unwritten \in SUBSET Block
        /\ insertPt \in Placed /\ insertPt \notin Unwritten
    BY GraphFacts
  <1>2. Fits(BranchUnlessTerminated(cd, c), Placed, Known, layout[1], Unwritten)
    BY <1>1, FitsBranch
  <1>3. b \in Unwritten  BY DEF Unwritten
  <1> DEFINE new == {b}
  <1>4. new \subseteq Unwritten  BY <1>3
  <1> HIDE DEF new
  <1>5. Fits(BranchUnlessTerminated(cd, c), Placed \cup new, Known, layout[1],
             Unwritten \ new)
    BY <1>2, <1>4, FitsPlace
  <1>6. QED  BY <1>5 DEF new

\* Leaving a loop: After is placed.
LEMMA LeaveLoopGraph ==
    ASSUME IInv, GraphOK, NEW k \in {"for", "while"}, Visiting(k),
           NEW cd, Fits(cd, Placed, Known, layout[1], Unwritten), LeaveLoop(cd)
    PROVE  GraphOK'
  <1> DEFINE b == TopFrame.b3
             out == BranchUnlessTerminated(cd, TopFrame.b1)
  <1>1. /\ inFunc /\ frames # <<>> /\ frames \in Seq(Frame) /\ TopFrame \in Frame
        /\ IsLoop(TopFrame) /\ Pending = PendingOf(frames)
        /\ Apart(frames) /\ HeadsIn(frames, Placed \ {layout[1]})
        /\ WaitsFor(TopFrame) \subseteq Pending
        /\ TopFrame.b1 \in Placed \ {layout[1]}
    BY VisitingGraph DEF Kinds, IsLoop
  <1>2. WaitsFor(TopFrame) = {b} /\ b \in Pending  BY <1>1, WaitsForKind
  <1>3. /\ inFunc' = inFunc /\ nblk' = nblk /\ ContinueIn(b) /\ code' = out
        /\ frames' = Front(frames)
    BY DEF LeaveLoop
  <1>4. /\ PendingOf(Front(frames)) = PendingOf(frames) \ WaitsFor(Last(frames))
        /\ Apart(Front(frames)) /\ HeadsIn(Front(frames), Placed \ {layout[1]})
    BY <1>1, PendingPop
  <1>5. /\ Pending' = Pending \ {b} /\ Apart(frames')
        /\ HeadsIn(frames', Placed \ {layout[1]})
    <2>1. Pending' = PendingOf(frames')  BY DEF Pending, PendingOf
    <2>2. QED  BY <1>1, <1>2, <1>3, <1>4, <2>1 DEF TopFrame
  <1>6. TopFrame.b1 \in Known \ {layout[1]}  BY <1>1 DEF Known
  <1>7. Fits(out, Placed \cup {b}, Known, layout[1], Unwritten \ {b})
    BY <1>1, <1>2, <1>6, FitsLeave
  <1> HIDE DEF out, b
  <1>8. QED  BY <1>1, <1>2, <1>3, <1>5, <1>7, GraphPlace

\* Leaving a conditional: After is placed.
LEMMA LeaveIfGraph ==
    ASSUME IInv, GraphOK, NEW k \in {"if", "else"}, Visiting(k),
           LeaveIf(BranchUnlessTerminated(code, TopFrame.b2))
    PROVE  GraphOK'
  <1> DEFINE b == TopFrame.b2
             out == BranchUnlessTerminated(code, TopFrame.b2)
  <1>1. /\ inFunc /\ frames # <<>> /\ frames \in Seq(Frame) /\ TopFrame \in Frame
        /\ TopFrame.kind \in {"if", "else"} /\ Pending = PendingOf(frames)
        /\ Apart(frames) /\ HeadsIn(frames, Placed \ {layout[1]})
        /\ WaitsFor(TopFrame) \subseteq Pending
        /\ \A c \in Pending : c # layout[1] /\ c \in Known
    BY VisitingGraph DEF Kinds
  <1>2. WaitsFor(TopFrame) = {b} /\ b \in Pending  BY <1>1, WaitsForKind
  <1>3. /\ inFunc' = inFunc /\ nblk' = nblk /\ ContinueIn(b) /\ code' = out
        /\ frames' = Front(frames)
    BY DEF LeaveIf
  <1>4. /\ PendingOf(Front(frames)) = PendingOf(frames) \ WaitsFor(Last(frames))
        /\ Apart(Front(frames)) /\ HeadsIn(Front(frames), Placed \ {layout[1]})
    BY <1>1, PendingPop
  <1>5. /\ Pending' = Pending \ {b} /\ Apart(frames')
        /\ HeadsIn(frames', Placed \ {layout[1]})
    <2>1. Pending' = PendingOf(frames')  BY DEF Pending, PendingOf
    <2>2. QED  BY <1>1, <1>2, <1>3, <1>4, <2>1 DEF TopFrame
  <1>6. b \in Known \ {layout[1]}  BY <1>1, <1>2
  <1>7. Fits(out, Placed \cup {b}, Known, layout[1], Unwritten \ {b})
    <2>1. Fits(code, Placed, Known, layout[1], Unwritten)  BY <1>1, GraphFacts
    <2>2. QED  BY <1>1, <1>2, <1>6, <2>1, FitsLeave
  <1> HIDE DEF out, b
  <1>8. QED  BY <1>1, <1>2, <1>3, <1>5, <1>7, GraphPlace

\* Between the branches: Else is placed, After stays awaited.
LEMMA FinishThenGraph ==
    ASSUME IInv, GraphOK, FinishThen
    PROVE  GraphOK'
  <1> DEFINE b == TopFrame.b3
             out == BranchUnlessTerminated(code, TopFrame.b2)
             f == [TopFrame EXCEPT !.kind = "else"]
             below == Front(frames)
  <1>1. /\ inFunc /\ frames # <<>> /\ frames \in Seq(Frame) /\ TopFrame \in Frame
        /\ TopFrame.kind = "then" /\ Pending = PendingOf(frames)
        /\ Apart(frames) /\ HeadsIn(frames, Placed \ {layout[1]})
        /\ WaitsFor(TopFrame) \subseteq Pending
        /\ \A c \in Pending : c # layout[1] /\ c \in Known
    <2>1. Visiting("then")  BY DEF FinishThen
    <2>2. QED  BY <2>1, VisitingGraph DEF Kinds
  <1>2. WaitsFor(TopFrame) = {TopFrame.b2, b} /\ b \in Pending /\ TopFrame.b2 \in Pending
    BY <1>1, WaitsForKind
  <1>3. /\ inFunc' = inFunc /\ nblk' = nblk /\ ContinueIn(b) /\ code' = out
        /\ frames' = Append(below, f)
    BY DEF FinishThen
  <1>4. /\ PendingOf(below) = Pending \ {TopFrame.b2, b}
        /\ Apart(below) /\ HeadsIn(below, Placed \ {layout[1]})
        /\ TopFrame.b2 # b /\ below \in Seq(Frame)
    BY <1>1, <1>2, PendingPop, FrontFacts DEF TopFrame
  <1>5. f \in Frame /\ f.kind = "else" /\ ~IsLoop(f) /\ f.b2 = TopFrame.b2
    BY <1>1 DEF Frame, Kinds, IsLoop
  <1>6. WaitsFor(f) = {TopFrame.b2}  BY <1>5, WaitsForKind
  <1> HIDE DEF f, below
  <1>7. /\ Pending' = Pending \ {b} /\ Apart(frames')
        /\ HeadsIn(frames', Placed \ {layout[1]})
    <2>1. Pending' = PendingOf(frames')  BY DEF Pending, PendingOf
    <2>2. PendingOf(frames') = PendingOf(below) \cup {TopFrame.b2}
      BY <1>3, <1>4, <1>5, <1>6, PendingPush
    <2>3. Apart(frames')
      <3>1. WaitsFor(f) \cap PendingOf(below) = {}  BY <1>4, <1>6
      <3>2. f.kind # "then"  BY <1>5
      <3>3. QED  BY <1>3, <1>4, <1>5, <3>1, <3>2, PendingPush
    <2>4. HeadsIn(frames', Placed \ {layout[1]})
      BY <1>3, <1>4, <1>5, PendingPush
    <2>5. QED  BY <1>2, <1>4, <2>1, <2>2, <2>3, <2>4
  <1>8. TopFrame.b2 \in Known \ {layout[1]}  BY <1>1, <1>2
  <1>9. Fits(out, Placed \cup {b}, Known, layout[1], Unwritten \ {b})
    <2>1. Fits(code, Placed, Known, layout[1], Unwritten)  BY <1>1, GraphFacts
    <2>2. QED  BY <1>1, <1>2, <1>8, <2>1, FitsLeave
  <1> HIDE DEF out, b
  <1>10. QED  BY <1>1, <1>2, <1>3, <1>7, <1>9, GraphPlace

\* A function begins: nothing has been written to the fresh entry block.
LEMMA BeginGraph ==
    ASSUME IInv, GraphOK, BeginFunc
    PROVE  GraphOK'
  <1> DEFINE b == nblk + 1
  <1>1. /\ nblk \in Nat /\ MaxBlocks \in Nat /\ b <= MaxBlocks /\ b \in Nat /\ b \in Uncreated
        /\ b \in 1 .. b
    BY BoundsAssumption DEF BeginFunc, IInv, TypeOK, Uncreated
  <1>2. frames = <<>> /\ frames' = <<>> /\ nblk' = b /\ layout' = <<b>> /\ code' = code
    BY DEF BeginFunc, IInv, FramesOK
  <1>3. Elements(<<>>) = {} /\ Elements(<<b>>) = {b} /\ <<b>>[1] = b
    BY DEF Elements
  <1>4. Placed' = {b} /\ Pending' = {}
    <2>1. Placed' = Elements(layout') /\ Pending' = UNION {WaitsFor(f) : f \in Elements(frames')}
      BY DEF Placed, Pending, Elements
    <2>2. QED  BY <1>2, <1>3, <2>1
  <1>5. Uncreated' = b + 1 .. MaxBlocks  BY <1>2 DEF Uncreated
  <1>6. Uncreated' \subseteq Uncreated /\ b \notin Uncreated'
    <2>1. nblk <= b /\ b \in nblk + 1 .. b  BY <1>1
    <2>2. Uncreated = nblk + 1 .. MaxBlocks  BY DEF Uncreated
    <2> HIDE DEF b
    <2>3. QED  BY <1>1, <1>5, <2>1, <2>2, Intervals
  <1>7. code[b] = <<>> /\ Empty(code', Uncreated')
    BY <1>1, <1>2, <1>6 DEF GraphOK, Empty
  <1> HIDE DEF b
  <1>8. Injective(layout')  BY <1>2 DEF Injective
  <1>9. Placed' \cap Unwritten' = {}  BY <1>4, <1>6 DEF Unwritten
  <1>10. Apart(frames') /\ HeadsIn(frames', Placed' \ {layout'[1]})
    BY <1>2, <1>3 DEF Apart, HeadsIn
  <1>11. Empty(code', Pending') /\ Pending' \subseteq 1 .. nblk'  BY <1>4 DEF Empty
  <1>12. CodeFits(code', Placed', Placed' \cup Pending', layout'[1])
    <2>1. DOMAIN code'[b] = {}  BY <1>2, <1>7
    <2>2. QED  BY <1>4, <2>1 DEF CodeFits
  <1>13. QED
    BY <1>7, <1>8, <1>9, <1>10, <1>11, <1>12 DEF GraphOK

\* The targets of break and continue are blocks of a loop around the statement.
LEMMA JumpFrames ==
    ASSUME IInv, JumpsOK
    PROVE  /\ afterStack # <<>> => \E i \in DOMAIN frames :
                  IsLoop(frames[i]) /\ Last(afterStack) = frames[i].b3
           /\ condStack # <<>> => \E i \in DOMAIN frames :
                  IsLoop(frames[i]) /\ Last(condStack) = frames[i].b1
  <1> DEFINE ls == LoopsOf(frames)
  <1>1. frames \in Seq(Frame)  BY DEF IInv, TypeOK
  <1>2. ls \in Seq(Frame) /\ \A f \in Elements(ls) : f \in Elements(frames) /\ IsLoop(f)
    BY <1>1, LoopsElements
  <1>3. /\ afterStack = [i \in DOMAIN ls |-> ls[i].b3]
        /\ condStack = [i \in DOMAIN ls |-> ls[i].b1]
    BY DEF JumpsOK, AfterOf, CondOf
  <1>4. afterStack \in Seq(Block) /\ condStack \in Seq(Block)
    BY DEF IInv, TypeOK
  <1> HIDE DEF ls
  <1>5. DOMAIN afterStack = DOMAIN ls /\ DOMAIN condStack = DOMAIN ls
    BY <1>3
  <1>6. \A n \in DOMAIN ls : \E i \in DOMAIN frames : IsLoop(frames[i]) /\ ls[n] = frames[i]
    BY <1>2 DEF Elements
  <1>7. ASSUME NEW s \in Seq(Block), s # <<>>, DOMAIN s = DOMAIN ls
        PROVE  \E n \in DOMAIN ls : Last(s) = s[n]
    BY <1>7, FrontFacts DEF Last
  <1>8. ASSUME afterStack # <<>>
        PROVE  \E i \in DOMAIN frames :
                  IsLoop(frames[i]) /\ Last(afterStack) = frames[i].b3
    <2>1. PICK n \in DOMAIN ls : Last(afterStack) = afterStack[n]
      BY <1>4, <1>5, <1>7, <1>8
    <2>2. afterStack[n] = ls[n].b3  BY <1>3
    <2>3. QED  BY <1>6, <2>1, <2>2
  <1>9. ASSUME condStack # <<>>
        PROVE  \E i \in DOMAIN frames :
                  IsLoop(frames[i]) /\ Last(condStack) = frames[i].b1
    <2>1. PICK n \in DOMAIN ls : Last(condStack) = condStack[n]
      BY <1>4, <1>5, <1>7, <1>9
    <2>2. condStack[n] = ls[n].b1  BY <1>3
    <2>3. QED  BY <1>6, <2>1, <2>2
  <1>10. QED  BY <1>8, <1>9

\* The graph knows those blocks.
LEMMA JumpTargets ==
    ASSUME IInv, GraphOK, JumpsOK, inFunc
    PROVE  /\ afterStack # <<>> => Last(afterStack) \in Known \ {layout[1]}
           /\ condStack # <<>> => Last(condStack) \in Known \ {layout[1]}
  <1>1. frames \in Seq(Frame)  BY DEF IInv, TypeOK
  <1>2. \A i \in DOMAIN frames : frames[i] \in Frame /\ frames[i] \in Elements(frames)
    BY <1>1 DEF Elements
  <1>3. \A i \in DOMAIN frames : IsLoop(frames[i]) =>
            frames[i].b3 \in Pending /\ frames[i].b1 \in Placed \ {layout[1]}
    <2> TAKE i \in DOMAIN frames
    <2>1. IsLoop(frames[i]) => WaitsFor(frames[i]) = {frames[i].b3}
      BY <1>2, WaitsForKind
    <2>2. QED  BY <1>2, <2>1 DEF Pending, GraphOK, HeadsIn
  <1>4. layout[1] \in Placed /\ Placed \cap Pending = {}
    BY GraphFacts
  <1>5. QED  BY <1>3, <1>4, JumpFrames DEF Known

\* What a statement may emit: to the insertion block, and allocas to the entry.
LEMMA StatementFits ==
    ASSUME IInv, GraphOK, inFunc, NEW cd, Fits(cd, Placed, Known, layout[1], Unwritten)
    PROVE  /\ Fits(Emit(cd, insertPt, Inst), Placed, Known, layout[1], Unwritten)
           /\ Fits(Emit(cd, insertPt, Ret), Placed, Known, layout[1], Unwritten)
           /\ \A c \in Known \ {layout[1]} :
                  Fits(Emit(cd, insertPt, Br(c)), Placed, Known, layout[1], Unwritten)
           /\ Fits(Emit(cd, layout[1], Alloca), Placed, Known, layout[1], Unwritten)
  <1>1. /\ Placed \in SUBSET Block /\ Known \in SUBSET Block /\ Unwritten \in SUBSET Block
        /\ insertPt \in Placed /\ insertPt \notin Unwritten
        /\ layout[1] \in Placed /\ layout[1] \notin Unwritten
    BY GraphFacts
  <1>2. /\ \A c \in Known \ {layout[1]} :
              Br(c) \in Instr /\ InstrFits(Br(c), insertPt, Known, layout[1])
        /\ Ret \in Instr /\ InstrFits(Ret, insertPt, Known, layout[1])
        /\ Inst \in Instr /\ InstrFits(Inst, insertPt, Known, layout[1])
        /\ Alloca \in Instr /\ InstrFits(Alloca, layout[1], Known, layout[1])
    <2>1. \A c \in Known : c \in Block  BY <1>1
    <2>2. insertPt \in Block  BY <1>1
    <2>3. QED  BY <2>1, <2>2, InstrTypes, InstrsFit
  <1>3. QED  BY <1>1, <1>2, FitsEmit

\* Every step keeps the graph.
LEMMA NextGraph ==
    ASSUME IInv, JumpsOK, GraphOK, [Next]_vars
    PROVE  GraphOK'
  <1>1. CASE BeginFunc
    BY <1>1, BeginGraph
  <1>2. CASE FinishFunc
    BY <1>2 DEF FinishFunc, GraphOK, Uncreated
  <1>3. ASSUME inFunc
        PROVE  Fits(code, Placed, Known, layout[1], Unwritten)
    BY <1>3, GraphFacts
  <1>4. CASE VisitExprStmt
    <2>1. inFunc  BY <1>4 DEF VisitExprStmt, Simple, Statement
    <2>2. QED  BY <1>3, <1>4, <2>1, StatementFits, GraphSimple DEF VisitExprStmt
  <1>5. CASE VisitVariable
    <2> DEFINE slot == Emit(code, layout[1], Alloca)
               cd(initialised) == IF initialised THEN Emit(slot, insertPt, Inst) ELSE slot
    <2>1. PICK initialised \in BOOLEAN : Simple(cd(initialised))
      BY <1>5 DEF VisitVariable
    <2>2. inFunc  BY <2>1 DEF Simple, Statement
    <2>3. Fits(slot, Placed, Known, layout[1], Unwritten)
      BY <1>3, <2>2, StatementFits
    <2> HIDE DEF slot
    <2>4. Fits(Emit(slot, insertPt, Inst), Placed, Known, layout[1], Unwritten)
      BY <2>2, <2>3, StatementFits
    <2>5. Fits(cd(initialised), Placed, Known, layout[1], Unwritten)
      BY <2>3, <2>4
    <2> HIDE DEF cd
    <2>6. QED  BY <2>1, <2>2, <2>5, GraphSimple
  <1>6. CASE VisitReturn
    <2>1. inFunc  BY <1>6 DEF VisitReturn, Simple, Statement
    <2>2. QED  BY <1>3, <1>6, <2>1, StatementFits, GraphSimple DEF VisitReturn
  <1>7. CASE VisitBreak
    <2>1. inFunc /\ afterStack # <<>>  BY <1>7 DEF VisitBreak, Simple, Statement
    <2>2. Last(afterStack) \in Known \ {layout[1]}  BY <2>1, JumpTargets
    <2>3. Fits(Emit(code, insertPt, Br(Last(afterStack))), Placed, Known, layout[1],
               Unwritten)
      BY <1>3, <2>1, <2>2, StatementFits
    <2>4. QED  BY <1>7, <2>1, <2>3, GraphSimple DEF VisitBreak
  <1>8. CASE VisitContinue
    <2>1. inFunc /\ condStack # <<>>  BY <1>8 DEF VisitContinue, Simple, Statement
    <2>2. Last(condStack) \in Known \ {layout[1]}  BY <2>1, JumpTargets
    <2>3. Fits(Emit(code, insertPt, Br(Last(condStack))), Placed, Known, layout[1],
               Unwritten)
      BY <1>3, <2>1, <2>2, StatementFits
    <2>4. QED  BY <1>8, <2>1, <2>3, GraphSimple DEF VisitContinue
  <1>9. CASE JumpOutsideLoop \/ UNCHANGED vars
    <2>1. UNCHANGED <<code, nblk, layout, inFunc, frames>>
      BY <1>9 DEF JumpOutsideLoop, vars
    <2>2. UNCHANGED <<Placed, Pending, Uncreated, Unwritten>>
      BY <2>1 DEF Placed, Pending, Uncreated, Unwritten, Elements
    <2>3. Empty(code, Uncreated)' = Empty(code, Uncreated)  BY <2>1, <2>2 DEF Empty
    <2>4. CASE inFunc
      <3>1. /\ Injective(layout') /\ Apart(frames') /\ HeadsIn(frames', Placed \ {layout[1]})
            /\ Empty(code', Pending) /\ Pending \subseteq 1 .. nblk'
            /\ CodeFits(code', Placed, Placed \cup Pending, layout[1])
        BY <2>1, <2>4 DEF GraphOK
      <3>2. Empty(code', Uncreated) /\ Placed \cap Unwritten = {}
        BY <2>1, <2>4 DEF GraphOK
      <3>3. layout'[1] = layout[1] /\ inFunc'  BY <2>1, <2>4
      <3>4. QED  BY <2>2, <3>1, <3>2, <3>3 DEF GraphOK
    <2>5. CASE ~inFunc
      <3>1. Empty(code', Uncreated') /\ ~inFunc'  BY <2>1, <2>2, <2>5 DEF GraphOK
      <3>2. QED  BY <3>1 DEF GraphOK
    <2>6. QED  BY <2>4, <2>5
  <1>10. CASE EnterFor \/ EnterWhile
    BY <1>10, EnterLoopGraph DEF EnterFor, EnterWhile
  <1>11. CASE FinishFor
    <2> DEFINE cd(expr3) == IF expr3 THEN Emit(code, insertPt, Inst) ELSE code
    <2>1. Visiting("for")  BY <1>11 DEF FinishFor
    <2>2. PICK expr3 \in BOOLEAN : LeaveLoop(cd(expr3))  BY <1>11 DEF FinishFor
    <2>3. inFunc  BY <2>1, VisitingFacts DEF Kinds
    <2>4. Fits(cd(expr3), Placed, Known, layout[1], Unwritten)
      BY <1>3, <2>3, StatementFits
    <2> HIDE DEF cd
    <2>5. QED  BY <2>1, <2>2, <2>4, LeaveLoopGraph
  <1>12. CASE FinishWhile
    <2>1. Visiting("while") /\ LeaveLoop(code)  BY <1>12 DEF FinishWhile
    <2>2. inFunc  BY <2>1, VisitingFacts DEF Kinds
    <2>3. QED  BY <1>3, <2>1, <2>2, LeaveLoopGraph
  <1>13. CASE EnterIf
    <2>1. nblk + 2 \in Nat /\ NoBlock \in Nat  BY DEF IInv, TypeOK, NoBlock
    <2>2. EnterBranch("if", 2, nblk + 2, NoBlock)  BY <1>13 DEF EnterIf
    <2>3. QED  BY <2>1, <2>2, EnterBranchGraph
  <1>14. CASE EnterIfElse
    <2>1. nblk + 3 \in Nat  BY DEF IInv, TypeOK
    <2>2. EnterBranch("then", 3, nblk + 3, nblk + 3)  BY <1>14 DEF EnterIfElse
    <2>3. QED  BY <2>1, <2>2, EnterBranchGraph
  <1>15. CASE FinishThen
    BY <1>15, FinishThenGraph
  <1>16. CASE FinishIf
    BY <1>16, LeaveIfGraph DEF FinishIf
  <1>17. CASE FinishElse
    BY <1>17, LeaveIfGraph DEF FinishElse
  <1>18. QED
    BY <1>1, <1>2, <1>4, <1>5, <1>6, <1>7, <1>8, <1>9, <1>10, <1>11, <1>12,
       <1>13, <1>14, <1>15, <1>16, <1>17 DEF Next

\* The initial state satisfies the second invariant.
LEMMA InitGraph == Init => GraphOK /\ JumpsOK
  <1> SUFFICES ASSUME Init PROVE GraphOK /\ JumpsOK
    OBVIOUS
  <1>1. Empty(code, Uncreated)
    <2>1. Uncreated \subseteq Block  BY BoundsAssumption DEF Init, Uncreated, Block
    <2>2. QED  BY <2>1 DEF Init, Empty
  <1>2. AfterOf(<<>>) = <<>> /\ CondOf(<<>>) = <<>>
    BY LoopsEmpty DEF AfterOf, CondOf
  <1>3. QED  BY <1>1, <1>2 DEF Init, GraphOK, JumpsOK

\* The whole inductive invariant.
GInv == IInv /\ JumpsOK /\ GraphOK

\* The second invariant holds in every behaviour.
LEMMA GraphInvariant == Spec => []GInv
  <1>1. Init => GInv  BY InitIInv, InitGraph DEF GInv
  <1>2. GInv /\ [Next]_vars => GInv'
    BY NextIInv, NextJumps, NextGraph DEF GInv
  <1>3. QED  BY <1>1, <1>2, PTL DEF Spec

\* However the statements nest, break and continue find the blocks of the innermost
\* loop around them on the jump stacks, and no visitor waits between functions.
THEOREM JumpsGoToTheirLoop == Spec => []JumpStacksFollowLoops
  <1>1. GInv => JumpStacksFollowLoops
    BY JumpsAreStacks DEF GInv, IInv
  <1>2. QED  BY <1>1, GraphInvariant, PTL

\* In every compilation a block enters the function's list at most once, and no
\* branch leads to a block that is neither there nor about to be put there.
THEOREM NoDanglingBranch == Spec => []EveryBlockPlacedOnce
  <1>1. GInv => EveryBlockPlacedOnce
    <2> SUFFICES ASSUME GInv, inFunc
                 PROVE  /\ Injective(layout) /\ Pending \cap Placed = {}
                        /\ \A b \in Placed : Targets(b) \subseteq Placed \cup Pending
      BY DEF EveryBlockPlacedOnce, Injective
    <2>1. Injective(layout) /\ Pending \cap Placed = {}
      BY DEF GInv, GraphOK, Unwritten
    <2>2. ASSUME NEW b \in Placed PROVE Targets(b) \subseteq Placed \cup Pending
      <3>1. \A i \in Elements(code[b]) : i.to \subseteq Placed \cup Pending
        BY DEF GInv, GraphOK, CodeFits, InstrFits, Elements
      <3>2. QED  BY <3>1 DEF Targets
    <2>3. QED  BY <2>1, <2>2
  <1>2. QED  BY <1>1, GraphInvariant, PTL

\* In every compilation allocas are in the entry block only, and no branch leads
\* back to the entry: a local takes its stack slot at most once per call.
THEOREM SlotsTakenOnce == Spec => []AllocaOncePerCall
  <1>1. GInv => AllocaOncePerCall
    <2> SUFFICES ASSUME GInv, inFunc, NEW b \in Placed
                 PROVE  /\ layout[1] \notin Targets(b)
                        /\ b # layout[1] =>
                             \A j \in DOMAIN code[b] : code[b][j].op # "alloca"
      BY DEF AllocaOncePerCall
    <2>1. \A j \in DOMAIN code[b] :
              InstrFits(code[b][j], b, Placed \cup Pending, layout[1])
      BY DEF GInv, GraphOK, CodeFits
    <2>2. \A i \in Elements(code[b]) : layout[1] \notin i.to
      BY <2>1 DEF InstrFits, Elements
    <2>3. QED  BY <2>1, <2>2 DEF InstrFits, Targets
  <1>2. QED  BY <1>1, GraphInvariant, PTL

\* Every step leaves the code of the blocks that were left alone.
THEOREM LeftBlocksStay == Spec => ClosedBlocksFrozen
  <1> DEFINE Frozen(cd) == \A b \in Placed : b # insertPt /\ b # layout[1] => cd[b] = code[b]
  <1>1. GInv /\ [Next]_vars => Frozen(code') \/ UNCHANGED vars
    <2> SUFFICES ASSUME GInv, Next PROVE Frozen(code')
      OBVIOUS
    <2>1. ASSUME inFunc
          PROVE  /\ insertPt \in Block /\ layout[1] \in Block /\ Placed \subseteq Block
                 /\ code \in Code /\ Inst \in Instr /\ Alloca \in Instr /\ Ret \in Instr
                 /\ \A b \in Block : Br(b) \in Instr
                 /\ \A b \in Block, c \in Block : CondBr(b, c) \in Instr
      BY <2>1, InsideFacts, InstrTypes DEF GInv, Extends
    <2> DEFINE Free(b) == b = insertPt \/ b = layout[1] \/ b \notin Placed
    <2>2. ASSUME inFunc, NEW cd \in Code, Frozen(cd), NEW i \in Instr,
                 NEW b \in Block, Free(b)
          PROVE  Emit(cd, b, i) \in Code /\ Frozen(Emit(cd, b, i))
      <3>1. Emit(cd, b, i) \in Code /\ \A c \in Block : c # b => Emit(cd, b, i)[c] = cd[c]
        BY EmitFacts
      <3>2. \A c \in Placed : c # insertPt /\ c # layout[1] => c \in Block /\ c # b
        BY <2>1, <2>2
      <3>3. QED  BY <2>2, <3>1, <3>2
    <2>3. ASSUME inFunc, NEW cd \in Code, Frozen(cd), NEW c \in Block
          PROVE  Frozen(BranchUnlessTerminated(cd, c))
      BY <2>1, <2>2, <2>3 DEF BranchUnlessTerminated
    <2>4. Frozen(code)  OBVIOUS
    <2> HIDE DEF Frozen
    <2>5. ASSUME BeginFunc \/ FinishFunc \/ JumpOutsideLoop PROVE Frozen(code')
      <3>1. code' = code  BY <2>5 DEF BeginFunc, FinishFunc, JumpOutsideLoop
      <3>2. QED  BY <2>4, <3>1
    <2>6. CASE VisitExprStmt \/ VisitReturn \/ VisitBreak \/ VisitContinue
      <3>1. PICK i \in Instr : inFunc /\ code' = Emit(code, insertPt, i)
        <4>1. inFunc
          BY <2>6 DEF VisitExprStmt, VisitReturn, VisitBreak, VisitContinue, Simple, Statement
        <4>2. /\ VisitBreak => Last(afterStack) \in Block
              /\ VisitContinue => Last(condStack) \in Block
          BY FrontFacts DEF VisitBreak, VisitContinue, GInv, IInv, TypeOK
        <4>3. QED
          BY <2>1, <2>6, <4>1, <4>2
             DEF VisitExprStmt, VisitReturn, VisitBreak, VisitContinue, Simple
      <3>2. QED  BY <2>1, <2>2, <2>4, <3>1
    <2>7. CASE VisitVariable
      <3> DEFINE slot == Emit(code, layout[1], Alloca)
      <3>1. PICK initialised \in BOOLEAN :
               Simple(IF initialised THEN Emit(slot, insertPt, Inst) ELSE slot)
        BY <2>7 DEF VisitVariable
      <3>2. inFunc  BY <3>1 DEF Simple, Statement
      <3>3. slot \in Code /\ Frozen(slot)
        BY <2>1, <2>2, <2>4, <3>2
      <3> HIDE DEF slot
      <3>4. Frozen(Emit(slot, insertPt, Inst))  BY <2>1, <2>2, <3>2, <3>3
      <3>5. QED  BY <3>1, <3>3, <3>4 DEF Simple
    <2>8. CASE EnterFor \/ EnterWhile
      <3> DEFINE cond == nblk + 1
                 body == nblk + 2
                 after == nblk + 3
                 mid == Emit(code, insertPt, Br(cond))
      <3>1. inFunc /\ code' = Emit(mid, cond, CondBr(body, after)) /\ nblk + 3 <= MaxBlocks
        BY <2>8 DEF EnterFor, EnterWhile, EnterLoop, Statement
      <3>2. cond \in Block /\ body \in Block /\ after \in Block /\ cond \notin Placed
        <4>1. nblk \in Nat /\ MaxBlocks \in Nat /\ Placed \subseteq 1 .. nblk
          BY <3>1, GraphFacts DEF GInv
        <4>2. cond \notin 1 .. nblk  BY <4>1
        <4>3. QED  BY <3>1, <4>1, <4>2 DEF Block
      <3>3. mid \in Code /\ Frozen(mid)
        BY <2>1, <2>2, <2>4, <3>1, <3>2
      <3> HIDE DEF cond, body, after, mid
      <3>4. CondBr(body, after) \in Instr  BY <2>1, <3>1, <3>2
      <3>5. QED  BY <2>2, <3>1, <3>2, <3>3, <3>4
    <2>9. CASE EnterIf \/ EnterIfElse
      <3>1. PICK i \in Instr : inFunc /\ code' = Emit(code, insertPt, i)
        <4>1. inFunc  BY <2>9 DEF EnterIf, EnterIfElse, EnterBranch, Statement
        <4>2. PICK created \in {2, 3} :
                /\ nblk + created <= MaxBlocks
                /\ code' = Emit(code, insertPt, CondBr(nblk + 1, nblk + created))
          BY <2>9 DEF EnterIf, EnterIfElse, EnterBranch
        <4>3. nblk + 1 \in Block /\ nblk + created \in Block
          <5>1. nblk \in Nat /\ MaxBlocks \in Nat
            BY <4>1, GraphFacts DEF GInv
          <5>2. QED  BY <4>2, <5>1 DEF Block
        <4>4. QED  BY <2>1, <4>1, <4>2, <4>3
      <3>2. QED  BY <2>1, <2>2, <2>4, <3>1
    <2>10. CASE FinishFor
      <3>1. Visiting("for")  BY <2>10 DEF FinishFor
      <3>2. inFunc /\ TopFrame.b1 \in Block
        BY <3>1, VisitingFacts DEF GInv, Kinds
      <3>3. PICK expr3 \in BOOLEAN :
               LeaveLoop(IF expr3 THEN Emit(code, insertPt, Inst) ELSE code)
        BY <2>10 DEF FinishFor
      <3> DEFINE cd == IF expr3 THEN Emit(code, insertPt, Inst) ELSE code
      <3>4. cd \in Code /\ Frozen(cd)  BY <2>1, <2>2, <2>4, <3>2
      <3>5. code' = BranchUnlessTerminated(cd, TopFrame.b1)  BY <3>3 DEF LeaveLoop
      <3> HIDE DEF cd
      <3>6. QED  BY <2>3, <3>2, <3>4, <3>5
    <2>11. CASE FinishWhile
      <3>1. Visiting("while")  BY <2>11 DEF FinishWhile
      <3>2. inFunc /\ TopFrame.b1 \in Block
        BY <3>1, VisitingFacts DEF GInv, Kinds
      <3>3. QED
        BY <2>1, <2>3, <2>4, <2>11, <3>2 DEF FinishWhile, LeaveLoop
    <2>12. CASE FinishIf \/ FinishElse \/ FinishThen
      <3>1. PICK k \in {"if", "else", "then"} : Visiting(k)
        BY <2>12 DEF FinishIf, FinishElse, FinishThen
      <3>2. inFunc /\ TopFrame.b2 \in Block
        BY <3>1, VisitingFacts DEF GInv, Kinds
      <3>3. QED
        BY <2>1, <2>3, <2>4, <2>12, <3>2 DEF FinishIf, FinishElse, FinishThen, LeaveIf
    <2>13. QED
      BY <2>5, <2>6, <2>7, <2>8, <2>9, <2>10, <2>11, <2>12 DEF Next
  <1>2. GInv /\ [Next]_vars =>
            [\A b \in Placed : b # insertPt /\ b # layout[1] => code'[b] = code[b]]_vars
    BY <1>1
  <1>3. QED
    BY <1>2, GraphInvariant, PTL DEF Spec, ClosedBlocksFrozen

-----------------------------------------------------------------------------
(* Reachability.                                                           *)

JumpTable == [Block -> SUBSET Block]

\* The jumps stay inside these blocks.
ClosedUnder(C, jumps) == \A b \in C : jumps[b] \subseteq C

\* R is the least set of blocks that holds the start and that the jumps stay inside of.
IsReach(R, jumps, start) ==
    /\ R \in SUBSET Block /\ start \in R /\ ClosedUnder(R, jumps)
    /\ \A C \in SUBSET Block : start \in C /\ ClosedUnder(C, jumps) => R \subseteq C

\* The blocks that every closed set around S holds, and S with where its blocks lead.
Hull(S, jumps) == {b \in Block : \A C \in SUBSET Block :
                                     S \subseteq C /\ ClosedUnder(C, jumps) => b \in C}
Spread(S, jumps) == S \cup UNION {jumps[b] : b \in S}

\* A set is its own hull or has the hull of its spread.
LEMMA HullFacts ==
    ASSUME NEW jumps \in JumpTable, NEW S \in SUBSET Block
    PROVE  /\ Spread(S, jumps) \in SUBSET Block
           /\ S \subseteq Spread(S, jumps)
           /\ S \subseteq Hull(S, jumps)
           /\ Hull(S, jumps) \in SUBSET Block
           /\ ClosedUnder(Hull(S, jumps), jumps)
           /\ Hull(S, jumps) = IF Spread(S, jumps) = S THEN S
                               ELSE Hull(Spread(S, jumps), jumps)
  <1>1. \A b \in Block : jumps[b] \subseteq Block  BY DEF JumpTable
  <1>2. Spread(S, jumps) \in SUBSET Block /\ S \subseteq Spread(S, jumps)
    BY <1>1 DEF Spread
  <1>3. S \subseteq Hull(S, jumps) /\ Hull(S, jumps) \in SUBSET Block
    BY DEF Hull
  <1>4. ClosedUnder(Hull(S, jumps), jumps)
    BY <1>1 DEF ClosedUnder, Hull
  <1>5. ASSUME Spread(S, jumps) = S PROVE Hull(S, jumps) = S
    <2>1. ClosedUnder(S, jumps)  BY <1>5 DEF Spread, ClosedUnder
    <2>2. QED  BY <1>3, <2>1 DEF Hull
  <1>6. \A C \in SUBSET Block :
           ClosedUnder(C, jumps) => (S \subseteq C <=> Spread(S, jumps) \subseteq C)
    BY DEF ClosedUnder, Spread
  <1>7. Hull(S, jumps) = Hull(Spread(S, jumps), jumps)
    BY <1>6 DEF Hull
  <1>8. QED  BY <1>2, <1>3, <1>4, <1>5, <1>7

\* The recursion of ReachableFrom has a solution, and every solution gives the hull:
\* the sets it goes through grow, and there are finitely many blocks.
LEMMA ReachableIsHull ==
    ASSUME NEW jumps \in JumpTable, NEW start \in Block
    PROVE  ReachableFrom(jumps, start) = Hull({start}, jumps)
  <1> DEFINE Step(c) == [reached \in SUBSET Block |->
                            LET more == reached \cup UNION {jumps[b] : b \in reached}
                            IN  IF more = reached THEN reached ELSE c[more]]
             hull == [S \in SUBSET Block |-> Hull(S, jumps)]
             closure == CHOOSE c : c = Step(c)
  <1>1. \A c : Step(c) = [S \in SUBSET Block |->
                             IF Spread(S, jumps) = S THEN S ELSE c[Spread(S, jumps)]]
    BY DEF Spread
  <1>2. hull = Step(hull)
    <2>1. \A S \in SUBSET Block :
             hull[S] = IF Spread(S, jumps) = S THEN S ELSE hull[Spread(S, jumps)]
      BY HullFacts
    <2>2. Step(hull) = [S \in SUBSET Block |->
                           IF Spread(S, jumps) = S THEN S ELSE hull[Spread(S, jumps)]]
      <3> HIDE DEF Step, hull
      <3>1. QED  BY <1>1
    <2>3. QED  BY <2>1, <2>2, Zenon
  <1>3. closure = Step(closure)
    <2> HIDE DEF Step
    <2>1. QED  BY <1>2
  <1>4. ReachableFrom(jumps, start) = closure[{start}]
    BY DEF ReachableFrom
  <1> HIDE DEF closure, hull
  <1>5. \A S \in SUBSET Block :
           closure[S] = IF Spread(S, jumps) = S THEN S ELSE closure[Spread(S, jumps)]
    <2>1. closure = [S \in SUBSET Block |->
                        IF Spread(S, jumps) = S THEN S ELSE closure[Spread(S, jumps)]]
      <3> HIDE DEF Step
      <3>1. QED  BY <1>1, <1>3
    <2>2. QED  BY <2>1, Zenon
  <1> DEFINE Left(S) == Cardinality(Block \ S)
             N == {n \in Nat : \A S \in SUBSET Block :
                                  Left(S) <= n => closure[S] = Hull(S, jumps)}
  <1>6. /\ \A S \in SUBSET Block : Left(S) \in Nat
        /\ \A S \in SUBSET Block : Spread(S, jumps) # S => Left(Spread(S, jumps)) < Left(S)
    <2>1. IsFiniteSet(Block)
      <3>1. 1 \in Int /\ MaxBlocks \in Int  BY BoundsAssumption
      <3>2. QED  BY <3>1, FS_Interval DEF Block
    <2>2. ASSUME NEW S \in SUBSET Block PROVE IsFiniteSet(Block \ S) /\ Left(S) \in Nat
      <3>1. Block \ S \in SUBSET Block  OBVIOUS
      <3>2. IsFiniteSet(Block \ S)  BY <2>1, <3>1, FS_Subset
      <3>3. QED  BY <3>2, FS_CardinalityType
    <2>3. ASSUME NEW S \in SUBSET Block, Spread(S, jumps) # S
          PROVE  Left(Spread(S, jumps)) < Left(S)
      <3> DEFINE T == Spread(S, jumps)
      <3>1. T \in SUBSET Block /\ S \subseteq T  BY HullFacts
      <3>2. Block \ T \in SUBSET (Block \ S) /\ Block \ T # Block \ S
        BY <2>3, <3>1
      <3>3. IsFiniteSet(Block \ S) /\ Left(S) \in Nat /\ Left(T) \in Nat  BY <2>2, <3>1
      <3>4. Left(T) <= Left(S) /\ Left(T) # Left(S)
        BY <3>2, <3>3, FS_Subset
      <3> HIDE DEF T
      <3>5. QED  BY <3>3, <3>4 DEF T
    <2>4. QED  BY <2>2, <2>3
  <1>7. \A S \in SUBSET Block : Spread(S, jumps) \in SUBSET Block
    BY HullFacts
  <1>8. \A S \in SUBSET Block :
           Hull(S, jumps) = IF Spread(S, jumps) = S THEN S ELSE Hull(Spread(S, jumps), jumps)
    BY HullFacts
  <1> HIDE DEF Left, Step
  <1>9. 0 \in N
    <2> SUFFICES ASSUME NEW S \in SUBSET Block, Left(S) <= 0
                 PROVE  closure[S] = Hull(S, jumps)
      OBVIOUS
    <2>1. Spread(S, jumps) = S  BY <1>6, <1>7
    <2>2. QED  BY <1>5, <1>8, <2>1
  <1>10. ASSUME NEW n \in Nat, n \in N PROVE n + 1 \in N
    <2> SUFFICES ASSUME NEW S \in SUBSET Block, Left(S) <= n + 1
                 PROVE  closure[S] = Hull(S, jumps)
      OBVIOUS
    <2>1. CASE Spread(S, jumps) = S
      BY <1>5, <1>8, <2>1
    <2>2. CASE Spread(S, jumps) # S
      <3>1. Left(Spread(S, jumps)) <= n  BY <1>6, <1>7, <2>2
      <3>2. closure[Spread(S, jumps)] = Hull(Spread(S, jumps), jumps)
        BY <1>7, <1>10, <3>1
      <3>3. QED  BY <1>5, <1>8, <2>2, <3>2
    <2>3. QED  BY <2>1, <2>2
  <1>11. Nat \subseteq N
    <2> HIDE DEF N
    <2>1. QED  BY <1>9, <1>10, InductionOnSet
  <1>12. {start} \in SUBSET Block  OBVIOUS
  <1>13. closure[{start}] = Hull({start}, jumps)
    <2>1. Left({start}) \in Nat /\ Left({start}) <= Left({start})  BY <1>6, <1>12
    <2>2. QED  BY <1>11, <1>12, <2>1
  <1>14. QED  BY <1>4, <1>13

\* What ReachableFrom computes: the least closed set around the start.
LEMMA ReachableLeast ==
    ASSUME NEW jumps \in JumpTable, NEW start \in Block
    PROVE  IsReach(ReachableFrom(jumps, start), jumps, start)
  <1>1. ReachableFrom(jumps, start) = Hull({start}, jumps)  BY ReachableIsHull
  <1>2. {start} \in SUBSET Block  OBVIOUS
  <1>3. /\ {start} \subseteq Hull({start}, jumps) /\ Hull({start}, jumps) \in SUBSET Block
        /\ ClosedUnder(Hull({start}, jumps), jumps)
    BY <1>2, HullFacts
  <1>4. \A C \in SUBSET Block : start \in C /\ ClosedUnder(C, jumps)
                                   => Hull({start}, jumps) \subseteq C
    BY DEF Hull
  <1>5. QED  BY <1>1, <1>3, <1>4 DEF IsReach

\* There is one least closed set.
LEMMA ReachUnique ==
    ASSUME NEW jumps, NEW start, NEW R, NEW Q,
           IsReach(R, jumps, start), IsReach(Q, jumps, start)
    PROVE  R = Q
  BY DEF IsReach

\* Jumps are added at a reached block p: what they lead to, and where that leads, joins
\* the reached blocks, and nothing else does.
LEMMA ReachGrows ==
    ASSUME NEW jumps, NEW more, NEW start, NEW R, IsReach(R, jumps, start),
           \A b \in R : jumps[b] \subseteq more[b],
           NEW p \in R, NEW T \in SUBSET Block,
           \A b \in R \cup T : more[b] \subseteq R \cup T,
           \A t \in T : t \in more[p] \/ \E c \in more[p] : t \in more[c]
    PROVE  IsReach(R \cup T, more, start)
  <1>1. R \cup T \in SUBSET Block /\ start \in R \cup T /\ ClosedUnder(R \cup T, more)
    BY DEF IsReach, ClosedUnder
  <1>2. ASSUME NEW C \in SUBSET Block, start \in C, ClosedUnder(C, more)
        PROVE  R \cup T \subseteq C
    <2>1. R \cap C \in SUBSET Block /\ start \in R \cap C /\ ClosedUnder(R \cap C, jumps)
      BY <1>2 DEF IsReach, ClosedUnder
    <2>2. R \subseteq C  BY <2>1 DEF IsReach
    <2>3. QED  BY <1>2, <2>2 DEF ClosedUnder
  <1>3. QED  BY <1>1, <1>2 DEF IsReach

-----------------------------------------------------------------------------
(* Where control goes from a block.                                        *)

\* This is the first terminator of the block.
IsFirst(s, i) ==
    /\ i \in DOMAIN s /\ s[i].op \in TermOps
    /\ \A j \in 1 .. i - 1 : s[j].op \notin TermOps

\* A block that holds a terminator has a first one, and only one.
LEMMA FirstFacts ==
    ASSUME NEW s \in Seq(Instr), Stops(s)
    PROVE  /\ IsFirst(s, FirstTerminator(s))
           /\ \A i : IsFirst(s, i) => i = FirstTerminator(s)
  <1>1. DOMAIN s = 1 .. Len(s) /\ Len(s) \in Nat  OBVIOUS
  <1>2. ASSUME NEW i, NEW j, IsFirst(s, i), IsFirst(s, j) PROVE i = j
    <2>1. i \in Nat /\ j \in Nat /\ i >= 1 /\ j >= 1  BY <1>1, <1>2 DEF IsFirst
    <2>2. ~(i < j) /\ ~(j < i)
      <3>1. \A a, b \in Nat : a >= 1 /\ a < b => a \in 1 .. b - 1  OBVIOUS
      <3>2. QED  BY <1>2, <2>1, <3>1 DEF IsFirst
    <2>3. QED  BY <2>1, <2>2
  <1> DEFINE N == {n \in Nat : (\E i \in 1 .. n : i \in DOMAIN s /\ s[i].op \in TermOps)
                                   => \E i : IsFirst(s, i)}
  <1>3. 0 \in N  OBVIOUS
  <1>4. ASSUME NEW n \in Nat, n \in N PROVE n + 1 \in N
    <2> SUFFICES ASSUME NEW i \in 1 .. n + 1, i \in DOMAIN s, s[i].op \in TermOps
                 PROVE  \E k : IsFirst(s, k)
      OBVIOUS
    <2>1. CASE \E k \in 1 .. n : k \in DOMAIN s /\ s[k].op \in TermOps
      BY <1>4, <2>1
    <2>2. CASE ~\E k \in 1 .. n : k \in DOMAIN s /\ s[k].op \in TermOps
      <3>1. i = n + 1  BY <2>2
      <3>2. \A j \in 1 .. i - 1 : j \in 1 .. n /\ j \in DOMAIN s  BY <1>1, <3>1
      <3>3. IsFirst(s, i)  BY <2>2, <3>2 DEF IsFirst
      <3>4. QED  BY <3>3
    <2>3. QED  BY <2>1, <2>2
  <1>5. Nat \subseteq N
    <2> HIDE DEF N
    <2>1. QED  BY <1>3, <1>4, InductionOnSet
  <1>6. \E i : IsFirst(s, i)
    <2>1. Len(s) \in N  BY <1>1, <1>5
    <2>2. \E i \in 1 .. Len(s) : i \in DOMAIN s /\ s[i].op \in TermOps
      BY <1>1 DEF Stops
    <2>3. QED  BY <2>1, <2>2
  <1>7. IsFirst(s, FirstTerminator(s))
    <2>1. FirstTerminator(s) = CHOOSE i \in DOMAIN s :
              s[i].op \in TermOps /\ \A j \in 1 .. i - 1 : s[j].op \notin TermOps
      BY DEF FirstTerminator
    <2>2. \E i \in DOMAIN s :
              s[i].op \in TermOps /\ \A j \in 1 .. i - 1 : s[j].op \notin TermOps
      BY <1>6 DEF IsFirst
    <2>3. QED  BY <2>1, <2>2, Zenon DEF IsFirst
  <1>8. QED  BY <1>2, <1>7

\* What an instruction that is appended changes: nothing behind a terminator; in a
\* block without one a terminator opens the way to its targets.
LEMMA ExitsAppend ==
    ASSUME NEW s \in Seq(Instr), NEW i \in Instr
    PROVE  /\ Exits(s) \in SUBSET Block
           /\ ~Stops(s) => Exits(s) = {}
           /\ Stops(Append(s, i)) <=> (Stops(s) \/ i.op \in TermOps)
           /\ Exits(Append(s, i)) = IF Stops(s) THEN Exits(s)
                                    ELSE IF i.op \in TermOps THEN i.to ELSE {}
  <1> DEFINE t == Append(s, i)
             n == Len(s)
  <1>1. /\ t \in Seq(Instr) /\ n \in Nat /\ DOMAIN s = 1 .. n /\ DOMAIN t = 1 .. n + 1
        /\ t[n + 1] = i /\ \A j \in 1 .. n : t[j] = s[j]
    OBVIOUS
  <1>2. \A j \in 1 .. n : s[j] \in Instr  OBVIOUS
  <1> HIDE DEF t, n
  <1>3. /\ \A j \in 1 .. n + 1 : j \in 1 .. n \/ j = n + 1
        /\ \A j \in 1 .. n : j \in 1 .. n + 1 /\ \A k \in 1 .. j - 1 : k \in 1 .. n
        /\ n + 1 \in 1 .. n + 1 /\ n + 1 - 1 = n
    BY <1>1
  <1>4. Stops(t) <=> (Stops(s) \/ i.op \in TermOps)
    BY <1>1, <1>3 DEF Stops
  <1>5. Exits(s) \in SUBSET Block
    <2>1. CASE Stops(s)
      <3>1. FirstTerminator(s) \in 1 .. n  BY <1>1, <2>1, FirstFacts DEF IsFirst
      <3>2. s[FirstTerminator(s)] \in Instr  BY <1>2, <3>1
      <3>3. QED  BY <2>1, <3>2 DEF Exits, Instr
    <2>2. CASE ~Stops(s)  BY <2>2 DEF Exits
    <2>3. QED  BY <2>1, <2>2
  <1>6. CASE Stops(s)
    <2> DEFINE k == FirstTerminator(s)
    <2>1. IsFirst(s, k)  BY <1>6, FirstFacts
    <2> HIDE DEF k
    <2>2. k \in 1 .. n /\ t[k] = s[k]  BY <1>1, <2>1 DEF IsFirst
    <2>3. IsFirst(t, k)  BY <1>1, <1>3, <2>1, <2>2 DEF IsFirst
    <2>4. k = FirstTerminator(t) /\ Stops(t)  BY <1>1, <1>4, <1>6, <2>3, FirstFacts
    <2>5. QED  BY <1>4, <1>5, <1>6, <2>2, <2>4 DEF Exits, k, t
  <1>7. CASE ~Stops(s) /\ i.op \in TermOps
    <2>1. IsFirst(t, n + 1)  BY <1>1, <1>3, <1>7 DEF IsFirst, Stops
    <2>2. n + 1 = FirstTerminator(t) /\ Stops(t)  BY <1>1, <1>4, <1>7, <2>1, FirstFacts
    <2>3. QED  BY <1>1, <1>4, <1>5, <1>7, <2>2 DEF Exits, t
  <1>8. CASE ~Stops(s) /\ i.op \notin TermOps
    BY <1>4, <1>5, <1>8 DEF Exits, t
  <1>9. QED  BY <1>6, <1>7, <1>8

\* A table of jumps is one.
LEMMA JumpsType ==
    ASSUME NEW cd \in Code
    PROVE  /\ Jumps(cd) \in JumpTable
           /\ \A b \in Block : Jumps(cd)[b] = Exits(cd[b])
  <1>1. \A b \in Block : cd[b] \in Seq(Instr)  BY DEF Code
  <1>2. Inst \in Instr  BY DEF Inst, Instr, TermOps
  <1>3. \A b \in Block : Exits(cd[b]) \in SUBSET Block
    BY <1>1, <1>2, ExitsAppend
  <1>4. QED  BY <1>3 DEF Jumps, JumpTable

\* Control leaves each block in this code as it does in that.
Quiet(cd, old) ==
    /\ cd \in Code
    /\ \A b \in Block : Exits(cd[b]) = Exits(old[b]) /\ (Stops(cd[b]) <=> Stops(old[b]))

\* The code of this block ends; if it had not ended before, control goes to T.
Leaves(cd, old, p, T) ==
    /\ cd \in Code
    /\ \A b \in Block \ {p} :
           Exits(cd[b]) = Exits(old[b]) /\ (Stops(cd[b]) <=> Stops(old[b]))
    /\ Stops(cd[p])
    /\ Exits(cd[p]) = IF Stops(old[p]) THEN Exits(old[p]) ELSE T

\* What is no terminator changes nothing.
LEMMA EmitQuiet ==
    ASSUME NEW old, NEW cd \in Code, Quiet(cd, old), NEW p \in Block, NEW i \in Instr,
           i.op \notin TermOps
    PROVE  Quiet(Emit(cd, p, i), old)
  <1>1. /\ Emit(cd, p, i) \in Code
        /\ \A b \in Block : b # p => Emit(cd, p, i)[b] = cd[b]
        /\ Emit(cd, p, i)[p] = Append(cd[p], i)
    BY EmitFacts
  <1>2. cd[p] \in Seq(Instr)  BY DEF Code
  <1>3. /\ Stops(Append(cd[p], i)) <=> Stops(cd[p])
        /\ Exits(Append(cd[p], i)) = Exits(cd[p])
    BY <1>2, ExitsAppend
  <1>4. QED  BY <1>1, <1>3 DEF Quiet

\* A terminator leaves the block it is emitted to.
LEMMA EmitLeaves ==
    ASSUME NEW old, NEW cd \in Code, Quiet(cd, old), NEW p \in Block, NEW i \in Instr,
           i.op \in TermOps
    PROVE  Leaves(Emit(cd, p, i), old, p, i.to)
  <1>1. /\ Emit(cd, p, i) \in Code
        /\ \A b \in Block : b # p => Emit(cd, p, i)[b] = cd[b]
        /\ Emit(cd, p, i)[p] = Append(cd[p], i)
    BY EmitFacts
  <1>2. cd[p] \in Seq(Instr)  BY DEF Code
  <1>3. /\ Stops(Append(cd[p], i))
        /\ Exits(Append(cd[p], i)) = IF Stops(cd[p]) THEN Exits(cd[p]) ELSE i.to
    BY <1>2, ExitsAppend
  <1>4. QED  BY <1>1, <1>3 DEF Quiet, Leaves

\* The guarded branch leaves the insertion block, whether it is emitted or not.
LEMMA BranchLeaves ==
    ASSUME NEW old, NEW cd \in Code, Quiet(cd, old), NEW c \in Block,
           insertPt \in Block, insertPt = Last(layout)
    PROVE  Leaves(BranchUnlessTerminated(cd, c), old, insertPt, {c})
  <1>1. Br(c) \in Instr /\ Br(c).op \in TermOps /\ Br(c).to = {c}
    BY InstrTypes DEF Br
  <1>2. CASE ~Terminated(cd[insertPt])
    <2>1. Leaves(Emit(cd, insertPt, Br(c)), old, insertPt, Br(c).to)
      BY <1>1, EmitLeaves
    <2>2. QED  BY <1>1, <1>2, <2>1 DEF BranchUnlessTerminated
  <1>3. CASE Terminated(cd[insertPt])
    <2>1. Stops(BranchUnlessTerminated(cd, c)[insertPt])
      BY BranchFacts
    <2>2. BranchUnlessTerminated(cd, c) = cd
      BY <1>3 DEF BranchUnlessTerminated
    <2>3. QED  BY <2>1, <2>2 DEF Quiet, Leaves
  <1>4. QED  BY <1>2, <1>3

-----------------------------------------------------------------------------
(* What the steps do to the reached blocks.                                *)

\* The reached blocks are the least closed set, all of them known; nothing leads
\* from a block that is not written yet.
LEMMA ReachedFacts ==
    ASSUME GInv, inFunc
    PROVE  /\ IsReach(Reached, Jumps(code), layout[1])
           /\ Reached \subseteq Known
           /\ code \in Code
           /\ \A b \in Unwritten : Exits(code[b]) = {} /\ ~Stops(code[b])
           /\ insertPt \in Block /\ layout[1] \in Block
  <1>1. /\ code \in Code /\ insertPt \in Block /\ layout[1] \in Block
        /\ layout[1] \in Placed /\ Known \in SUBSET Block
        /\ Fits(code, Placed, Known, layout[1], Unwritten)
    BY InsideFacts, GraphFacts DEF GInv, Extends
  <1>2. IsReach(Reached, Jumps(code), layout[1])
    <2>1. IsReach(ReachableFrom(Jumps(code), layout[1]), Jumps(code), layout[1])
      BY <1>1, JumpsType, ReachableLeast
    <2>2. QED  BY <2>1 DEF Reached
  <1>3. \A b \in Unwritten : Exits(code[b]) = {} /\ ~Stops(code[b])
    <2>1. ~Stops(<<>>)  BY DEF Stops
    <2>2. Exits(<<>>) = {}  BY <2>1 DEF Exits
    <2>3. QED  BY <1>1, <2>1, <2>2 DEF Fits, Empty
  <1>4. \A b \in Placed : Exits(code[b]) \subseteq Known
    <2> TAKE b \in Placed
    <2>1. CASE Stops(code[b])
      <3>1. code[b] \in Seq(Instr)  BY <1>1 DEF Code, Known
      <3>2. FirstTerminator(code[b]) \in DOMAIN code[b]
        BY <2>1, <3>1, FirstFacts DEF IsFirst
      <3>3. QED  BY <1>1, <2>1, <3>2 DEF Exits, Fits, CodeFits, InstrFits
    <2>2. CASE ~Stops(code[b])  BY <2>2 DEF Exits
    <2>3. QED  BY <2>1, <2>2
  <1>5. ClosedUnder(Known, Jumps(code))
    <2>1. \A b \in Known : b \in Placed \/ b \in Unwritten  BY DEF Known, Unwritten
    <2>2. \A b \in Known : Jumps(code)[b] = Exits(code[b])  BY <1>1, JumpsType
    <2>3. QED  BY <1>3, <1>4, <2>1, <2>2 DEF ClosedUnder
  <1>6. Reached \subseteq Known
    <2>1. layout[1] \in Known  BY <1>1 DEF Known
    <2>2. QED  BY <1>1, <1>2, <1>5, <2>1 DEF IsReach
  <1>7. QED  BY <1>1, <1>2, <1>3, <1>6

\* The reached blocks of the next state are a least closed set of its code.
LEMMA ReachedNext ==
    ASSUME GInv, inFunc, inFunc' = inFunc, layout'[1] = layout[1],
           NEW cd \in Code, code' = cd, NEW R, IsReach(R, Jumps(cd), layout[1])
    PROVE  Reached' = R
  <1>1. Reached' = ReachableFrom(Jumps(cd), layout[1])
    BY DEF Reached
  <1>2. IsReach(ReachableFrom(Jumps(cd), layout[1]), Jumps(cd), layout[1])
    BY ReachedFacts, JumpsType, ReachableLeast
  <1>3. QED  BY <1>1, <1>2, ReachUnique

\* A live insertion block is left for T and what T leads to; a dead one changes nothing.
LEMMA ReachStep ==
    ASSUME GInv, inFunc, NEW cd \in Code, NEW T \in SUBSET Block,
           \A b \in Block \ {insertPt} : b \in Reached => Exits(cd[b]) = Exits(code[b]),
           Stops(code[insertPt]) => Exits(cd[insertPt]) = Exits(code[insertPt]),
           liveBar =>
               /\ Exits(cd[insertPt]) \subseteq T
               /\ \A b \in T : b \in Reached \/ Exits(cd[b]) \subseteq T
               /\ \A t \in T : \/ t \in Exits(cd[insertPt])
                               \/ \E c \in Exits(cd[insertPt]) : t \in Exits(cd[c])
    PROVE  IsReach(IF liveBar THEN Reached \cup T ELSE Reached, Jumps(cd), layout[1])
  <1>1. /\ IsReach(Reached, Jumps(code), layout[1]) /\ code \in Code
        /\ insertPt \in Block /\ Reached \in SUBSET Block
    BY ReachedFacts DEF IsReach
  <1>2. /\ \A b \in Block : Jumps(code)[b] = Exits(code[b])
        /\ \A b \in Block : Jumps(cd)[b] = Exits(cd[b])
        /\ \A b \in Block : Jumps(cd)[b] \in SUBSET Block
    BY <1>1, JumpsType DEF JumpTable
  <1>3. \A b \in Reached : Exits(code[b]) \subseteq Reached
    BY <1>1, <1>2 DEF IsReach, ClosedUnder
  <1>4. CASE liveBar
    <2>1. insertPt \in Reached /\ ~Stops(code[insertPt]) /\ Exits(code[insertPt]) = {}
      BY <1>4 DEF liveBar, HasTerminator, Exits
    <2>2. \A b \in Reached : Jumps(code)[b] \subseteq Jumps(cd)[b]
      BY <1>1, <1>2, <2>1
    <2>3. \A b \in Reached \cup T : Jumps(cd)[b] \subseteq Reached \cup T
      BY <1>1, <1>2, <1>3, <1>4, <2>1
    <2>4. \A t \in T : \/ t \in Jumps(cd)[insertPt]
                       \/ \E c \in Jumps(cd)[insertPt] : t \in Jumps(cd)[c]
      BY <1>1, <1>2, <1>4, <2>1
    <2>5. IsReach(Reached \cup T, Jumps(cd), layout[1])
      BY <1>1, <2>1, <2>2, <2>3, <2>4, ReachGrows
    <2>6. QED  BY <1>4, <2>5
  <1>5. CASE ~liveBar
    <2>1. \A b \in Reached : Exits(cd[b]) = Exits(code[b])
      BY <1>1, <1>5 DEF liveBar, HasTerminator
    <2>2. ClosedUnder(Reached, Jumps(cd))
      BY <1>1, <1>2, <1>3, <2>1 DEF ClosedUnder
    <2>3. ASSUME NEW C \in SUBSET Block, layout[1] \in C, ClosedUnder(C, Jumps(cd))
          PROVE  Reached \subseteq C
      <3>1. ClosedUnder(C \cap Reached, Jumps(code))
        BY <1>1, <1>2, <1>3, <2>1, <2>3 DEF ClosedUnder
      <3>2. C \cap Reached \in SUBSET Block /\ layout[1] \in C \cap Reached
        BY <1>1, <2>3 DEF IsReach
      <3>3. QED  BY <1>1, <3>1, <3>2 DEF IsReach
    <2>4. IsReach(Reached, Jumps(cd), layout[1])
      BY <1>1, <2>2, <2>3 DEF IsReach
    <2>5. QED  BY <1>5, <2>4
  <1>6. QED  BY <1>4, <1>5

\* Code that control leaves as before reaches the same blocks.
LEMMA ReachQuiet ==
    ASSUME GInv, inFunc, NEW cd, Quiet(cd, code)
    PROVE  IsReach(Reached, Jumps(cd), layout[1])
  <1>1. cd \in Code /\ code \in Code  BY ReachedFacts DEF Quiet
  <1>2. Jumps(cd) = Jumps(code)  BY DEF Jumps, Quiet
  <1>3. QED  BY <1>2, ReachedFacts

\* The insertion block is left for blocks that are reached or not written yet.
LEMMA ReachLeaves ==
    ASSUME GInv, inFunc, NEW T \in SUBSET Block, liveBar => T \subseteq Reached \cup Unwritten,
           NEW cd, Leaves(cd, code, insertPt, T)
    PROVE  IsReach(IF liveBar THEN Reached \cup T ELSE Reached, Jumps(cd), layout[1])
  <1>1. /\ \A b \in Unwritten : Exits(code[b]) = {}
        /\ insertPt \in Block /\ insertPt \notin Unwritten
    BY ReachedFacts, GraphFacts DEF GInv
  <1>2. liveBar => \A b \in T : b \in Reached \/ Exits(cd[b]) \subseteq T
    BY <1>1 DEF Leaves
  <1>3. liveBar => ~Stops(code[insertPt])  BY DEF liveBar, HasTerminator
  <1>4. QED  BY <1>2, <1>3, ReachStep DEF Leaves

-----------------------------------------------------------------------------
(* What the reached blocks say of the frames.                              *)

\* In a construct that was live when it was entered the blocks its visitor still has
\* to place are reached, but for the After of an if-else: a branch has to get there.
FrameReach(f, R) ==
    /\ IsLoop(f) \/ f.kind = "then" => (EntryOf(f) \in R <=> f.b3 \in R)
    /\ f.kind = "if"                => (EntryOf(f) \in R <=> f.b2 \in R)
    /\ f.kind = "then"              => f.b2 \notin R
    /\ f.kind = "else"              => (f.b2 \in R => EntryOf(f) \in R)

\* What is live is inside of constructs that are.
FramesReach(fs, R, placed) ==
    /\ \A i \in DOMAIN fs : EntryOf(fs[i]) \in placed /\ FrameReach(fs[i], R)
    /\ \A i, j \in DOMAIN fs : j < i /\ EntryOf(fs[i]) \in R => EntryOf(fs[j]) \in R
Above(b, fs, R) == b \in R => \A i \in DOMAIN fs : EntryOf(fs[i]) \in R

ReachOK == inFunc => /\ FramesReach(frames, Reached, Placed)
                     /\ Above(insertPt, frames, Reached)

Agree(Q, R, blocks) == \A b \in blocks : b \in Q <=> b \in R

\* The abstract stack of these frames.
StackOf(fs, R) == [i \in DOMAIN fs |-> ConstructOf(fs[i], R)]

\* A frame's blocks are its entry and those it waits for.
LEMMA FrameBlocks ==
    ASSUME NEW f \in Frame
    PROVE  /\ IsLoop(f) => EntryOf(f) = f.b1 /\ WaitsFor(f) = {f.b3}
           /\ f.kind = "if" => EntryOf(f) = f.b1 /\ WaitsFor(f) = {f.b2}
           /\ f.kind = "then" => EntryOf(f) = f.b1 /\ WaitsFor(f) = {f.b2, f.b3}
           /\ f.kind = "else" => EntryOf(f) = f.b3 /\ WaitsFor(f) = {f.b2}
           /\ IsLoop(f) \/ f.kind \in {"if", "then", "else"}
  BY WaitsForKind DEF EntryOf, IsLoop, Frame, Kinds

\* Frames see no more of the reached blocks.
LEMMA FrameAgrees ==
    ASSUME NEW f \in Frame, NEW Q, NEW R, Agree(Q, R, {EntryOf(f)} \cup WaitsFor(f))
    PROVE  /\ FrameReach(f, Q) <=> FrameReach(f, R)
           /\ ConstructOf(f, Q) = ConstructOf(f, R)
  <1>1. /\ EntryOf(f) \in Q <=> EntryOf(f) \in R
        /\ \A b \in WaitsFor(f) : b \in Q <=> b \in R
    BY DEF Agree
  <1>2. /\ IsLoop(f) \/ f.kind = "then" => (f.b3 \in Q <=> f.b3 \in R)
        /\ f.kind \in {"if", "then", "else"} => (f.b2 \in Q <=> f.b2 \in R)
    BY <1>1, FrameBlocks
  <1>3. FrameReach(f, Q) <=> FrameReach(f, R)
    BY <1>1, <1>2 DEF FrameReach
  <1>4. ConstructOf(f, Q) = ConstructOf(f, R)
    <2>1. (EntryOf(f) \in Q) = (EntryOf(f) \in R)  BY <1>1
    <2>2. (f.kind = "else" /\ f.b2 \in Q) = (f.kind = "else" /\ f.b2 \in R)  BY <1>2
    <2>3. QED  BY <2>1, <2>2, Zenon DEF ConstructOf
  <1>5. QED  BY <1>3, <1>4

\* Reached blocks that agree on those of the frames keep what is said of them.
LEMMA FramesKeep ==
    ASSUME NEW fs \in Seq(Frame), NEW R, NEW placed, FramesReach(fs, R, placed),
           NEW Q, Agree(Q, R, placed \cup PendingOf(fs))
    PROVE  /\ FramesReach(fs, Q, placed)
           /\ StackOf(fs, Q) = StackOf(fs, R)
           /\ \A i \in DOMAIN fs : EntryOf(fs[i]) \in Q <=> EntryOf(fs[i]) \in R
  <1>1. \A i \in DOMAIN fs : /\ fs[i] \in Frame /\ EntryOf(fs[i]) \in placed
                             /\ WaitsFor(fs[i]) \subseteq PendingOf(fs)
    BY DEF FramesReach, PendingOf, Elements
  <1>2. \A i \in DOMAIN fs : /\ Agree(Q, R, {EntryOf(fs[i])} \cup WaitsFor(fs[i]))
                             /\ EntryOf(fs[i]) \in Q <=> EntryOf(fs[i]) \in R
    BY <1>1 DEF Agree
  <1>3. \A i \in DOMAIN fs : /\ FrameReach(fs[i], Q) <=> FrameReach(fs[i], R)
                             /\ ConstructOf(fs[i], Q) = ConstructOf(fs[i], R)
    BY <1>1, <1>2, FrameAgrees
  <1>4. FramesReach(fs, Q, placed)
    BY <1>1, <1>2, <1>3 DEF FramesReach
  <1>5. StackOf(fs, Q) = StackOf(fs, R)
    BY <1>3, Zenon DEF StackOf
  <1>6. QED  BY <1>2, <1>4, <1>5

\* A frame is pushed.
LEMMA FramesPush ==
    ASSUME NEW fs \in Seq(Frame), NEW R, NEW placed, FramesReach(fs, R, placed),
           NEW f \in Frame, EntryOf(f) \in placed, FrameReach(f, R),
           Above(EntryOf(f), fs, R)
    PROVE  /\ FramesReach(Append(fs, f), R, placed)
           /\ \A b : (b \in R => EntryOf(f) \in R) => Above(b, Append(fs, f), R)
  <1> DEFINE more == Append(fs, f)
             n == Len(fs)
  <1>1. n \in Nat /\ DOMAIN fs = 1 .. n /\ DOMAIN more = 1 .. n + 1 /\ more[n + 1] = f
        /\ \A i \in 1 .. n : more[i] = fs[i]
    OBVIOUS
  <1> HIDE DEF more, n
  <1>2. \A i \in 1 .. n + 1 : i \in 1 .. n \/ i = n + 1  BY <1>1
  <1>3. \A i \in DOMAIN more : EntryOf(more[i]) \in placed /\ FrameReach(more[i], R)
    BY <1>1, <1>2 DEF FramesReach
  <1>4. ASSUME NEW i \in DOMAIN more, NEW j \in DOMAIN more, j < i, EntryOf(more[i]) \in R
        PROVE  EntryOf(more[j]) \in R
    <2>1. j \in 1 .. n  BY <1>1, <1>4
    <2>2. CASE i \in 1 .. n
      BY <1>1, <1>4, <2>1, <2>2 DEF FramesReach
    <2>3. CASE i = n + 1
      BY <1>1, <1>4, <2>1, <2>3 DEF Above
    <2>4. QED  BY <1>1, <1>2, <2>2, <2>3
  <1>5. ASSUME NEW b, b \in R => EntryOf(f) \in R PROVE Above(b, more, R)
    BY <1>1, <1>2, <1>5 DEF Above
  <1>6. QED  BY <1>3, <1>4, <1>5 DEF FramesReach, more

\* A frame is popped.
LEMMA FramesPop ==
    ASSUME NEW fs \in Seq(Frame), fs # <<>>, NEW R, NEW placed, FramesReach(fs, R, placed)
    PROVE  /\ FramesReach(Front(fs), R, placed)
           /\ EntryOf(Last(fs)) \in placed /\ FrameReach(Last(fs), R)
           /\ Above(EntryOf(Last(fs)), Front(fs), R)
  <1> DEFINE below == Front(fs)
             n == Len(fs)
  <1>1. /\ n \in DOMAIN fs /\ Last(fs) = fs[n]
        /\ \A i \in DOMAIN below : i \in DOMAIN fs /\ below[i] = fs[i]
    BY FrontFacts DEF Last
  <1>2. \A i \in DOMAIN below : i < n
    <2>1. Len(fs) \in Nat /\ \A m \in Nat : DOMAIN SubSeq(fs, 1, m - 1) = 1 .. m - 1
      OBVIOUS
    <2>2. DOMAIN below = 1 .. n - 1  BY <2>1 DEF Front
    <2>3. QED  BY <2>1, <2>2
  <1> HIDE DEF below, n
  <1>3. QED  BY <1>1, <1>2 DEF FramesReach, Above, below

\* The abstract stack of frames with one more.
LEMMA StackAppend ==
    ASSUME NEW fs \in Seq(Frame), NEW f \in Frame, NEW R
    PROVE  /\ StackOf(Append(fs, f), R) = Append(StackOf(fs, R), ConstructOf(f, R))
           /\ \A V : (\A g \in Frame : ConstructOf(g, R) \in V) => StackOf(fs, R) \in Seq(V)
  <1> DEFINE more == Append(fs, f)
             n == Len(fs)
             V0 == {ConstructOf(g, R) : g \in Frame}
             t == StackOf(fs, R)
             u == StackOf(more, R)
  <1>1. n \in Nat /\ DOMAIN fs = 1 .. n /\ DOMAIN more = 1 .. n + 1 /\ more[n + 1] = f
        /\ \A i \in 1 .. n : more[i] = fs[i] /\ fs[i] \in Frame
    OBVIOUS
  <1> HIDE DEF more, n
  <1>2. \A i \in 1 .. n + 1 : i \in 1 .. n \/ i = n + 1  BY <1>1
  <1>3. \A i \in 1 .. n : i \in 1 .. n + 1  BY <1>1
  <1>4. n + 1 \in 1 .. n + 1  BY <1>1
  <1>5. t \in [1 .. n -> V0]
    <2>1. \A i \in 1 .. n : ConstructOf(fs[i], R) \in V0  BY <1>1
    <2> HIDE DEF V0
    <2>2. QED  BY <1>1, <2>1, Zenon DEF StackOf
  <1>6. u \in [1 .. n + 1 -> V0]
    <2>1. \A i \in 1 .. n + 1 : ConstructOf(more[i], R) \in V0  BY <1>1, <1>2
    <2> HIDE DEF V0
    <2>2. QED  BY <1>1, <2>1, Zenon DEF StackOf
  <1>7. u[n + 1] = ConstructOf(f, R) /\ \A i \in 1 .. n : u[i] = t[i]
    <2> HIDE DEF V0
    <2>1. \A i \in 1 .. n + 1 : u[i] = ConstructOf(more[i], R)  BY <1>1 DEF StackOf
    <2>2. \A i \in 1 .. n : t[i] = ConstructOf(fs[i], R)  BY <1>1 DEF StackOf
    <2> HIDE DEF t, u
    <2>3. QED  BY <1>1, <1>3, <1>4, <2>1, <2>2
  <1>8. u = Append(t, u[n + 1])
    <2> HIDE DEF V0, t, u
    <2>1. t \in Seq(V0) /\ Len(t) = n  BY <1>1, <1>5
    <2>2. QED  BY <1>6, <1>7, <2>1, IsAppend
  <1>9. ASSUME NEW V, \A g \in Frame : ConstructOf(g, R) \in V PROVE t \in Seq(V)
    <2>1. \A i \in 1 .. n : ConstructOf(fs[i], R) \in V  BY <1>1, <1>9
    <2>2. t \in [1 .. n -> V]  BY <1>1, <2>1, Zenon DEF StackOf
    <2> HIDE DEF t
    <2>3. QED  BY <1>1, <2>2
  <1> HIDE DEF t, u
  <1>10. QED  BY <1>7, <1>8, <1>9 DEF t, u, more

\* The abstract stack of frames, top and below.
LEMMA StackPop ==
    ASSUME NEW fs \in Seq(Frame), fs # <<>>, NEW R
    PROVE  /\ StackOf(fs, R) = Append(StackOf(Front(fs), R), ConstructOf(Last(fs), R))
           /\ Front(fs) \in Seq(Frame) /\ Last(fs) \in Frame
  <1>1. Front(fs) \in Seq(Frame) /\ Last(fs) \in Frame /\ fs = Append(Front(fs), Last(fs))
    BY FrontFacts, FrontAppend
  <1>2. StackOf(Append(Front(fs), Last(fs)), R)
           = Append(StackOf(Front(fs), R), ConstructOf(Last(fs), R))
    BY <1>1, StackAppend
  <1>3. QED  BY <1>1, <1>2

-----------------------------------------------------------------------------
(* The abstract state before and after a step.                             *)

\* The fields of a construct.
LEMMA ConstructFields ==
    ASSUME NEW f \in Frame, NEW R
    PROVE  /\ ConstructOf(f, R) = [kind |-> ConstructOf(f, R).kind,
                                   in   |-> ConstructOf(f, R).in,
                                   out  |-> ConstructOf(f, R).out]
           /\ IsLoop(f) => ConstructOf(f, R).kind = "loop"
           /\ ~IsLoop(f) => ConstructOf(f, R).kind = f.kind
           /\ ConstructOf(f, R).in = (EntryOf(f) \in R)
           /\ ConstructOf(f, R).out = (f.kind = "else" /\ f.b2 \in R)
  <1>1. /\ ConstructOf(f, R).in = (EntryOf(f) \in R)
        /\ ConstructOf(f, R).out = (f.kind = "else" /\ f.b2 \in R)
        /\ ConstructOf(f, R).kind = IF IsLoop(f) THEN "loop" ELSE f.kind
    BY Zenon DEF ConstructOf
  <1>2. ConstructOf(f, R) = [kind |-> ConstructOf(f, R).kind,
                             in   |-> ConstructOf(f, R).in,
                             out  |-> ConstructOf(f, R).out]
    BY <1>1, Zenon DEF ConstructOf
  <1>3. QED  BY <1>1, <1>2

\* The top of the abstract stack and what is below it.
LEMMA StackTop ==
    ASSUME IInv, frames # <<>>, NEW s, s = StackOf(Front(frames), Reached)
    PROVE  /\ stackBar # <<>> /\ stackBar = StackOf(frames, Reached)
           /\ stackBar = Append(s, ConstructOf(TopFrame, Reached))
           /\ Structured!Top = ConstructOf(TopFrame, Reached)
           /\ Structured!Pop = s
           /\ Len(stackBar) \in DOMAIN stackBar
           /\ TopFrame \in Frame /\ Front(frames) \in Seq(Frame)
  <1> DEFINE V == {ConstructOf(g, Reached) : g \in Frame}
             c == ConstructOf(TopFrame, Reached)
  <1>1. /\ frames \in Seq(Frame) /\ Front(frames) \in Seq(Frame) /\ TopFrame \in Frame
        /\ StackOf(frames, Reached) = Append(s, c)
    BY StackPop DEF IInv, TypeOK, TopFrame
  <1>2. stackBar = StackOf(frames, Reached)  BY DEF stackBar, StackOf
  <1>3. \A g \in Frame : ConstructOf(g, Reached) \in V  OBVIOUS
  <1>4. c \in V  BY <1>1
  <1> HIDE DEF V, c
  <1>5. s \in Seq(V)  BY <1>1, <1>3, StackAppend
  <1>6. /\ Append(s, c) # <<>> /\ Append(s, c)[Len(Append(s, c))] = c
        /\ Len(Append(s, c)) \in DOMAIN Append(s, c)
    BY <1>4, <1>5
  <1>7. Front(Append(s, c)) = s  BY <1>4, <1>5, FrontAppend
  <1>8. QED
    BY <1>1, <1>2, <1>6, <1>7 DEF Structured!Top, Structured!Pop, Front, c

\* The abstract state of the next state.
LEMMA BarNext ==
    ASSUME GInv, inFunc, inFunc' = inFunc, layout'[1] = layout[1],
           NEW cd \in Code, code' = cd, NEW R, IsReach(R, Jumps(cd), layout[1])
    PROVE  /\ Reached' = R
           /\ stackBar' = StackOf(frames', R)
           /\ liveBar' = (insertPt' \in R /\ ~Stops(cd[insertPt']))
  <1>1. Reached' = R  BY ReachedNext
  <1>2. stackBar' = StackOf(frames', Reached')
    BY Zenon DEF stackBar, StackOf
  <1>3. liveBar' = (insertPt' \in Reached' /\ ~Stops(code'[insertPt']))
    BY Zenon DEF liveBar, HasTerminator
  <1>4. QED  BY <1>1, <1>2, <1>3, Zenon

\* A block that is placed last.
LEMMA PlacedNext ==
    ASSUME IInv, inFunc, NEW b \in Block, ContinueIn(b)
    PROVE  layout'[1] = layout[1] /\ Placed' = Placed \cup {b} /\ insertPt' = b
  <1>1. layout \in Seq(Block) /\ layout # <<>> /\ layout' = Append(layout, b)
        /\ insertPt' = b
    BY InsideFacts DEF ContinueIn
  <1>2. Placed' = Placed \cup {b}
    BY <1>1, AppendFacts DEF Placed, Elements
  <1>3. layout'[1] = layout[1]
    <2>1. 1 \in DOMAIN layout  BY <1>1
    <2>2. QED  BY <1>1, <2>1
  <1>4. QED  BY <1>1, <1>2, <1>3

-----------------------------------------------------------------------------
(* Statements without a nested one.                                        *)

\* What emits no terminator is a stuttering step of the abstract specification.
LEMMA QuietStutters ==
    ASSUME GInv, ReachOK, NEW cd, Quiet(cd, code), code' = cd, inFunc,
           UNCHANGED <<layout, insertPt, inFunc, frames>>
    PROVE  ReachOK' /\ UNCHANGED Structured!svars
  <1>1. IsReach(Reached, Jumps(cd), layout[1]) /\ cd \in Code /\ insertPt \in Block
    BY ReachQuiet, ReachedFacts DEF Quiet
  <1>2. /\ Reached' = Reached /\ stackBar' = StackOf(frames', Reached)
        /\ liveBar' = (insertPt' \in Reached /\ ~Stops(cd[insertPt']))
    BY <1>1, BarNext
  <1>3. Placed' = Placed  BY DEF Placed, Elements
  <1>4. ReachOK'  BY <1>2, <1>3 DEF ReachOK
  <1>5. stackBar' = stackBar  BY <1>2 DEF stackBar, StackOf
  <1>6. Stops(cd[insertPt]) = Stops(code[insertPt])  BY <1>1, Zenon DEF Quiet, Stops
  <1>7. liveBar' = liveBar  BY <1>2, <1>6, Zenon DEF liveBar, HasTerminator
  <1>8. QED  BY <1>4, <1>5, <1>7 DEF Structured!svars

\* A terminator that leads to reached blocks kills what follows, and nothing else.
LEMMA LeavingKills ==
    ASSUME GInv, ReachOK, inFunc, NEW T \in SUBSET Block, liveBar => T \subseteq Reached,
           NEW cd, Leaves(cd, code, insertPt, T), code' = cd,
           UNCHANGED <<layout, insertPt, inFunc, frames>>
    PROVE  ReachOK' /\ stackBar' = stackBar /\ liveBar' = FALSE /\ inFunc' = inFunc
  <1>1. IsReach(Reached, Jumps(cd), layout[1])
    <2>1. IsReach(IF liveBar THEN Reached \cup T ELSE Reached, Jumps(cd), layout[1])
      BY ReachLeaves
    <2>2. (IF liveBar THEN Reached \cup T ELSE Reached) = Reached  OBVIOUS
    <2>3. QED  BY <2>1, <2>2
  <1>2. cd \in Code /\ Stops(cd[insertPt])  BY DEF Leaves
  <1>3. /\ Reached' = Reached /\ stackBar' = StackOf(frames', Reached)
        /\ liveBar' = (insertPt' \in Reached /\ ~Stops(cd[insertPt']))
    BY <1>1, <1>2, BarNext
  <1>4. Placed' = Placed  BY DEF Placed, Elements
  <1>5. ReachOK'  BY <1>3, <1>4 DEF ReachOK
  <1>6. stackBar' = stackBar  BY <1>3 DEF stackBar, StackOf
  <1>7. liveBar' = FALSE  BY <1>2, <1>3, Zenon
  <1>8. QED  BY <1>5, <1>6, <1>7

-----------------------------------------------------------------------------
(* Constructs.                                                             *)

\* New blocks are not known.
LEMMA NewUnknown ==
    ASSUME GInv, inFunc, NEW T, T \subseteq nblk + 1 .. MaxBlocks
    PROVE  /\ T \in SUBSET Block /\ T \cap Known = {} /\ T \cap Reached = {}
           /\ T \subseteq Unwritten
  <1>1. /\ nblk \in Nat /\ MaxBlocks \in Nat /\ Placed \subseteq 1 .. nblk
        /\ Pending \subseteq 1 .. nblk /\ Unwritten \in SUBSET Block
    BY GraphFacts DEF GInv, GraphOK
  <1>2. T \subseteq Unwritten  BY DEF Unwritten, Uncreated
  <1>3. \A b \in 1 .. nblk : b \notin nblk + 1 .. MaxBlocks  BY <1>1
  <1>4. T \cap Known = {}  BY <1>1, <1>3 DEF Known
  <1>5. Reached \subseteq Known  BY ReachedFacts
  <1>6. QED  BY <1>1, <1>2, <1>4, <1>5

\* A construct is entered: of its new blocks those that it leads to are reached if the
\* statement is live, and it goes on in one of them.
LEMMA PushReach ==
    ASSUME GInv, ReachOK, inFunc, inFunc' = inFunc, layout'[1] = layout[1],
           NEW T, T \subseteq nblk + 1 .. MaxBlocks,
           NEW cd \in Code, code' = cd,
           IsReach(IF liveBar THEN Reached \cup T ELSE Reached, Jumps(cd), layout[1]),
           insertPt' \in T, ~Stops(cd[insertPt']),
           NEW f \in Frame, frames' = Append(frames, f),
           EntryOf(f) \in T, EntryOf(f) \in Placed', Placed \subseteq Placed',
           IsLoop(f) => f.b3 \in T,
           f.kind = "if" => f.b2 \in T,
           f.kind = "then" => f.b3 \in T /\ f.b2 \notin T /\ f.b2 \notin Known,
           f.kind # "else"
    PROVE  /\ ReachOK'
           /\ stackBar' = Append(stackBar, [kind |-> IF IsLoop(f) THEN "loop" ELSE f.kind,
                                            in |-> liveBar, out |-> FALSE])
           /\ liveBar' = liveBar
  <1>0. PICK R, more : /\ R = IF liveBar THEN Reached \cup T ELSE Reached
                       /\ more = Placed'
    OBVIOUS
  <1>1. /\ T \in SUBSET Block /\ T \cap Known = {} /\ T \cap Reached = {}
        /\ Reached \subseteq Known /\ frames \in Seq(Frame)
    BY NewUnknown, ReachedFacts DEF GInv, IInv, TypeOK
  <1>2. /\ Reached' = R /\ stackBar' = StackOf(frames', R)
        /\ liveBar' = (insertPt' \in R /\ ~Stops(cd[insertPt']))
    BY <1>0, BarNext
  <1>3. \A b \in T : b \in R <=> liveBar  BY <1>0, <1>1
  <1>4. Agree(R, Reached, Placed \cup PendingOf(frames))
    <2>1. Placed \cup PendingOf(frames) = Known  BY DEF Known, Pending, PendingOf
    <2>2. QED  BY <1>0, <1>1, <2>1 DEF Agree
  <1>5. f.kind = "then" => f.b2 \notin R  BY <1>0, <1>1
  <1>6. /\ FramesReach(frames, Reached, Placed) /\ Above(insertPt, frames, Reached)
    BY DEF ReachOK
  <1>7. /\ FramesReach(frames, R, more) /\ StackOf(frames, R) = StackOf(frames, Reached)
        /\ \A i \in DOMAIN frames : EntryOf(frames[i]) \in R <=> EntryOf(frames[i]) \in Reached
    <2>1. Placed \subseteq more  BY <1>0
    <2>2. frames \in Seq(Frame) /\ FramesReach(frames, Reached, Placed)  BY <1>1, <1>6
    <2>3. /\ FramesReach(frames, R, Placed) /\ StackOf(frames, R) = StackOf(frames, Reached)
          /\ \A i \in DOMAIN frames : EntryOf(frames[i]) \in R <=> EntryOf(frames[i]) \in Reached
      BY <1>4, <2>2, FramesKeep
    <2>4. FramesReach(frames, R, more)  BY <2>1, <2>3 DEF FramesReach
    <2>5. QED  BY <2>3, <2>4
  <1>8. FrameReach(f, R)
    <2>1. \A b, c \in T : b \in R <=> c \in R  BY <1>3
    <2>2. f.kind # "else"  OBVIOUS
    <2>3. QED  BY <1>5, <2>1, <2>2 DEF FrameReach
  <1>9. Above(EntryOf(f), frames, R)
    <2>1. liveBar => insertPt \in Reached  BY DEF liveBar
    <2>2. SUFFICES ASSUME EntryOf(f) \in R, NEW i \in DOMAIN frames
                   PROVE  EntryOf(frames[i]) \in R
      BY DEF Above
    <2>3. insertPt \in Reached  BY <1>3, <2>1, <2>2
    <2>4. EntryOf(frames[i]) \in Reached  BY <1>6, <2>3 DEF Above
    <2>5. QED  BY <1>7, <2>4
  <1>10. /\ FramesReach(Append(frames, f), R, more)
         /\ \A b : (b \in R => EntryOf(f) \in R) => Above(b, Append(frames, f), R)
    <2>1. EntryOf(f) \in more  BY <1>0
    <2>2. QED  BY <1>1, <1>7, <1>8, <1>9, <2>1, FramesPush
  <1>11. ReachOK'
    <2>1. FramesReach(frames', Reached', Placed')  BY <1>0, <1>2, <1>10
    <2>2. Above(insertPt', frames', Reached')  BY <1>2, <1>3, <1>10
    <2>3. QED  BY <2>1, <2>2 DEF ReachOK
  <1>12. liveBar' = liveBar
    <2>1. liveBar' <=> liveBar
      <3>1. insertPt' \in R <=> liveBar  BY <1>3
      <3>2. QED  BY <1>2, <3>1
    <2>2. liveBar \in BOOLEAN /\ liveBar' \in BOOLEAN  BY Zenon DEF liveBar
    <2>3. QED  BY <2>1, <2>2
  <1>13. ConstructOf(f, R) = [kind |-> IF IsLoop(f) THEN "loop" ELSE f.kind,
                              in |-> liveBar, out |-> FALSE]
    <2>1. (EntryOf(f) \in R) = liveBar
      <3>1. EntryOf(f) \in R <=> liveBar  BY <1>3
      <3>2. liveBar \in BOOLEAN  BY Zenon DEF liveBar
      <3>3. QED  BY <3>1, <3>2
    <2>2. (f.kind = "else" /\ f.b2 \in R) = FALSE  OBVIOUS
    <2>3. QED  BY <2>1, <2>2, Zenon DEF ConstructOf
  <1>14. stackBar' = Append(stackBar, ConstructOf(f, R))
    <2>1. StackOf(Append(frames, f), R) = Append(StackOf(frames, R), ConstructOf(f, R))
      BY <1>1, StackAppend
    <2>2. stackBar = StackOf(frames, Reached)  BY DEF stackBar, StackOf
    <2>3. QED  BY <1>2, <1>7, <2>1, <2>2
  <1>15. QED  BY <1>11, <1>12, <1>13, <1>14

\* A construct is left, and the block b is placed: the frames below see what they saw.
LEMMA PopReach ==
    ASSUME GInv, ReachOK, inFunc, frames # <<>>,
           NEW R, Agree(R, Reached, Placed \cup PendingOf(Front(frames))),
           NEW b, b \in R => EntryOf(TopFrame) \in Reached
    PROVE  /\ FramesReach(Front(frames), R, Placed \cup {b})
           /\ Above(b, Front(frames), R)
           /\ StackOf(Front(frames), R) = StackOf(Front(frames), Reached)
  <1> DEFINE below == Front(frames)
  <1>1. frames \in Seq(Frame) /\ FramesReach(frames, Reached, Placed)
    BY DEF GInv, IInv, TypeOK, ReachOK
  <1>2. /\ below \in Seq(Frame)
        /\ FramesReach(below, Reached, Placed)
        /\ Above(EntryOf(TopFrame), below, Reached)
    BY <1>1, FramesPop, FrontFacts DEF TopFrame
  <1> HIDE DEF below
  <1>3. /\ FramesReach(below, R, Placed \cup {b}) /\ StackOf(below, R) = StackOf(below, Reached)
        /\ \A i \in DOMAIN below : EntryOf(below[i]) \in R <=> EntryOf(below[i]) \in Reached
    <2>1. /\ FramesReach(below, R, Placed) /\ StackOf(below, R) = StackOf(below, Reached)
          /\ \A i \in DOMAIN below : EntryOf(below[i]) \in R <=> EntryOf(below[i]) \in Reached
      BY <1>2, FramesKeep DEF below
    <2>2. FramesReach(below, R, Placed \cup {b})  BY <2>1 DEF FramesReach
    <2>3. QED  BY <2>1, <2>2
  <1>4. Above(b, below, R)  BY <1>2, <1>3 DEF Above
  <1>5. QED  BY <1>3, <1>4 DEF below

-----------------------------------------------------------------------------
(* Every step of the builder is a step of StructuredFlow or a stutter.      *)

\* From a live statement they are reached.
LEMMA JumpsReach ==
    ASSUME GInv, ReachOK, inFunc, NEW i \in DOMAIN frames, IsLoop(frames[i])
    PROVE  /\ liveBar => frames[i].b3 \in Reached /\ frames[i].b1 \in Reached
           /\ stackBar[i].kind = "loop" /\ i \in DOMAIN stackBar
           /\ frames[i].b3 \in Block /\ frames[i].b1 \in Block
  <1>1. /\ EntryOf(frames[i]) = frames[i].b1 /\ frames[i].b1 \in Block
        /\ frames[i] \in Frame
    <2>1. frames \in Seq(Frame)  BY DEF GInv, IInv, TypeOK
    <2>2. frames[i] \in Frame  BY <2>1
    <2>3. QED  BY <2>2 DEF Frame, EntryOf, IsLoop
  <1>2. frames[i].b3 # NoBlock  BY DEF GInv, IInv, FramesOK, IsLoop
  <1>3. frames[i].b3 \in Block  BY <1>1, <1>2 DEF Frame
  <1>4. liveBar => EntryOf(frames[i]) \in Reached
    BY DEF ReachOK, Above, liveBar
  <1>5. EntryOf(frames[i]) \in Reached <=> frames[i].b3 \in Reached
    BY DEF ReachOK, FramesReach, FrameReach
  <1>6. i \in DOMAIN stackBar /\ stackBar[i] = ConstructOf(frames[i], Reached)
    BY Zenon DEF stackBar
  <1>7. stackBar[i].kind = "loop"  BY <1>1, <1>6, ConstructFields
  <1>8. QED  BY <1>1, <1>3, <1>4, <1>5, <1>6, <1>7

\* Expressions and declarations stutter.
LEMMA QuietSteps ==
    ASSUME GInv, ReachOK, VisitExprStmt \/ VisitVariable
    PROVE  ReachOK' /\ UNCHANGED Structured!svars
  <1>1. PICK cd : Simple(cd) /\ (\/ cd = Emit(code, insertPt, Inst)
                                 \/ cd = Emit(code, layout[1], Alloca)
                                 \/ cd = Emit(Emit(code, layout[1], Alloca), insertPt, Inst))
    <2>1. CASE VisitExprStmt  BY <2>1 DEF VisitExprStmt
    <2>2. CASE VisitVariable  BY <2>2 DEF VisitVariable
    <2>3. QED  BY <2>1, <2>2
  <1>2. inFunc /\ code' = cd /\ UNCHANGED <<layout, insertPt, inFunc, frames>>
    BY <1>1 DEF Simple, Statement
  <1>3. code \in Code /\ insertPt \in Block /\ layout[1] \in Block
    BY <1>2, ReachedFacts
  <1>4. /\ Inst \in Instr /\ Alloca \in Instr
        /\ Inst.op \notin TermOps /\ Alloca.op \notin TermOps
    BY DEF Inst, Alloca, Instr, TermOps
  <1>5. Quiet(code, code)  BY <1>3, Zenon DEF Quiet
  <1>6. Quiet(Emit(code, insertPt, Inst), code) /\ Quiet(Emit(code, layout[1], Alloca), code)
    BY <1>3, <1>4, <1>5, EmitQuiet
  <1> DEFINE mid == Emit(code, layout[1], Alloca)
  <1>7. Quiet(mid, code) /\ mid \in Code  BY <1>6 DEF Quiet
  <1> HIDE DEF mid
  <1>8. Quiet(Emit(mid, insertPt, Inst), code)  BY <1>3, <1>4, <1>7, EmitQuiet
  <1>9. Quiet(cd, code)  BY <1>1, <1>6, <1>8 DEF mid
  <1>10. QED  BY <1>2, <1>9, QuietStutters

\* return, break and continue.
LEMMA KillingSteps ==
    ASSUME GInv, ReachOK, VisitReturn \/ VisitBreak \/ VisitContinue
    PROVE  ReachOK' /\ (Structured!Return \/ Structured!LoopJump)
  <1>1. PICK i, T : /\ Simple(Emit(code, insertPt, i))
                    /\ i \in Instr /\ i.op \in TermOps /\ i.to = T /\ T \in SUBSET Block
                    /\ liveBar => T \subseteq Reached
                    /\ \/ VisitReturn
                       \/ \E n \in DOMAIN stackBar : stackBar[n].kind = "loop"
    <2>1. CASE VisitReturn
      <3>1. Ret \in Instr /\ Ret.op \in TermOps /\ Ret.to = {}
        BY DEF Ret, Instr, TermOps
      <3>2. QED  BY <2>1, <3>1 DEF VisitReturn
    <2>2. ASSUME inFunc, NEW n \in DOMAIN frames, IsLoop(frames[n]), NEW c,
                 c \in {frames[n].b1, frames[n].b3}
          PROVE  /\ Br(c) \in Instr /\ Br(c).op \in TermOps /\ Br(c).to = {c}
                 /\ {c} \in SUBSET Block /\ (liveBar => {c} \subseteq Reached)
                 /\ \E m \in DOMAIN stackBar : stackBar[m].kind = "loop"
      <3>1. c \in Block /\ (liveBar => c \in Reached)
            /\ \E m \in DOMAIN stackBar : stackBar[m].kind = "loop"
        BY <2>2, JumpsReach
      <3>2. Br(c) \in Instr /\ Br(c).op \in TermOps  BY <3>1, InstrTypes
      <3>3. Br(c).to = {c}  BY DEF Br
      <3>4. QED  BY <3>1, <3>2, <3>3
    <2>3. CASE VisitBreak
      <3>1. /\ inFunc /\ afterStack # <<>>
            /\ Simple(Emit(code, insertPt, Br(Last(afterStack))))
        BY <2>3 DEF VisitBreak, Simple, Statement
      <3>2. PICK n \in DOMAIN frames :
               IsLoop(frames[n]) /\ Last(afterStack) = frames[n].b3
        BY <3>1, JumpFrames DEF GInv
      <3>3. QED  BY <2>2, <3>1, <3>2
    <2>4. CASE VisitContinue
      <3>1. /\ inFunc /\ condStack # <<>>
            /\ Simple(Emit(code, insertPt, Br(Last(condStack))))
        BY <2>4 DEF VisitContinue, Simple, Statement
      <3>2. PICK n \in DOMAIN frames :
               IsLoop(frames[n]) /\ Last(condStack) = frames[n].b1
        BY <3>1, JumpFrames DEF GInv
      <3>3. QED  BY <2>2, <3>1, <3>2
    <2>5. QED  BY <2>1, <2>3, <2>4
  <1> DEFINE cd == Emit(code, insertPt, i)
  <1>2. inFunc /\ code' = cd /\ UNCHANGED <<layout, insertPt, inFunc, frames>>
    BY <1>1 DEF Simple, Statement
  <1>3. code \in Code /\ insertPt \in Block  BY <1>2, ReachedFacts
  <1>4. Quiet(code, code)  BY <1>3, Zenon DEF Quiet
  <1>5. Leaves(cd, code, insertPt, T)  BY <1>1, <1>3, <1>4, EmitLeaves
  <1> HIDE DEF cd
  <1>6. ReachOK' /\ stackBar' = stackBar /\ liveBar' = FALSE /\ inFunc' = inFunc
    BY <1>1, <1>2, <1>5, LeavingKills
  <1>7. CASE VisitReturn
    BY <1>2, <1>6 DEF Structured!Return
  <1>8. CASE \E n \in DOMAIN stackBar : stackBar[n].kind = "loop"
    BY <1>2, <1>6, <1>8 DEF Structured!LoopJump
  <1>9. QED  BY <1>1, <1>6, <1>7, <1>8

\* Loops are entered.
LEMMA EnterLoopStep ==
    ASSUME GInv, ReachOK, EnterFor \/ EnterWhile
    PROVE  ReachOK' /\ Structured!Enter
  <1> DEFINE cond == nblk + 1
             body == nblk + 2
             after == nblk + 3
             T == {cond, body, after}
             mid == Emit(code, insertPt, Br(cond))
             cd == Emit(mid, cond, CondBr(body, after))
  <1>1. PICK kind \in {"for", "while"} : EnterLoop(kind)
    BY DEF EnterFor, EnterWhile
  <1> DEFINE f == [kind |-> kind, b1 |-> cond, b2 |-> body, b3 |-> after]
  <1>2. /\ inFunc /\ inFunc' = inFunc /\ nblk + 3 <= MaxBlocks /\ code' = cd
        /\ frames' = Append(frames, f) /\ insertPt' = body
        /\ layout' = layout \o <<cond, body>>
    BY <1>1 DEF EnterLoop, Statement
  <1>3. /\ nblk \in Nat /\ MaxBlocks \in Nat /\ code \in Code /\ insertPt \in Block
        /\ insertPt \notin Unwritten
        /\ \A b \in Unwritten : Exits(code[b]) = {} /\ ~Stops(code[b])
    BY <1>2, GraphFacts, ReachedFacts DEF GInv
  <1>4. /\ T \subseteq nblk + 1 .. MaxBlocks
        /\ cond # body /\ cond # after /\ body # after
    BY <1>2, <1>3
  <1>5. T \in SUBSET Block /\ T \subseteq Unwritten  BY <1>2, <1>4, NewUnknown
  <1>6. f \in Frame /\ IsLoop(f) /\ f.b3 = after /\ EntryOf(f) = cond
        /\ f.kind = kind /\ f.kind \notin {"if", "then", "else"}
    BY <1>5 DEF Frame, Kinds, IsLoop, EntryOf
  <1>7. layout'[1] = layout[1] /\ Placed' = Placed \cup {cond, body}
    <2>1. layout \in Seq(Block) /\ layout # <<>>  BY <1>2, InsideFacts DEF GInv
    <2>2. \A i \in DOMAIN layout' :
              \/ i \in DOMAIN layout /\ layout'[i] = layout[i]
              \/ i = Len(layout) + 1 /\ layout'[i] = cond
              \/ i = Len(layout) + 2 /\ layout'[i] = body
      BY <1>2, <1>3, <2>1
    <2>3. /\ \A i \in DOMAIN layout : i \in DOMAIN layout' /\ layout'[i] = layout[i]
          /\ Len(layout) + 1 \in DOMAIN layout' /\ layout'[Len(layout) + 1] = cond
          /\ Len(layout) + 2 \in DOMAIN layout' /\ layout'[Len(layout) + 2] = body
          /\ 1 \in DOMAIN layout
      BY <1>2, <1>3, <2>1
    <2>4. QED  BY <2>2, <2>3 DEF Placed, Elements
  <1> HIDE DEF cond, body, after
  <1>8. /\ Br(cond) \in Instr /\ Br(cond).op \in TermOps /\ Br(cond).to = {cond}
        /\ CondBr(body, after) \in Instr /\ CondBr(body, after).op \in TermOps
        /\ CondBr(body, after).to = {body, after}
    BY <1>5, InstrTypes DEF Br, CondBr
  <1>9. /\ Leaves(mid, code, insertPt, {cond}) /\ mid \in Code
    <2>1. Quiet(code, code)  BY <1>3, Zenon DEF Quiet
    <2>2. Leaves(mid, code, insertPt, Br(cond).to)  BY <1>3, <1>8, <2>1, EmitLeaves
    <2>3. QED  BY <1>8, <2>2 DEF Leaves
  <1> HIDE DEF mid
  <1>10. Leaves(cd, mid, cond, {body, after}) /\ cd \in Code
    <2>1. Quiet(mid, mid)  BY <1>9, Zenon DEF Quiet
    <2>2. Leaves(cd, mid, cond, CondBr(body, after).to)
      BY <1>5, <1>8, <1>9, <2>1, EmitLeaves
    <2>3. QED  BY <1>8, <2>2 DEF Leaves
  <1> HIDE DEF cd, f
  <1>11. insertPt \notin T  BY <1>3, <1>5
  <1>12. /\ Exits(cd[insertPt]) = IF Stops(code[insertPt]) THEN Exits(code[insertPt])
                                  ELSE {cond}
         /\ Exits(cd[cond]) = {body, after}
         /\ Exits(cd[body]) = {} /\ ~Stops(cd[body]) /\ Exits(cd[after]) = {}
         /\ \A b \in Block \ (T \cup {insertPt}) : Exits(cd[b]) = Exits(code[b])
    <2>1. cond \in Unwritten /\ body \in Unwritten /\ after \in Unwritten
          /\ cond # insertPt /\ body # insertPt /\ after # insertPt
      BY <1>5, <1>11
    <2>2. \A b \in Block : b # insertPt => Exits(mid[b]) = Exits(code[b])
                                           /\ (Stops(mid[b]) <=> Stops(code[b]))
      BY <1>9 DEF Leaves
    <2>3. \A b \in Block : b # cond => Exits(cd[b]) = Exits(mid[b])
                                       /\ (Stops(cd[b]) <=> Stops(mid[b]))
      BY <1>10 DEF Leaves
    <2>4. Exits(cd[cond]) = {body, after}
      BY <1>3, <1>5, <1>10, <2>1, <2>2 DEF Leaves
    <2>5. Exits(mid[insertPt]) = IF Stops(code[insertPt]) THEN Exits(code[insertPt])
                                 ELSE {cond}
      BY <1>9 DEF Leaves
    <2>6. QED  BY <1>3, <1>4, <1>5, <2>1, <2>2, <2>3, <2>4, <2>5
  <1>13. IsReach(IF liveBar THEN Reached \cup T ELSE Reached, Jumps(cd), layout[1])
    <2>1. \A b \in Block \ {insertPt} : b \in Reached => Exits(cd[b]) = Exits(code[b])
      <3>1. T \cap Reached = {}  BY <1>2, <1>4, NewUnknown
      <3> HIDE DEF T
      <3>2. QED  BY <1>12, <3>1
    <2>2. liveBar => ~Stops(code[insertPt])  BY DEF liveBar, HasTerminator
    <2>3. Stops(code[insertPt]) => Exits(cd[insertPt]) = Exits(code[insertPt])
      BY <1>12
    <2>4. liveBar =>
            /\ Exits(cd[insertPt]) \subseteq T
            /\ \A b \in T : b \in Reached \/ Exits(cd[b]) \subseteq T
            /\ \A t \in T : \/ t \in Exits(cd[insertPt])
                            \/ \E c \in Exits(cd[insertPt]) : t \in Exits(cd[c])
      BY <1>12, <2>2
    <2> HIDE DEF T
    <2>5. QED  BY <1>2, <1>5, <1>10, <2>1, <2>3, <2>4, ReachStep
  <1>14. /\ ReachOK' /\ liveBar' = liveBar
         /\ stackBar' = Append(stackBar, [kind |-> "loop", in |-> liveBar, out |-> FALSE])
    <2>1. insertPt' \in T /\ ~Stops(cd[insertPt']) /\ EntryOf(f) \in T /\ f.b3 \in T
          /\ EntryOf(f) \in Placed' /\ Placed \subseteq Placed'
      BY <1>2, <1>6, <1>7, <1>12
    <2> HIDE DEF T
    <2>2. /\ ReachOK' /\ liveBar' = liveBar
          /\ stackBar' = Append(stackBar, [kind |-> IF IsLoop(f) THEN "loop" ELSE f.kind,
                                           in |-> liveBar, out |-> FALSE])
      BY <1>2, <1>4, <1>6, <1>7, <1>10, <1>13, <2>1, PushReach
    <2>3. (IF IsLoop(f) THEN "loop" ELSE f.kind) = "loop"  BY <1>6
    <2>4. QED  BY <2>2, <2>3, Zenon
  <1>15. QED  BY <1>2, <1>14, Zenon DEF Structured!Enter

\* Conditionals are entered.
LEMMA EnterBranchStep ==
    ASSUME GInv, ReachOK, EnterIf \/ EnterIfElse
    PROVE  ReachOK' /\ Structured!Enter
  <1> DEFINE body == nblk + 1
             after == nblk + 2
  <1>1. PICK kind \in {"if", "then"}, created \in {2, 3}, other \in Nat, else \in Nat :
           /\ EnterBranch(kind, created, other, else)
           /\ \/ kind = "if" /\ created = 2 /\ other = nblk + 2 /\ else = NoBlock
              \/ kind = "then" /\ created = 3 /\ other = nblk + 3 /\ else = nblk + 3
    <2>1. nblk + 2 \in Nat /\ nblk + 3 \in Nat /\ NoBlock \in Nat
      BY DEF GInv, IInv, TypeOK, NoBlock
    <2>2. QED  BY <2>1 DEF EnterIf, EnterIfElse
  <1> DEFINE f == [kind |-> kind, b1 |-> body, b2 |-> after, b3 |-> else]
             T == {body, other}
             cd == Emit(code, insertPt, CondBr(body, other))
  <1>2. /\ inFunc /\ inFunc' = inFunc /\ nblk + created <= MaxBlocks /\ code' = cd
        /\ frames' = Append(frames, f) /\ ContinueIn(body)
    BY <1>1 DEF EnterBranch, Statement
  <1>3. /\ nblk \in Nat /\ MaxBlocks \in Nat /\ code \in Code /\ insertPt \in Block
        /\ insertPt \notin Unwritten
        /\ \A b \in Unwritten : Exits(code[b]) = {} /\ ~Stops(code[b])
    BY <1>2, GraphFacts, ReachedFacts DEF GInv
  <1>4. /\ T \subseteq nblk + 1 .. MaxBlocks /\ {after} \subseteq nblk + 1 .. MaxBlocks
        /\ body # other /\ body # after
        /\ kind = "then" => other # after
    BY <1>1, <1>2, <1>3
  <1>5. T \in SUBSET Block /\ T \subseteq Unwritten /\ after \in Block /\ after \notin Known
    <2>1. T \in SUBSET Block /\ T \subseteq Unwritten  BY <1>2, <1>4, NewUnknown
    <2>2. {after} \in SUBSET Block /\ {after} \cap Known = {}
      <3> DEFINE A == {after}
      <3>1. A \subseteq nblk + 1 .. MaxBlocks  BY <1>4
      <3> HIDE DEF A
      <3>2. A \in SUBSET Block /\ A \cap Known = {}  BY <1>2, <3>1, NewUnknown
      <3>3. QED  BY <3>2 DEF A
    <2>3. QED  BY <2>1, <2>2
  <1>6. /\ f \in Frame /\ ~IsLoop(f) /\ EntryOf(f) = body /\ f.kind = kind /\ f.kind # "else"
        /\ f.b2 = after
        /\ f.kind = "if" => other = after
        /\ f.kind = "then" => f.b3 = other
    BY <1>1, <1>5 DEF Frame, Kinds, IsLoop, EntryOf
  <1>7. layout'[1] = layout[1] /\ Placed' = Placed \cup {body} /\ insertPt' = body
    <2>1. body \in Block  BY <1>5
    <2> HIDE DEF body
    <2>2. QED  BY <1>2, <2>1, PlacedNext DEF GInv
  <1> HIDE DEF body, after
  <1>8. /\ CondBr(body, other) \in Instr /\ CondBr(body, other).op \in TermOps
        /\ CondBr(body, other).to = T
    BY <1>5, InstrTypes DEF CondBr
  <1>9. Leaves(cd, code, insertPt, T) /\ cd \in Code
    <2>1. Quiet(code, code)  BY <1>3, Zenon DEF Quiet
    <2>2. Leaves(cd, code, insertPt, CondBr(body, other).to)
      BY <1>3, <1>8, <2>1, EmitLeaves
    <2>3. QED  BY <1>8, <2>2 DEF Leaves
  <1> HIDE DEF cd, f
  <1>10. IsReach(IF liveBar THEN Reached \cup T ELSE Reached, Jumps(cd), layout[1])
    <2> HIDE DEF T
    <2>1. QED  BY <1>2, <1>5, <1>9, ReachLeaves
  <1>11. ~Stops(cd[body])
    <2>1. body \in Unwritten /\ body # insertPt /\ body \in Block  BY <1>3, <1>5
    <2>2. QED  BY <1>3, <1>9, <2>1 DEF Leaves
  <1>12. /\ ReachOK' /\ liveBar' = liveBar
         /\ stackBar' = Append(stackBar, [kind |-> kind, in |-> liveBar, out |-> FALSE])
    <2>1. /\ insertPt' \in T /\ ~Stops(cd[insertPt']) /\ EntryOf(f) \in T
          /\ EntryOf(f) \in Placed' /\ Placed \subseteq Placed'
          /\ f.kind = "if" => f.b2 \in T
          /\ f.kind = "then" => f.b3 \in T /\ f.b2 \notin T /\ f.b2 \notin Known
      BY <1>4, <1>5, <1>6, <1>7, <1>11
    <2> HIDE DEF T
    <2>2. /\ ReachOK' /\ liveBar' = liveBar
          /\ stackBar' = Append(stackBar, [kind |-> IF IsLoop(f) THEN "loop" ELSE f.kind,
                                           in |-> liveBar, out |-> FALSE])
      BY <1>2, <1>4, <1>6, <1>7, <1>9, <1>10, <2>1, PushReach
    <2>3. (IF IsLoop(f) THEN "loop" ELSE f.kind) = kind  BY <1>6
    <2>4. QED  BY <2>2, <2>3, Zenon
  <1>13. kind \in {"loop", "if", "then"}  BY <1>1
  <1>14. QED  BY <1>2, <1>12, <1>13, Zenon DEF Structured!Enter

\* A visitor that waits: the blocks it has still to place are not written, and no other
\* visitor waits for them; if one of them is reached, or the statement is live, the
\* branch it waits for was entered live.
LEMMA WaitingFacts ==
    ASSUME GInv, ReachOK, NEW k \in Kinds, Visiting(k)
    PROVE  /\ inFunc /\ frames # <<>> /\ TopFrame \in Frame /\ TopFrame.kind = k
           /\ insertPt \in Block /\ insertPt = Last(layout) /\ code \in Code
           /\ FrameReach(TopFrame, Reached)
           /\ liveBar => EntryOf(TopFrame) \in Reached
           /\ PendingOf(Front(frames)) \cap WaitsFor(TopFrame) = {}
           /\ Placed \cap WaitsFor(TopFrame) = {}
           /\ WaitsFor(TopFrame) \subseteq Unwritten /\ WaitsFor(TopFrame) \in SUBSET Block
           /\ k = "then" => TopFrame.b2 # TopFrame.b3
           /\ \A b \in WaitsFor(TopFrame) :
                 /\ b \in Reached => EntryOf(TopFrame) \in Reached
                 /\ b # insertPt /\ ~Stops(code[b])
  <1>1. /\ inFunc /\ frames # <<>> /\ frames \in Seq(Frame)
        /\ TopFrame \in Frame /\ TopFrame.kind = k
        /\ Apart(frames) /\ WaitsFor(TopFrame) \subseteq Pending
        /\ \A b \in Pending : b \in Unwritten
    BY VisitingGraph DEF GInv
  <1>2. /\ insertPt \in Block /\ insertPt = Last(layout) /\ code \in Code
        /\ Placed \cap Unwritten = {} /\ Unwritten \in SUBSET Block /\ insertPt \in Placed
        /\ \A b \in Unwritten : ~Stops(code[b])
    BY <1>1, InsideFacts, GraphFacts, ReachedFacts DEF GInv
  <1>3. /\ PendingOf(Front(frames)) \cap WaitsFor(TopFrame) = {}
        /\ k = "then" => TopFrame.b2 # TopFrame.b3
    BY <1>1, PendingPop DEF TopFrame
  <1>4. FrameReach(TopFrame, Reached)
    <2>1. FramesReach(frames, Reached, Placed)  BY <1>1 DEF ReachOK
    <2>2. QED  BY <1>1, <2>1, FramesPop DEF TopFrame
  <1>5. liveBar => EntryOf(TopFrame) \in Reached
    <2>1. Above(insertPt, frames, Reached)  BY <1>1 DEF ReachOK
    <2>2. Len(frames) \in DOMAIN frames /\ TopFrame = frames[Len(frames)]
      BY <1>1, FrontFacts DEF TopFrame, Last
    <2>3. QED  BY <2>1, <2>2 DEF liveBar, Above
  <1>6. \A b \in WaitsFor(TopFrame) : b \in Reached => EntryOf(TopFrame) \in Reached
    BY <1>1, <1>4, FrameBlocks DEF FrameReach
  <1>7. QED  BY <1>1, <1>2, <1>3, <1>4, <1>5, <1>6

\* A visitor leaves the insertion block for T and goes on in a block it waited for.
LEMMA LeaveReach ==
    ASSUME GInv, ReachOK, NEW k \in Kinds, Visiting(k), inFunc' = inFunc,
           NEW T \in SUBSET Block, liveBar => T \subseteq Reached \cup WaitsFor(TopFrame),
           NEW cd, Leaves(cd, code, insertPt, T), code' = cd,
           NEW b \in WaitsFor(TopFrame), ContinueIn(b),
           NEW R, R = IF liveBar THEN Reached \cup T ELSE Reached
    PROVE  /\ Reached' = R /\ stackBar' = StackOf(frames', R)
           /\ liveBar' = (b \in R)
           /\ insertPt' = b /\ Placed' = Placed \cup {b}
           /\ FramesReach(Front(frames), R, Placed \cup {b})
           /\ Above(b, Front(frames), R)
           /\ StackOf(Front(frames), R) = StackOf(Front(frames), Reached)
           /\ b \in R => EntryOf(TopFrame) \in Reached
  <1>1. /\ inFunc /\ frames # <<>> /\ TopFrame \in Frame
        /\ liveBar => EntryOf(TopFrame) \in Reached
        /\ PendingOf(Front(frames)) \cap WaitsFor(TopFrame) = {}
        /\ Placed \cap WaitsFor(TopFrame) = {}
        /\ WaitsFor(TopFrame) \subseteq Unwritten /\ b \in Block
        /\ b \in Reached => EntryOf(TopFrame) \in Reached
        /\ b # insertPt /\ ~Stops(code[b])
    BY WaitingFacts
  <1>2. IsReach(R, Jumps(cd), layout[1])
    <2>1. liveBar => T \subseteq Reached \cup Unwritten  BY <1>1
    <2>2. QED  BY <1>1, <2>1, ReachLeaves
  <1>3. cd \in Code /\ ~Stops(cd[b])  BY <1>1 DEF Leaves
  <1>4. layout'[1] = layout[1] /\ Placed' = Placed \cup {b} /\ insertPt' = b
    BY <1>1, PlacedNext DEF GInv
  <1>5. /\ Reached' = R /\ stackBar' = StackOf(frames', R)
        /\ liveBar' = (insertPt' \in R /\ ~Stops(cd[insertPt']))
    BY <1>1, <1>2, <1>3, <1>4, BarNext
  <1>6. liveBar' = (b \in R)
    <2>1. liveBar' = (b \in R /\ ~Stops(cd[b]))  BY <1>4, <1>5
    <2>2. (b \in R /\ ~Stops(cd[b])) = (b \in R)  BY <1>3
    <2>3. QED  BY <2>1, <2>2, Zenon
  <1>7. Agree(R, Reached, Placed \cup PendingOf(Front(frames)))
    BY <1>1 DEF Agree
  <1>8. b \in R => EntryOf(TopFrame) \in Reached  BY <1>1
  <1>9. /\ FramesReach(Front(frames), R, Placed \cup {b})
        /\ Above(b, Front(frames), R)
        /\ StackOf(Front(frames), R) = StackOf(Front(frames), Reached)
    BY <1>1, <1>7, <1>8, PopReach
  <1>10. QED  BY <1>4, <1>5, <1>6, <1>8, <1>9

\* A construct is left for good.
LEMMA LeaveConstruct ==
    ASSUME GInv, ReachOK, NEW k \in Kinds, Visiting(k), inFunc' = inFunc,
           NEW T \in SUBSET Block, liveBar => T \subseteq Reached \cup WaitsFor(TopFrame),
           NEW cd, Leaves(cd, code, insertPt, T), code' = cd,
           NEW b \in WaitsFor(TopFrame), ContinueIn(b), frames' = Front(frames)
    PROVE  /\ ReachOK' /\ stackBar # <<>> /\ stackBar' = Structured!Pop
           /\ Structured!Top = ConstructOf(TopFrame, Reached)
           /\ liveBar' = (b \in Reached \/ (liveBar /\ b \in T))
  <1>1. PICK R, s : /\ R = IF liveBar THEN Reached \cup T ELSE Reached
                    /\ s = StackOf(Front(frames), Reached)
    OBVIOUS
  <1>2. /\ Reached' = R /\ stackBar' = StackOf(frames', R)
        /\ liveBar' = (b \in R)
        /\ insertPt' = b /\ Placed' = Placed \cup {b}
        /\ FramesReach(Front(frames), R, Placed \cup {b})
        /\ Above(b, Front(frames), R)
        /\ StackOf(Front(frames), R) = StackOf(Front(frames), Reached)
    BY <1>1, LeaveReach
  <1>3. ReachOK'  BY <1>2 DEF ReachOK
  <1>4. frames # <<>>  BY DEF Visiting
  <1>5. /\ stackBar # <<>> /\ Structured!Pop = s
        /\ Structured!Top = ConstructOf(TopFrame, Reached)
    BY <1>1, <1>4, StackTop DEF GInv
  <1>6. stackBar' = s  BY <1>1, <1>2
  <1>7. (b \in R) = (b \in Reached \/ (liveBar /\ b \in T))  BY <1>1
  <1>8. QED  BY <1>2, <1>3, <1>5, <1>6, <1>7, Zenon

\* Loops are left: After is reached exactly when the condition is.
LEMMA LeaveLoopStep ==
    ASSUME GInv, ReachOK, FinishFor \/ FinishWhile
    PROVE  ReachOK' /\ Structured!LeaveLoop
  <1>1. PICK mid : /\ LeaveLoop(mid) /\ (Visiting("for") \/ Visiting("while"))
                   /\ mid = code \/ mid = Emit(code, insertPt, Inst)
    BY DEF FinishFor, FinishWhile
  <1>0. PICK k \in {"for", "while"} : Visiting(k)
    BY <1>1
  <1>2. k \in Kinds /\ (k # "if" /\ k # "then" /\ k # "else")  BY DEF Kinds
  <1>3. /\ TopFrame \in Frame /\ TopFrame.kind = k /\ insertPt \in Block
        /\ insertPt = Last(layout) /\ code \in Code
        /\ FrameReach(TopFrame, Reached)
        /\ liveBar => EntryOf(TopFrame) \in Reached
    BY <1>0, <1>2, WaitingFacts
  <1>4. IsLoop(TopFrame)  BY <1>0, <1>3 DEF IsLoop
  <1>5. /\ WaitsFor(TopFrame) = {TopFrame.b3} /\ EntryOf(TopFrame) = TopFrame.b1
        /\ TopFrame.b1 \in Block
        /\ EntryOf(TopFrame) \in Reached <=> TopFrame.b3 \in Reached
    BY <1>3, <1>4, FrameBlocks DEF Frame, FrameReach
  <1>6. Quiet(mid, code) /\ mid \in Code
    <2>1. Quiet(code, code)  BY <1>3, Zenon DEF Quiet
    <2>2. Inst \in Instr /\ Inst.op \notin TermOps  BY DEF Inst, Instr, TermOps
    <2>3. Quiet(Emit(code, insertPt, Inst), code)  BY <1>3, <2>1, <2>2, EmitQuiet
    <2>4. Quiet(mid, code)  BY <1>1, <2>1, <2>3
    <2>5. QED  BY <2>4 DEF Quiet
  <1> DEFINE T == {TopFrame.b1}
             b == TopFrame.b3
             cd == BranchUnlessTerminated(mid, TopFrame.b1)
  <1>7. Leaves(cd, code, insertPt, T)  BY <1>3, <1>5, <1>6, BranchLeaves
  <1>8. /\ inFunc' = inFunc /\ code' = cd /\ ContinueIn(b) /\ frames' = Front(frames)
    BY <1>1 DEF LeaveLoop
  <1>9. /\ T \in SUBSET Block
        /\ liveBar => T \subseteq Reached \cup WaitsFor(TopFrame)
        /\ b \in WaitsFor(TopFrame)
        /\ (b \in Reached \/ (liveBar /\ b \in T)) = (EntryOf(TopFrame) \in Reached)
    BY <1>3, <1>5
  <1> HIDE DEF T, b, cd
  <1>10. /\ ReachOK' /\ stackBar # <<>> /\ stackBar' = Structured!Pop
         /\ Structured!Top = ConstructOf(TopFrame, Reached)
         /\ liveBar' = (b \in Reached \/ (liveBar /\ b \in T))
    BY <1>0, <1>2, <1>7, <1>8, <1>9, LeaveConstruct
  <1>11. /\ ConstructOf(TopFrame, Reached).kind = "loop"
         /\ ConstructOf(TopFrame, Reached).in = (EntryOf(TopFrame) \in Reached)
    BY <1>3, <1>4, ConstructFields
  <1>12. QED
    BY <1>8, <1>9, <1>10, <1>11, Zenon DEF Structured!LeaveLoop

\* An if without an else is left: After is reached exactly when the if is.
LEMMA LeaveIfStep ==
    ASSUME GInv, ReachOK, FinishIf
    PROVE  ReachOK' /\ Structured!LeaveIf
  <1> DEFINE T == {TopFrame.b2}
             b == TopFrame.b2
             cd == BranchUnlessTerminated(code, TopFrame.b2)
  <1>1. /\ Visiting("if") /\ "if" \in Kinds
        /\ inFunc' = inFunc /\ code' = cd /\ ContinueIn(b) /\ frames' = Front(frames)
    BY DEF FinishIf, LeaveIf, Kinds
  <1>2. /\ TopFrame \in Frame /\ TopFrame.kind = "if" /\ insertPt \in Block
        /\ insertPt = Last(layout) /\ code \in Code
        /\ FrameReach(TopFrame, Reached)
        /\ liveBar => EntryOf(TopFrame) \in Reached
    BY <1>1, WaitingFacts
  <1>3. /\ WaitsFor(TopFrame) = {b} /\ b \in Block /\ ~IsLoop(TopFrame)
        /\ EntryOf(TopFrame) \in Reached <=> b \in Reached
    <2>1. WaitsFor(TopFrame) = {b}  BY <1>2, FrameBlocks
    <2>2. b \in Block /\ ~IsLoop(TopFrame)  BY <1>2 DEF Frame, IsLoop
    <2>3. EntryOf(TopFrame) \in Reached <=> b \in Reached  BY <1>2 DEF FrameReach
    <2>4. QED  BY <2>1, <2>2, <2>3
  <1>4. Leaves(cd, code, insertPt, T)
    <2>1. Quiet(code, code)  BY <1>2, Zenon DEF Quiet
    <2>2. QED  BY <1>2, <1>3, <2>1, BranchLeaves
  <1>5. /\ T \in SUBSET Block
        /\ liveBar => T \subseteq Reached \cup WaitsFor(TopFrame)
        /\ b \in WaitsFor(TopFrame)
        /\ (b \in Reached \/ (liveBar /\ b \in T)) = (EntryOf(TopFrame) \in Reached)
    BY <1>2, <1>3
  <1> HIDE DEF T, b, cd
  <1>6. /\ ReachOK' /\ stackBar # <<>> /\ stackBar' = Structured!Pop
        /\ Structured!Top = ConstructOf(TopFrame, Reached)
        /\ liveBar' = (b \in Reached \/ (liveBar /\ b \in T))
    BY <1>1, <1>4, <1>5, LeaveConstruct
  <1>7. /\ ConstructOf(TopFrame, Reached).kind = "if"
        /\ ConstructOf(TopFrame, Reached).in = (EntryOf(TopFrame) \in Reached)
    BY <1>2, <1>3, ConstructFields
  <1>8. QED
    BY <1>1, <1>5, <1>6, <1>7, Zenon DEF Structured!LeaveIf

\* An if-else is left: After is reached if the first branch got there or this one does.
LEMMA LeaveElseStep ==
    ASSUME GInv, ReachOK, FinishElse
    PROVE  ReachOK' /\ Structured!LeaveElse
  <1> DEFINE T == {TopFrame.b2}
             b == TopFrame.b2
             cd == BranchUnlessTerminated(code, TopFrame.b2)
  <1>1. /\ Visiting("else") /\ "else" \in Kinds
        /\ inFunc' = inFunc /\ code' = cd /\ ContinueIn(b) /\ frames' = Front(frames)
    BY DEF FinishElse, LeaveIf, Kinds
  <1>2. /\ TopFrame \in Frame /\ TopFrame.kind = "else" /\ insertPt \in Block
        /\ insertPt = Last(layout) /\ code \in Code
    BY <1>1, WaitingFacts
  <1>3. WaitsFor(TopFrame) = {b} /\ b \in Block /\ ~IsLoop(TopFrame)
    BY <1>2, FrameBlocks DEF Frame, IsLoop
  <1>4. Leaves(cd, code, insertPt, T)
    <2>1. Quiet(code, code)  BY <1>2, Zenon DEF Quiet
    <2>2. QED  BY <1>2, <1>3, <2>1, BranchLeaves
  <1>5. /\ T \in SUBSET Block
        /\ liveBar => T \subseteq Reached \cup WaitsFor(TopFrame)
        /\ b \in WaitsFor(TopFrame)
        /\ (TopFrame.kind = "else" /\ TopFrame.b2 \in Reached) = (b \in Reached)
        /\ (b \in Reached \/ (liveBar /\ b \in T)) = (b \in Reached \/ liveBar)
    BY <1>2, <1>3
  <1> HIDE DEF T, b, cd
  <1>6. /\ ReachOK' /\ stackBar # <<>> /\ stackBar' = Structured!Pop
        /\ Structured!Top = ConstructOf(TopFrame, Reached)
        /\ liveBar' = (b \in Reached \/ (liveBar /\ b \in T))
    BY <1>1, <1>4, <1>5, LeaveConstruct
  <1>7. /\ ConstructOf(TopFrame, Reached).kind = "else"
        /\ ConstructOf(TopFrame, Reached).out = (TopFrame.kind = "else" /\ TopFrame.b2 \in Reached)
    BY <1>2, <1>3, ConstructFields
  <1>8. QED
    BY <1>1, <1>5, <1>6, <1>7, Zenon DEF Structured!LeaveElse

\* The second branch follows the first: it is reached exactly when the if is, and After
\* has been reached if the first branch falls out of its end.
LEMMA ThenElseStep ==
    ASSUME GInv, ReachOK, FinishThen
    PROVE  ReachOK' /\ Structured!ThenToElse
  <1> DEFINE T == {TopFrame.b2}
             b == TopFrame.b3
             cd == BranchUnlessTerminated(code, TopFrame.b2)
             f == [TopFrame EXCEPT !.kind = "else"]
             below == Front(frames)
  <1>1. /\ Visiting("then") /\ "then" \in Kinds
        /\ inFunc' = inFunc /\ code' = cd /\ ContinueIn(b) /\ frames' = Append(below, f)
    BY DEF FinishThen, Kinds
  <1>2. /\ TopFrame \in Frame /\ TopFrame.kind = "then" /\ insertPt \in Block
        /\ insertPt = Last(layout) /\ code \in Code /\ frames # <<>>
        /\ FrameReach(TopFrame, Reached)
        /\ liveBar => EntryOf(TopFrame) \in Reached
        /\ TopFrame.b2 # b
    BY <1>1, WaitingFacts
  <1>3. /\ WaitsFor(TopFrame) = {TopFrame.b2, b} /\ ~IsLoop(TopFrame)
        /\ EntryOf(TopFrame) \in Reached <=> b \in Reached
        /\ TopFrame.b2 \notin Reached
    <2>1. WaitsFor(TopFrame) = {TopFrame.b2, b}  BY <1>2, FrameBlocks
    <2>2. ~IsLoop(TopFrame)  BY <1>2 DEF IsLoop
    <2>3. /\ EntryOf(TopFrame) \in Reached <=> b \in Reached
          /\ TopFrame.b2 \notin Reached
      BY <1>2 DEF FrameReach
    <2>4. QED  BY <2>1, <2>2, <2>3
  <1>4. Leaves(cd, code, insertPt, T)
    <2>1. Quiet(code, code)  BY <1>2, Zenon DEF Quiet
    <2>2. TopFrame.b2 \in Block  BY <1>2 DEF Frame
    <2>3. QED  BY <1>2, <2>1, <2>2, BranchLeaves
  <1>5. /\ f \in Frame /\ f.kind = "else" /\ ~IsLoop(f) /\ f.b2 = TopFrame.b2
        /\ EntryOf(f) = b
    <2>1. b \in Block  BY <1>1, <1>2, VisitingFacts DEF GInv
    <2>2. QED  BY <1>2, <2>1 DEF Frame, Kinds, IsLoop, EntryOf
  <1>6. /\ T \in SUBSET Block
        /\ liveBar => T \subseteq Reached \cup WaitsFor(TopFrame)
        /\ b \in WaitsFor(TopFrame)
    BY <1>2, <1>3 DEF Frame
  <1>7. PICK R, s : /\ R = IF liveBar THEN Reached \cup T ELSE Reached
                    /\ s = StackOf(below, Reached)
    OBVIOUS
  <1>8. /\ b \in R <=> EntryOf(TopFrame) \in Reached
        /\ f.b2 \in R <=> liveBar
        /\ liveBar => EntryOf(TopFrame) \in Reached
    BY <1>2, <1>3, <1>5, <1>7
  <1> HIDE DEF T, cd, f, below
  <1>9. /\ Reached' = R /\ stackBar' = StackOf(frames', R)
        /\ liveBar' = (b \in R)
        /\ insertPt' = b /\ Placed' = Placed \cup {b}
        /\ FramesReach(below, R, Placed \cup {b})
        /\ Above(b, below, R)
        /\ StackOf(below, R) = StackOf(below, Reached)
    BY <1>1, <1>4, <1>6, <1>7, LeaveReach DEF below
  <1>10. /\ stackBar # <<>> /\ stackBar = Append(s, ConstructOf(TopFrame, Reached))
         /\ Structured!Top = ConstructOf(TopFrame, Reached)
         /\ below \in Seq(Frame)
    BY <1>2, <1>7, StackTop DEF GInv, below
  <1>11. ReachOK'
    <2>1. FrameReach(f, R)  BY <1>5, <1>8 DEF FrameReach
    <2>2. EntryOf(f) \in Placed \cup {b} /\ Above(EntryOf(f), below, R)
      BY <1>5, <1>9
    <2>3. /\ FramesReach(Append(below, f), R, Placed \cup {b})
          /\ \A c : (c \in R => EntryOf(f) \in R) => Above(c, Append(below, f), R)
      BY <1>5, <1>9, <1>10, <2>1, <2>2, FramesPush
    <2>4. FramesReach(frames', Reached', Placed')  BY <1>1, <1>9, <2>3
    <2>5. Above(insertPt', frames', Reached')  BY <1>1, <1>5, <1>9, <2>3
    <2>6. QED  BY <2>4, <2>5 DEF ReachOK
  <1>12. stackBar' = Append(s, ConstructOf(f, R))
    BY <1>1, <1>5, <1>7, <1>9, <1>10, StackAppend
  <1>13. ConstructOf(f, R) = [kind |-> "else", in |-> Structured!Top.in, out |-> liveBar]
    <2> DEFINE c == ConstructOf(TopFrame, Reached)
               d == ConstructOf(f, R)
    <2>1. c.in = (EntryOf(TopFrame) \in Reached)  BY <1>2, ConstructFields
    <2>2. /\ d = [kind |-> d.kind, in |-> d.in, out |-> d.out]
          /\ d.kind = f.kind /\ d.in = (EntryOf(f) \in R)
          /\ d.out = (f.kind = "else" /\ f.b2 \in R)
      BY <1>5, ConstructFields
    <2>3. (EntryOf(f) \in R) = (EntryOf(TopFrame) \in Reached)  BY <1>5, <1>8
    <2>4. (f.kind = "else" /\ f.b2 \in R) = liveBar
      <3>1. liveBar \in BOOLEAN  BY Zenon DEF liveBar
      <3>2. (f.kind = "else" /\ f.b2 \in R) <=> liveBar  BY <1>5, <1>8
      <3>3. QED  BY <3>1, <3>2
    <2>5. Structured!Top = c  BY <1>10
    <2> HIDE DEF c, d
    <2>6. d = [kind |-> "else", in |-> c.in, out |-> liveBar]
      BY <1>5, <2>1, <2>2, <2>3, <2>4, Zenon
    <2>7. QED  BY <2>5, <2>6 DEF d
  <1>14. Structured!Pop = s  BY <1>2, <1>7, StackTop DEF GInv, below
  <1>15. stackBar' = Append(Structured!Pop, [kind |-> "else", in |-> Structured!Top.in,
                                             out |-> liveBar])
    BY <1>12, <1>13, <1>14
  <1>16. /\ Structured!Top.kind = "then"
         /\ liveBar' = Structured!Top.in
    <2>1. /\ ConstructOf(TopFrame, Reached).kind = "then"
          /\ ConstructOf(TopFrame, Reached).in = (EntryOf(TopFrame) \in Reached)
      BY <1>2, <1>3, ConstructFields
    <2>2. (b \in R) = (EntryOf(TopFrame) \in Reached)  BY <1>8
    <2>3. QED  BY <1>9, <1>10, <2>1, <2>2, Zenon
  <1>17. QED
    BY <1>1, <1>10, <1>11, <1>15, <1>16, Zenon DEF Structured!ThenToElse

\* A function begins in its empty entry block.
LEMMA BeginStep ==
    ASSUME GInv, BeginFunc
    PROVE  ReachOK' /\ Structured!Begin
  <1> DEFINE b == nblk + 1
  <1>1. /\ nblk \in Nat /\ MaxBlocks \in Nat /\ b \in Block /\ b \in Uncreated
        /\ code \in Code /\ frames = <<>>
    BY BoundsAssumption DEF GInv, BeginFunc, IInv, TypeOK, FramesOK, Uncreated, Block, Code
  <1>2. /\ inFunc = FALSE /\ inFunc' = TRUE /\ code' = code /\ layout' = <<b>>
        /\ insertPt' = b /\ frames' = frames
    BY DEF BeginFunc, GInv, IInv, TypeOK
  <1> HIDE DEF b
  <1>3. ~Stops(code[b]) /\ Exits(code[b]) = {}
    <2>1. code[b] = <<>>  BY <1>1 DEF GInv, GraphOK, Empty
    <2>2. ~Stops(<<>>)  BY DEF Stops
    <2>3. QED  BY <2>1, <2>2 DEF Exits
  <1>4. Reached' = {b}
    <2>1. Reached' = ReachableFrom(Jumps(code), b)  BY <1>2 DEF Reached
    <2>2. Jumps(code) \in JumpTable /\ Jumps(code)[b] = {}
      BY <1>1, <1>3, JumpsType
    <2>3. IsReach({b}, Jumps(code), b)
      BY <1>1, <2>2 DEF IsReach, ClosedUnder
    <2>4. QED  BY <1>1, <2>1, <2>2, <2>3, ReachableLeast, ReachUnique
  <1>5. ReachOK'
    BY <1>1, <1>2 DEF ReachOK, FramesReach, Above
  <1>6. liveBar' = TRUE
    <2>1. liveBar' = (insertPt' \in Reached' /\ ~Stops(code'[insertPt']))
      BY Zenon DEF liveBar, HasTerminator
    <2>2. b \in {b} /\ ~Stops(code[b])  BY <1>3
    <2>3. QED  BY <1>2, <1>4, <2>1, <2>2, Zenon
  <1>7. stackBar' = stackBar
    <2>1. stackBar = [i \in {} |-> ConstructOf(frames[i], Reached)]
      BY <1>1 DEF stackBar
    <2>2. stackBar' = [i \in {} |-> ConstructOf(frames'[i], Reached')]
      BY <1>1, <1>2 DEF stackBar
    <2>3. QED  BY <2>1, <2>2
  <1>8. QED  BY <1>2, <1>5, <1>6, <1>7 DEF Structured!Begin

\* Outside of a function nothing is reached.
LEMMA OutsideReach ==
    ASSUME inFunc = FALSE, frames = <<>>
    PROVE  Reached = {} /\ liveBar = FALSE /\ stackBar = <<>> /\ ReachOK
  <1>1. Reached = {}  BY DEF Reached
  <1>2. liveBar = FALSE  BY <1>1 DEF liveBar
  <1>3. stackBar = <<>>  BY DEF stackBar
  <1>4. QED  BY <1>1, <1>2, <1>3 DEF ReachOK

\* A function is done.
LEMMA EndStep ==
    ASSUME GInv, FinishFunc
    PROVE  ReachOK' /\ Structured!End
  <1>1. inFunc /\ frames = <<>> /\ inFunc' = FALSE /\ frames' = <<>>
    BY DEF FinishFunc
  <1>2. stackBar = <<>>  BY <1>1 DEF stackBar
  <1>3. /\ liveBar' = FALSE /\ stackBar' = <<>> /\ ReachOK'
    <2>1. Reached' = {}  BY <1>1 DEF Reached
    <2>2. liveBar' = FALSE  BY <2>1 DEF liveBar
    <2>3. stackBar' = <<>>  BY <1>1 DEF stackBar
    <2>4. ReachOK'  BY <1>1 DEF ReachOK
    <2>5. QED  BY <2>2, <2>3, <2>4
  <1>4. QED  BY <1>1, <1>2, <1>3 DEF Structured!End

\* Steps that leave the code, the layout and the frames alone stutter.
LEMMA NothingMoves ==
    ASSUME ReachOK, UNCHANGED <<code, layout, insertPt, inFunc, frames>>
    PROVE  ReachOK' /\ UNCHANGED Structured!svars
  <1>1. Reached' = Reached /\ Placed' = Placed
    BY DEF Reached, Placed, Elements
  <1>2. stackBar' = stackBar /\ liveBar' = liveBar
    BY <1>1 DEF stackBar, liveBar, HasTerminator
  <1>3. ReachOK'  BY <1>1 DEF ReachOK
  <1>4. QED  BY <1>2, <1>3 DEF Structured!svars

\* The builder starts where StructuredFlow starts.
LEMMA InitReach == Init => ReachOK /\ Structured!Init
  <1> SUFFICES ASSUME Init PROVE ReachOK /\ Structured!Init
    OBVIOUS
  <1>1. inFunc = FALSE /\ frames = <<>>  BY DEF Init
  <1>2. QED  BY <1>1, OutsideReach DEF Structured!Init

\* Every step of the builder is a step of StructuredFlow or a stutter.
LEMMA NextReach ==
    GInv /\ ReachOK /\ [Next]_vars => ReachOK' /\ [Structured!Next]_(Structured!svars)
  <1> SUFFICES ASSUME GInv, ReachOK, [Next]_vars
               PROVE  ReachOK' /\ [Structured!Next]_(Structured!svars)
    OBVIOUS
  <1>1. CASE BeginFunc  BY <1>1, BeginStep DEF Structured!Next
  <1>2. CASE FinishFunc  BY <1>2, EndStep DEF Structured!Next
  <1>3. CASE VisitExprStmt \/ VisitVariable  BY <1>3, QuietSteps
  <1>4. CASE VisitReturn \/ VisitBreak \/ VisitContinue
    BY <1>4, KillingSteps DEF Structured!Next
  <1>5. CASE JumpOutsideLoop \/ UNCHANGED vars
    BY <1>5, NothingMoves DEF JumpOutsideLoop, vars
  <1>6. CASE EnterFor \/ EnterWhile  BY <1>6, EnterLoopStep DEF Structured!Next
  <1>7. CASE FinishFor \/ FinishWhile  BY <1>7, LeaveLoopStep DEF Structured!Next
  <1>8. CASE EnterIf \/ EnterIfElse  BY <1>8, EnterBranchStep DEF Structured!Next
  <1>9. CASE FinishIf  BY <1>9, LeaveIfStep DEF Structured!Next
  <1>10. CASE FinishThen  BY <1>10, ThenElseStep DEF Structured!Next
  <1>11. CASE FinishElse  BY <1>11, LeaveElseStep DEF Structured!Next
  <1>12. QED
    BY <1>1, <1>2, <1>3, <1>4, <1>5, <1>6, <1>7, <1>8, <1>9, <1>10, <1>11 DEF Next

\* What is reached fits the constructs around the statement being visited.
LEMMA ReachInvariant == Spec => []ReachOK
  <1>1. Init => ReachOK  BY InitReach
  <1>2. GInv /\ ReachOK /\ [Next]_vars => ReachOK'  BY NextReach
  <1>3. QED  BY <1>1, <1>2, GraphInvariant, PTL DEF Spec

\* The blocks and branches that KaleIRBuilder emits implement the control flow of the
\* source, however its constructs are nested: the code of a statement can be executed
\* exactly when the statement can.
THEOREM EmissionImplementsFlow == Spec => ImplementsStructuredFlow
  <1>1. Init => Structured!Init  BY InitReach
  <1>2. GInv /\ ReachOK /\ [Next]_vars => [Structured!Next]_(Structured!svars)
    BY NextReach
  <1>3. QED
    BY <1>1, <1>2, GraphInvariant, ReachInvariant, PTL
    DEF Spec, ImplementsStructuredFlow, Structured!Spec
=============================================================================
