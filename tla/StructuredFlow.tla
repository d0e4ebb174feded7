--------------------------- MODULE StructuredFlow ---------------------------
(***************************************************************************)
(* What a structured statement list promises about control flow: after     *)
(* each statement, can the next one still be executed?  This is the        *)
(* abstract specification of the basic-block emission of KaleIRBuilder     *)
(* (module IRControlFlow).  It knows nothing of blocks, branches or        *)
(* insertion points; it walks the statements of a function body in source  *)
(* order and tracks, for each construct it is inside of, whether the       *)
(* construct was reachable when it was entered.                            *)
(***************************************************************************)
EXTENDS Naturals, Sequences

VARIABLES
    inFunc,   \* TRUE while the body of a function is being visited
    stack,    \* the constructs around the current statement, innermost last
    live      \* can the next statement of the body be executed?

svars == <<inFunc, stack, live>>

(***************************************************************************)
(* A construct: a loop, an if without an else ("if"), the first branch of  *)
(* an if-else ("then") or its second branch ("else").  in: could it be     *)
(* reached when it was entered?  out: can a branch already visited fall    *)
(* out of its end?                                                         *)
(***************************************************************************)
Kind == {"loop", "if", "then", "else"}
Construct == [kind : Kind, in : BOOLEAN, out : BOOLEAN]

Top == stack[Len(stack)]
Pop == SubSeq(stack, 1, Len(stack) - 1)

Init == inFunc = FALSE /\ stack = <<>> /\ live = FALSE

Begin == ~inFunc /\ inFunc' = TRUE /\ live' = TRUE /\ UNCHANGED stack

\* return leaves the function, wherever it stands
Return == inFunc /\ live' = FALSE /\ UNCHANGED <<inFunc, stack>>

\* break and continue leave the rest of the innermost loop's body
LoopJump ==
    /\ inFunc
    /\ \E i \in DOMAIN stack : stack[i].kind = "loop"
    /\ live' = FALSE
    /\ UNCHANGED <<inFunc, stack>>

Enter ==
    /\ inFunc
    /\ \E k \in {"loop", "if", "then"} :
           stack' = Append(stack, [kind |-> k, in |-> live, out |-> FALSE])
    /\ UNCHANGED <<inFunc, live>>

\* the condition may be false the first time it is tested
LeaveLoop ==
    /\ stack # <<>> /\ Top.kind = "loop"
    /\ live' = Top.in
    /\ stack' = Pop
    /\ UNCHANGED inFunc

LeaveIf ==
    /\ stack # <<>> /\ Top.kind = "if"
    /\ live' = Top.in
    /\ stack' = Pop
    /\ UNCHANGED inFunc

ThenToElse ==
    /\ stack # <<>> /\ Top.kind = "then"
    /\ stack' = Append(Pop, [kind |-> "else", in |-> Top.in, out |-> live])
    /\ live' = Top.in
    /\ UNCHANGED inFunc

\* the statement after an if-else is reached from either branch
LeaveElse ==
    /\ stack # <<>> /\ Top.kind = "else"
    /\ live' = (Top.out \/ live)
    /\ stack' = Pop
    /\ UNCHANGED inFunc

End ==
    /\ inFunc /\ stack = <<>>
    /\ inFunc' = FALSE /\ live' = FALSE
    /\ UNCHANGED stack

Next == \/ Begin \/ Return \/ LoopJump \/ Enter \/ LeaveLoop \/ LeaveIf
        \/ ThenToElse \/ LeaveElse \/ End

Spec == Init /\ [][Next]_svars
=============================================================================
