------------------------------ MODULE RefBuilder ------------------------------
(***************************************************************************)
(* The expressions of KaleIRBuilder (src/ir_builder.cpp) as far as they      *)
(* compute addresses: references to variables and array elements,            *)
(* assignments, and the operators and calls they stand in.  IsNeedPointer    *)
(* asks the visitor of a reference for the address instead of its content.   *)
(*                                                                         *)
(* The expression is chosen while it is visited; `frames` is the C++ call     *)
(* stack.  Emitted code is represented by what it computes: an address, or   *)
(* a number.  What a load or a call yields is any small number.  Conversions  *)
(* of width and sign are left out: the numbers fit every type.              *)
(***************************************************************************)
EXTENDS Naturals, Sequences

CONSTANTS
    Dims,        \* the dimensions of each variable in memory, <<>> for a scalar
    Params,      \* parameters of the function: values, not in memory
    MaxNum,      \* bound: numbers that loads, constants and calls yield
    MaxVisits,   \* bound: references, operators and calls visited
    MaxArgs      \* bound: arguments of a call

Vars == DOMAIN Dims
Num == 0 .. MaxNum

ASSUME ConstantsAssumption ==
    /\ \A x \in Vars : Dims[x] \in Seq(Nat)
    /\ Vars \cap Params = {} /\ {MaxNum, MaxVisits, MaxArgs} \subseteq Nat

VARIABLES
    needPointer,  \* IsNeedPointer
    last,         \* LastValue
    frames,       \* the visitors that wait for a nested accept to return
    visiting,     \* is an expression about to be visited?
    visits,       \* visited so far, against MaxVisits
    status        \* "running", or "undefined" once the C++ code is

vars == <<needPointer, last, frames, visiting, visits, status>>

-----------------------------------------------------------------------------
Value(n) == [kind |-> "value", var |-> "", off |-> n]
Address(x, off) == [kind |-> "address", var |-> x, off |-> off]

Top == frames[Len(frames)]
Below == SubSeq(frames, 1, Len(frames) - 1)

\* `aim` is the reference that an assignment's left side names
NoAim == [var |-> "", given |-> <<>>]
Plain(kind) == [kind |-> kind, n |-> 0, aim |-> NoAim, dest |-> Value(0),
                need |-> FALSE, stride |-> 0, at |-> 0, sum |-> 0]

\* the next dimension from the right: *rbegin, or 1 behind the end
DimAt(x, at) == IF at < Len(Dims[x]) THEN Dims[x][Len(Dims[x]) - at] ELSE 1

\* the product of the last n dimensions: the loop in front of the indexes
Product(x, n) ==
    LET product[k \in 0 .. n] == IF k = 0 THEN 1 ELSE product[k - 1] * DimAt(x, k - 1)
    IN  product[n]

Init ==
    /\ needPointer = FALSE /\ last = Value(0)
    /\ frames = <<>> /\ visiting = FALSE /\ visits = 0
    /\ status = "running"

Running == status = "running"
AtExpr == Running /\ visiting /\ visits < MaxVisits
Count == visits' = visits + 1
Go == UNCHANGED status
Keep == UNCHANGED needPointer
Returned(kind) == Running /\ ~visiting /\ frames # <<>> /\ Top.kind = kind

\* accept() of a nested expression under frame f; a visitor that has set LastValue
Accept(f) == frames' = Append(frames, f) /\ visiting' = TRUE
AcceptAgain(f) == frames' = Append(Below, f) /\ visiting' = TRUE
Yield(v) == last' = v /\ visiting' = FALSE

\* the left side of an assignment is a reference; anything else may be one
MayBeOther == ~(frames # <<>> /\ Top.kind = "target")

\* an expression that stands in a statement
Begin ==
    /\ Running /\ frames = <<>> /\ ~visiting /\ visits < MaxVisits
    /\ visiting' = TRUE
    /\ Keep /\ Go /\ UNCHANGED <<last, frames, visits>>

-----------------------------------------------------------------------------
(* Constants, operators and calls.                                          *)

VisitNumber ==
    /\ Running /\ visiting /\ MayBeOther
    /\ \E n \in Num : Yield(Value(n))
    /\ Keep /\ Go /\ UNCHANGED <<frames, visits>>

VisitBinary ==
    /\ AtExpr /\ Count /\ MayBeOther
    /\ Accept(Plain("left"))
    /\ Keep /\ Go /\ UNCHANGED last

VisitRhs ==
    /\ Returned("left")
    /\ AcceptAgain([Plain("right") EXCEPT !.dest = last])
    /\ Keep /\ Go /\ UNCHANGED <<last, visits>>

FinishBinary ==
    /\ Returned("right")
    /\ \E n \in Num : Yield(Value(n))
    /\ frames' = Below
    /\ Keep /\ Go /\ UNCHANGED visits

\* One argument for each parameter: behind the first one, `n` are still to be visited.
VisitCall ==
    /\ AtExpr /\ Count /\ MayBeOther
    /\ \/ \E n \in 1 .. MaxArgs : Accept([Plain("call") EXCEPT !.n = n - 1]) /\ UNCHANGED last
       \/ \E n \in Num : Yield(Value(n)) /\ UNCHANGED frames
    /\ Keep /\ Go

\* fewer arguments than parameters: the loop over the parameters reads behind the arguments
MissingArgument ==
    /\ \/ AtExpr /\ MayBeOther /\ Count
       \/ Returned("call") /\ Top.n > 0 /\ UNCHANGED visits
    /\ status' = "undefined"
    /\ Keep /\ UNCHANGED <<last, frames, visiting>>

NextArgument ==
    /\ Returned("call") /\ Top.n > 0
    /\ AcceptAgain([Top EXCEPT !.n = @ - 1])
    /\ Keep /\ Go /\ UNCHANGED <<last, visits>>

FinishCall ==
    /\ Returned("call") /\ Top.n = 0
    /\ \E n \in Num : Yield(Value(n))
    /\ frames' = Below
    /\ Keep /\ Go /\ UNCHANGED visits

-----------------------------------------------------------------------------
(* Assignments.                                                             *)

VisitAssign ==
    /\ AtExpr /\ Count /\ MayBeOther
    /\ needPointer' = TRUE
    /\ Accept(Plain("target"))
    /\ Go /\ UNCHANGED last

\* Mutant: the flag is not reset in front of the right side.
MutVisitSourceKeepsFlag ==
    /\ Returned("target")
    /\ AcceptAgain([Top EXCEPT !.kind = "source", !.dest = last])
    /\ Keep /\ Go /\ UNCHANGED <<last, visits>>

VisitSource ==
    /\ Returned("target")
    /\ needPointer' = FALSE
    /\ AcceptAgain([Top EXCEPT !.kind = "source", !.dest = last])
    /\ Go /\ UNCHANGED <<last, visits>>

\* storeValueToPointer; the value of the assignment is LastValue, as it stands
FinishAssign ==
    /\ Returned("source") /\ Top.aim.var \notin Params
    /\ frames' = Below
    /\ Keep /\ Go /\ UNCHANGED <<last, visiting, visits>>

\* A parameter has no LLVM type, since visit(FuncAST) sets its value only, and the type
\* that the store asks for is that of its left side.
StoreToParam ==
    /\ Returned("source") /\ Top.aim.var \in Params
    /\ status' = "undefined"
    /\ Keep /\ UNCHANGED <<last, frames, visiting, visits>>

-----------------------------------------------------------------------------
(* References.  A frame below that is a target notes what is referred to.    *)

Note(fs, x, given) ==
    IF fs # <<>> /\ fs[Len(fs)].kind = "target"
    THEN [fs EXCEPT ![Len(fs)].aim = [var |-> x, given |-> given]]
    ELSE fs

\* LastValue for an address: itself, or what is loaded from it
YieldRef(a, need) ==
    IF need THEN Yield(a) ELSE \E n \in Num : Yield(Value(n))

VisitIdRef ==
    /\ AtExpr /\ Count
    /\ \/ \E x \in Vars : YieldRef(Address(x, 0), needPointer) /\ frames' = Note(frames, x, <<>>)
       \/ \E p \in Params, n \in Num : Yield(Value(n)) /\ frames' = Note(frames, p, <<>>)
    /\ Keep /\ Go

\* up to the first index that is visited, the last one
VisitIndexedRef ==
    /\ AtExpr /\ Count
    /\ \E x \in Vars : \E n \in 1 .. Len(Dims[x]) :
           Accept([Plain("index") EXCEPT !.n = n, !.aim.var = x, !.need = needPointer,
                       !.stride = Product(x, Len(Dims[x]) - n), !.at = Len(Dims[x]) - n])
    /\ needPointer' = FALSE
    /\ Go /\ UNCHANGED last

\* more indexes than dimensions: the difference wraps around and rbegin runs away
TooManyIndexes ==
    /\ AtExpr /\ Count
    /\ needPointer' = FALSE
    /\ status' = "undefined"
    /\ UNCHANGED <<last, frames, visiting>>

\* An element of a parameter that is an array, for which the type is missing as well.  The
\* flag is back when that shows, and what its indexes hold is left out.
IndexedParam ==
    /\ AtExpr /\ Count /\ Params # {}
    /\ status' = "undefined"
    /\ Keep /\ UNCHANGED <<last, frames, visiting>>

\* IdIndexedRefAST::getLLVMValue has no return statement: whether the address of the
\* array comes back is up to the C++ compiler.  FinishIndexedRef is the case in which it does.
NoReturnValue ==
    /\ Returned("index") /\ Top.n = 1
    /\ needPointer' = Top.need
    /\ status' = "undefined"
    /\ UNCHANGED <<last, frames, visiting, visits>>

\* Mutant: the stride grows before it is used.
MutWithIndexLate(f, i) ==
    [f EXCEPT !.sum = @ + i * f.stride * DimAt(f.aim.var, f.at),
              !.stride = @ * DimAt(f.aim.var, f.at),
              !.at = @ + 1, !.n = @ - 1, !.aim.given = <<i>> \o @]

\* one round of the loop over the indexes
WithIndex(f, i) ==
    [f EXCEPT !.sum = @ + i * f.stride,
              !.stride = @ * DimAt(f.aim.var, f.at),
              !.at = @ + 1, !.n = @ - 1, !.aim.given = <<i>> \o @]

NextIndex ==
    /\ Returned("index")
    /\ LET f == WithIndex(Top, last.off)
       IN  f.n > 0 /\ AcceptAgain(f)
    /\ Keep /\ Go /\ UNCHANGED <<last, visits>>

FinishIndexedRef ==
    /\ Returned("index")
    /\ LET f == WithIndex(Top, last.off)
       IN  /\ f.n = 0
           /\ frames' = Note(Below, f.aim.var, f.aim.given)
           /\ needPointer' = f.need
           /\ YieldRef(Address(f.aim.var, f.sum), f.need)
    /\ Go /\ UNCHANGED visits

-----------------------------------------------------------------------------
Next ==
    \/ Begin \/ VisitNumber \/ VisitBinary \/ VisitRhs \/ FinishBinary
    \/ VisitCall \/ MissingArgument \/ NextArgument \/ FinishCall
    \/ VisitAssign \/ VisitSource \/ FinishAssign \/ StoreToParam
    \/ VisitIdRef \/ VisitIndexedRef \/ TooManyIndexes \/ IndexedParam \/ NoReturnValue
    \/ NextIndex \/ FinishIndexedRef

Spec == Init /\ [][Next]_vars

-----------------------------------------------------------------------------
(* Properties.                                                              *)

\* While nested expressions come and go, an address comes back exactly to the
\* assignment that asked for it, and a value to everything else: no operand, index,
\* argument or right side is an address, and no store goes to a loaded value.
AddressesReachTargets ==
    Running /\ ~visiting =>
        (last.kind = "address") =
            (frames # <<>> /\ Top.kind = "target" /\ Top.aim.var \notin Params)

\* The offset of an element as arrays lay it out: each index counts blocks of all the
\* dimensions behind it, of which the last may be left out.
RowMajor(x, given) ==
    LET offset[j \in 0 .. Len(Dims[x])] ==
            IF j = 0 THEN 0
            ELSE offset[j - 1] * Dims[x][j] + (IF j <= Len(given) THEN given[j] ELSE 0)
    IN  offset[Len(Dims[x])]

\* An assignment stores to the element that its left side names, whatever assignments
\* and references its indexes and its right side hold.
StoresHitTheElement ==
    \A i \in DOMAIN frames :
        LET f == frames[i] IN
        f.kind = "source" /\ f.aim.var \in Vars =>
            f.dest = Address(f.aim.var, RowMajor(f.aim.var, f.aim.given))
=============================================================================
