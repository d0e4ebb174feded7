# A verification project for the Kaleidoscope compiler

TLA+ models of the compiler in this repository, the TLC configurations that check
them on small instances, and proofs about seven of them that TLAPS checks for every
value of the constants. File names are relative to the repository; `ir_builder.cpp:150`
stands for `src/ir_builder.cpp`, line 150, and headers are in `include/`.

## 1. The system

`kalecc` compiles `.k` files to an executable. It is one process with one thread (the
option `-j` is read, and nothing uses it). `main.cpp` runs passes one after the other
over lists and tables that are global:

    command line -> PreAnalysis -> GrammarParser (+ TokenParser) for each program
        default build:  -> TypeChecker -> KaleIRBuilder -> LLVM, linker
        C build:        -> CppBuilder -> gcc

There is no concurrency, no retry and no recovery: an error ends the process, through
`LOG_ERROR` (a message and a failed assertion, `include/error.h:5`) or `exit`. The models
describe builds with assertions: a Debug build, or one without a build type, as
`CMakeLists.txt` sets none. A Release build, which the workflow and `build_release` make,
has `-DNDEBUG`: `LOG_ERROR` prints there and the parser goes on in a state that no model
here has. What is hard is the state that every pass keeps by hand across recursive calls
on inputs of any nesting: stacks that must be popped on every way out, flags that one
function sets for another, tables that are read before or after they are complete,
attributes of "the last token" that a look ahead replaces.

| Component | Code | State | Operations | Hard | Correct means |
| --- | --- | --- | --- | --- | --- |
| Dependence analysis | `pre_analysis.cpp` | `InputFileList`, `FileNameList`, `ProgMap`, `CurrentIndex`, `DagCheckStack`, each program's dependences | open a file, match an import, close, search for a cycle | files listed twice, imported before or after being listed; index tables that are exchanged; a search without a visited set | one program per file; the recorded graph is the import relation; the verdict is right both ways and comes |
| Token parser | `parser.cpp:22-264` | file position, `LastChar`, `LineInfo`, and the attributes of the last token | `getToken`, `lookUp(n)` | look-ahead restores some state and not the rest | looking ahead changes nothing that is read |
| Grammar parser: declarations and statements | `parser.cpp:272-907`, `1244-1332` | symbol tables, function and global tables, `IsFuncScope`, `NodeStack` | one parse function per construct; lookups through the imports' parsers | a flag shared by a function and its first block, hand-popped stacks, programs parsed in order of first mention | names mean what lexical scoping says; parents are the constructs around |
| Grammar parser: expressions | `parser.cpp:912-1235` | call stack | one function per priority | nesting of priorities and brackets | an expression means what the table of `README.md:45-55` says |
| Type checker | `type_checker.cpp` | types and signs in the tree | bottom-up visit, `matchType` | a sign that constants never get, a missing return statement, a constant retyped at its root only | what is undefined stays among constants |
| IR builder: control flow | `ir_builder.cpp:46-245` | `CurFunc`, insertion point, `AfterStack`, `CondStack` | one visitor per statement | blocks created early and placed late; jumps and returns anywhere | the block graph does what the statements say |
| IR builder: values | `ir_builder.cpp:247-817` | `LastValue`, `IsNeedPointer` | one visitor per expression, conversions | implicit conversions of width, sign and kind; a flag that asks for an address; the same constant computed twice | the code computes what the source means; addresses go to assignments |
| C text builder | `cpp_builder.cpp` | `buffer`, `head`, `size`, `deepth`, `argNum`, `parmNum` | one visitor per node, `write`, `writeEnd` | a buffer that is flushed mid-text, globals that count commas | the text is delivered once and says what the tree says |
| Driver, options | `main.cpp`, `global_variable.cpp` | option flags, `ProgramList`, `ObjFileList` | the passes in order, external commands | order of programs; what earlier compilations left on the disk; results of commands | what runs was compiled now from all programs; the exit status tells |
| Tree, visitors, dump | `ast.h`, `ast_visitor.cpp`, `ast_dumper.cpp` | the nodes | getters, traversal, printing | - | - |
| Assembly, linking | `asm_builder.cpp` | the text files | one text per program, external compiler | file names | every program is linked once |
| Run-time library | `kale_std/` | - | C streams | input/output | - |

Interaction: the analysis fills `ProgramList` and the dependence lists; the parser of
each program finds names in its own tables and, through `getOrCreateGrammarParserByProg`,
in those of its dependences; the tree carries parents and resolved nodes to the type
checker and builders; the IR builder tells globals from locals by the *parents* that
`NodeStack` gave them, and the C builder tells arguments by them.

## 2. Modules

| Module | Models | Run / proofs |
| --- | --- | --- |
| `PreAnalysis` | `pre_analysis.cpp` | `deps_check`, `deps_doc`; `DriverProofs` |
| `Driver` | extends `PreAnalysis`: `main()` of both builds, linking and running | `deps_check`, `exit_status`; `DriverProofs` |
| `TokenParser` | scanner | `scan_lookahead`; `TokenParserProofs` |
| `GrammarParser` | declarations, statements, scopes, names, all programs in main's order | `parse_names`, `parse_parents`, `parse_redefinition`; `GrammarParserProofs` |
| `ExprParser` | expressions | `expr_priorities`; `GrammarParserProofs` |
| `StructuredFlow` | abstract: which statement of structured source can be executed | property of `flow` |
| `IRControlFlow` | basic-block emission; implements `StructuredFlow` | `flow`; `IRControlFlowProofs` |
| `TypeChecker` | type checker | `values`; `TypeCheckerProofs` |
| `ExprBuilder` | extends `TypeChecker`: values, conversions and constants of the IR builder | `values` |
| `RefBuilder` | addresses and indexes of the IR builder | `references`; `RefBuilderProofs` |
| `CppBuilder` | C text builder | `c_text`; `CppBuilderProofs` |
| `Induction` | nothing of the code: induction over numbers, for the proofs about recursive functions | |
| `MC*` | constants, inputs and symmetry for TLC | |

Conventions. Recursive code is a machine whose stack (`frames`, `stack`, `todo`,
`dagCheckStack`) is the C++ call stack: a function is split at its recursive calls, and
every other part of it is one action, with all the calls it makes. Inputs are chosen
either in Init (disks, texts, token strings) or while the program runs ("the next
statement is an `if`"), which covers all inputs up to the bounds. A failed assertion
and `exit` set a status and stop the model. Variables and operators keep the source's
names; a line `\* Mutant` marks an operator that is the code with a plausible bug in it,
which must break the property it is there for.

### PreAnalysis
`OpenFile`, `CannotOpen`, `ScanImport`, `CloseFile`, `FinishScan` are the loop of
`preFileDepAnalysis`; `StartRoot`, `Follow`, `Backtrack`, `Accept` are the recursion of
`depCheck`, whose C++ frames are `nextDep` beside `DagCheckStack`. The disk (which file
imports what, which exist) and the command line are constants of a behaviour. Not
modelled: the regular expression (an import in a comment matches it), and paths (an
import names a file the way the command line does).

### Driver
`Analyse` is a step of `PreAnalysis`; then `stage` and `next` are the place in `main()`:
the loop it is in and the program it has come to. Of a program it keeps which programs it
calls. `Callable` is what `getFuncASTNode` can find: of the imports below a program, those
that were parsed before it. Options are chosen where they are read. `system()` returns
success, the status of a failed command, that of a signal, or -1 (`SystemResult`); the
exit status of `kalecc` is the lowest byte of what `main()` returns. A file or executable
holds the program it was made from, or `Old` from before; a text that was cut off counts as
`Old` too.

Every pass has its ways to fail. The parser stops at an error (`ParseFails`), hangs in a string
that is not closed (`ParseHangs`, `parser.cpp:87`: the stage `endless`, which has no step), or
reads from a null handle when the file of an imported program is missing (`ParseMissing`:
`openSuccess()` is never asked). The type checker and the builders fail assertions or
dereference null pointers (`BuilderDies`); where they do is in the modules of the components.
The C build looks at no `ofstream`: a text that cannot be written (`CannotWrite`) leaves the
file as it lies, and `unwritten`, which the code does not have, notes the program. The LLVM
build does not look either, but a `raw_fd_ostream` with an error ends the process when it is
destroyed (`FatalWrite`). `Accepts` is the rule of the
compiler that gets the texts: none of them declares the functions of another program
(`ir_builder.cpp:531` puts the foreign function itself into the call).

### TokenParser
A cursor is what `lookUp` saves: position, last character, line and column; `idStr` and
`literal` are what it does not save. `GetToken` reads one token, `LookUp` any number up
to `MaxAhead`. `foreseen` records what looking ahead has promised.

### GrammarParser
`frames` holds the parse functions under way; an expression is the names it refers to.
The tables of all programs' parsers are functions from programs. `binding` is the kind of
the name that was resolved last, the name, and the declaration it got. An `EnterIf` is the
code of `parseIfStmt` up to its nested statement, and so on. `DeclarationAsBody` is the
case in which `parseStmt` returns `nullptr` through several control statements.

### ExprParser
One frame per parse function, `Brackets` for a parenthesis, the arguments of a call or
an index. Trees are tuples, so that results can be compared with the tree the text was
written for. `Close` eats whatever token comes, as the code does. Which trees there are is
a constant, closed under operands, and how each is written is another, fixed by
`TreesAssumption`: every tree has the form of an operator with its operands, and its text is
`Written`, which puts parentheses around an operand where the table asks for them.
`MCExprParser` writes its trees by a recursion of its own, and TLC finds that the assumption
holds for all of them.

### IRControlFlow and StructuredFlow
`code` is the content of each block, `layout` the order of the function's list,
`insertPt` the builder's position. A visitor's local variables are in its frame. The
refinement mapping computes the blocks that emitted code reaches (control leaves a block
at its first terminator) and says that a statement is live when the insertion block is
reached and open.

### TypeChecker and ExprBuilder
`nodes` is the tree in the order in which visitors return, `open` the finished operands
that wait for an operator; an action is a visitor, which takes operands from `open` and
adds its node. `NumberExprAST::setIsSigned` hides that of `ExprAST` (`include/ast.h:714`), so
the sign of a constant is arbitrary; `matchType` ends without a return statement for two
unsigned types of the same size, and then returns either answer.

`ExprBuilder` goes over the same nodes when the type checker is done, as `main()` does, and
yields a value for each: its LLVM type, its bits, and next to them `truth`, the number the
source means when nothing wraps, and `tame`: no number so far was negative, too large for
its type, or undefined in LLVM. A conversion that the source asks for (`Convert`) is tame if
the number fits; one that the builder inserts between operands (`Widen`) must lose nothing,
so it stays tame whatever it does. An instruction that does not exist for its operands
gives `Invalid` and ends the build. Behind the last node come the uses of a value: a
statement, a condition, a return. `ConstInt` is `getConstIntByExpr` of every node.

### RefBuilder
`last` is `LastValue`: an address with its offset, or a number. A frame holds the local
variables of a visitor; that of an index has the stride, the next dimension from the right
and the sum so far. The expression is chosen as it is visited. Numbers fit every type here
(conversions are `ExprBuilder`'s). Five places are undefined in C++, and end the model: more
indexes than dimensions (`TooManyIndexes`); a call with fewer arguments than the function has
parameters, whose loop reads behind them (`MissingArgument`, `ir_builder.cpp:525`); a store to
a parameter (`StoreToParam`) and an element of one (`IndexedParam`), as nobody sets the LLVM
type of a parameter (`ir_builder.cpp:56-58`, `679`, `507`); and `IdIndexedRefAST::getLLVMValue`,
which has no return statement (`include/ast.h:781`; `NoReturnValue`, beside the outcome that
unoptimised builds have).

### CppBuilder
A visitor is the list of what it does; `todo` is what all visitors under way still do.
`Put` is one iteration of `write`'s loop. A name or number is one character `w`, a type
or keyword `t`, an operator `o` or, with one operand, `u`; a string stands between `q` and
`Q`, and there is one that holds the characters `),`. `compound` notes that something was
visited behind which the code leaves out separators. The character before the start of the buffer, which
`write` reads behind a flush, is the top byte of a reference on the machines the
compiler runs on, never a parenthesis. `argNum` and `parmNum` are the globals.

## 3. What the runs show

| Run | Question | Bounds | Answer |
| --- | --- | --- | --- |
| `flow` | Can a sequence of statements make the builder leave a block open, write behind a branch, place a block twice, or emit code that runs when its statement should not? | 7 blocks, 5 statements, 2 functions | No. An `if`-`else` around a loop takes 7 blocks with the entry; deeper nesting repeats the interaction of a construct with the one around it |
| `deps_check` | Is the recorded graph right and the verdict too? Are callees built before callers, is what runs what was compiled, does zero mean that it was, and does a call of `kalecc` end? | all disks of 3 files, one of which may be missing, 2 arguments, 2 imports per file; all calls between programs, both builds, all results of commands | Yes, for the files listed, with two exceptions that the properties name: a text that the C build cannot write (`main.cpp:252`) is run as it was left there, and an open string is parsed for ever. Three files give all shapes of cycles, self-imports, diamonds and repeated imports. The names of files are taken in one order (`MCInit`) |
| `deps_doc` | Is what is accepted acyclic, as `pre_analysis.h:11-12` says? | 2 files, 1 on the command line | No: a file that is only imported is never opened |
| `exit_status` | Does the exit status tell whether the program ran and `FileCheck` agreed, as `doc/AboutTest.md:8-13` wants? | 2 files | No: the wait status 256 of a command that exits with one leaves zero in the lowest byte |
| `parse_names` | Do tables and parents follow the source? | 2 programs, 2 variables, 2 functions, 3 scopes, nesting 4 | Yes, up to the two nodes that each external function leaves on `NodeStack` |
| `parse_parents` | Is the parent of a global the program, as the IR builder expects? | 1 variable behind 1 external function is enough | No |
| `parse_redefinition` | Is a second definition rejected, as `parser.h:104` says? | | No, once there is an external declaration |
| `scan_lookahead` | Does looking ahead change what is read, and which texts are read for ever? | all texts of up to 4 of 10 characters, 2 tokens ahead | No: tokens, lines and the names of words stay right. Those with an open string only |
| `expr_priorities` | Does an expression mean what the table says? | expressions with up to 3 nested operators, one or two of each priority; all strings of a few tokens | Yes, but for `&&` |
| `values` | Does the emitted code compute what the source means, do both ways to compute a constant agree, does LLVM accept what is built? | 5 nodes; integers of 1 to 4 bits in the order of the real widths, double; contents 1 and all ones; 10 operators over two operands, 2 above them | Yes while no number is negative or too large, without `<<`, and for integers without division, `!`, `&&` and `\|\|` of wide operands. Five nodes are an operator over an operator and a variable, on either side, or over a reference, call or unary operator, which is where one visitor's retyping meets another's |
| `references` | Do addresses come back to assignments only, and do stores hit the element the source names? | a scalar, arrays of 1 and 3 dimensions of unequal lengths, a parameter, numbers 0 to 2, 4 nested references, operators or calls | Yes, up to the first step that C++ does not define, and not for a parameter, whose value is no address. Four visits put an assignment into an index of an assignment's left side |
| `c_text` | Is the text delivered, indented and separated? | buffer of 5 characters, 3 visited nodes beyond leaves, 3 arguments | Yes, but for commas behind a parenthesis, and separated as long as `compound` is empty: no argument in front of the last is a call, an operator or an indexed name, no name has two indexes, and no initializer list holds a list beside an expression. The buffer fills up inside of every kind of text |

What each property says is in the comment in front of it in its module. Deadlock is not
checked where a model stops by design: the compiler ends. TLC's only symmetry is that of
variable names and files in `GrammarParser`, whose actions do not tell them apart; the
run has no liveness property.

A type invariant is checked by a run where it says something about the code: the bounds
of a block list, a buffer or a file table. `TypeChecker`'s is proved.

Fairness is assumed in one run: `deps_check` has `WF(DriverNext)`, because `kalecc` is one
thread that nothing blocks but the commands it waits for, which are taken to end, and because
the passes that are one step there (a file parsed, a program built) are recursions over finite
texts and trees. `CompilationEnds` is its liveness property: it shows that the search for
cycles and the loops over the programs end, whatever imports what. It is about calls in which
the parser comes back from every file. From which texts it does not, `TokenParser` says, where
the scanner in an open string is a state of its own (`stuck`) and `OnlyOpenStringsHang` an
invariant. No other component waits for anything.

Divergences seen while modelling that no run states: `&&` is in no operator set
(`parser.cpp:935`, against `README.md:55`); a closing bracket is eaten unseen
(`parser.cpp:1107`, `1132`, `1195`); `main.cpp:154` parses an importing program before what
it imports unless the user lists the import first; `continue` in a `for` skips the third
expression (`ir_builder.cpp:143`); a `break` or `continue` outside of a loop is parsed and fails
an assertion of the builder (`ir_builder.cpp:134`, `142`); a call among the arguments of
another resets `argNum`, so `f(g(), 1)` is written `f(g()1)` (`cpp_builder.cpp:354`); an assignment to a parameter stores
through the argument's value (`ir_builder.cpp:56`, `250`); the second of two comment lines in a row is read as
code (`parser.cpp:70`); `!` runs on into `-` and may wrap where that is promised not to happen
(`ir_builder.cpp:373-393`); `<<` emits a shift to the right (`ir_builder.cpp:339`); `/` is
the floating-point division for integers too (`ir_builder.cpp:303`); an integer left of a
floating-point number is extended as if it were one (`ir_builder.cpp:731`); integers are
widened without their sign (`ir_builder.cpp:682`, `732`, `749`), so negative numbers change; a
constant is cut to the type of the variable next to it (`type_checker.cpp:170-181`); the
initial value of a local variable is stored with pointer and value exchanged
(`ir_builder.cpp:116`); a call of another program's function does not link in the LLVM
build (`ir_builder.cpp:531`); an initialiser list keeps its last expression only
(`parser.cpp:556`).

## 4. What is proved

Proofs hold for all files, texts and bounds; they assume only the named ASSUMEs, which
TLC evaluates in the runs.

`DriverProofs`, the analysis: `TypeCorrect`, `OneProgram`, `ScanIsFaithful`, `ReportIsTrue`,
`Verdict`. The invariant `IInv` adds to the type that a program's index is its position
and names are distinct (`TablesOK`), that `ProgMap` inverts `FileNameList` while the scan
runs (`ScanOK`), that recorded edges are imports and scanned imports are recorded
(`GraphSound`, `GraphComplete`), that the stack is a path (`PathOK`), and that what the
search has returned from is not *doomed* (`SearchOK`, `OutcomeOK`). A program is doomed if
it is in a set of programs each of which imports one of the set: this replaces
reachability, which would need an induction. If all dependences of a program are not
doomed, nor is the program; at the end no program is, which is acyclicity. In the other
direction the path closes a cycle, which is such a set.

`DriverProofs`, the driver: `DriverAnalyses`, `CalleesFirst`, `RunsTheResult`, `ZeroIsHonest`. A step of the
driver is a step of `PreAnalysis` or changes nothing of it, so all that is proved of the
analysis holds of whole compilations. `DInv` adds, over the analysis' `IInv`, what the stage says
of `next` and of the status (`StageOK`), that the programs built are those before `next`
and each calls only programs that come earlier in the list (`BuiltOK`), and that the object
files, and the texts except those that could not be written, are of this compilation as far
as the loop has come (`TextOK`). `RunsTheResult` says exactly which texts the executable has.
That two programs never write one file comes from the analysis: a program's index, which is
the number of its file, is its position in the list.

`IRControlFlowProofs`: `TypeCorrect`, `InsertionAtTheEnd`, `NoFallThrough`. The code asks the
*last block of the function* whether a branch is missing and emits the branch into the
*insertion block*. That these are the same block is not inductive alone: the visitors
under way hold blocks that must be distinct from it or already closed. `IInv` adds that
(`FramesOK`) to `TypeOK`, `InsertAtEnd` and `ClosedBlocksTerminate`. The proof has a lemma
for each way a visitor changes the graph and a step for each action of `Next`.

`JumpsGoToTheirLoop`, `NoDanglingBranch`, `SlotsTakenOnce` and the action property
`LeftBlocksStay` need a second invariant over it, `GInv`. `JumpsOK`: the two jump stacks are the
blocks in the frames of loops, read from the frames by position. `GraphOK`: blocks not
created yet, and those that wait in a frame, are empty; no block is in two frames, or in
a frame and in the list; every branch leads to a block that is placed or waits; nothing
leads to the entry, and no `alloca` is outside of it.

`EmissionImplementsFlow`, the refinement of `StructuredFlow`: every behaviour of the emission,
seen through the mapping, is one of structured control flow. The reached set is the least set of
blocks that holds the entry and is closed under the jumps of its blocks. `Reached` computes it
as a recursion over the number of jumps, and an induction shows once that this is the least such
set (`ReachableIsHull`); what follows speaks of closed sets only. Jumps out of an unreached
block, or into an empty one, change the set by at most their target (`ReachGrows`,
`ReachLeaves`). A third invariant, `ReachOK`, ties blocks to constructs: in a construct that was
entered live, the blocks that it has still to place are reached, except the block behind an
if-else, which is reached only if a branch got there; in one that was entered dead none is;
and code is live only inside constructs that were entered live. Every action has a lemma that
names the abstract step it is, or shows that the mapped state stutters.

`GrammarParserProofs`: `TypeCorrect`, `TablesFollowScopes`, `ParentsAreRight`, `NamesAreLexical`,
`CallsAreResolved`, `NamesStayApart`, for any files, names, imports and nesting. `IInv` adds to
the properties
- how frames nest: one function's header, or its body with blocks and controls inside
  of it, and which flag is set where (`FramesOK`). The flag that a function leaves for its
  first block is set exactly in its header;
- that scopes are numbered from the outside and a declaration never has the number of a
  scope to come (`ScopesOK`), so a new table is empty, and a declaration changes the
  innermost one alone;
- that the global tables hold declarations of their own program, of a function the
  first; that programs further down the list have nothing yet; and that a function
  whose header is behind the parser is found from its program (`TablesOK`).

A lookup is a recursion over the imports (`FindIn`). It has a result because the imports are
acyclic: of the programs for which there is none, one would import only programs that
have one (`FindInSolves`). The result is nonzero exactly when a program in sight has the name,
by sets of programs closed under imports in place of an induction along paths
(`FindInFacts`). A name is then added only where no program in sight has it; programs that see
the current one come later in the list and have no names yet; that is `NamesStayApart`.
`NamesAreLexical` needs the order of scopes: the table that `GetVariableNode` stops at is the
last one with the name. The stack of nodes is the program, two nodes for each external
function, and the nodes of the frames, outermost first; that the first of these is what
the code pops is `NodesFollowNesting`, and that the two nodes are left is what
`parse_parents` shows to be wrong for the IR builder.

It goes on to `ExprParser`: `ExpressionsMeanTheTable`, for expressions of any depth, any number
of arguments and indexes. The property speaks of the end of the parse only, so an invariant must
say what the frames in between will still do. The parser is deterministic: `After` is the one
step from a configuration of tokens, position, call stack and value, which every action takes
(`CallsMove`, `ReturnsMove`, `ErrorsFail`), and `Leads` relates a configuration to those behind it.
`Parsed` says of a tree and a level: wherever the text stands in a file, and whatever lies below
on the call stack, the function of that level, once called, leads to the end of the text with the
tree as its value, unless the token behind the text is one that the function would go on
with. It is proved for all trees by induction on the length of the text: first at the level
that a tree has (`OwnIsComplete`, with `Looped` for the loops, which must group to the left, and
`ItemsRead` for arguments and indexes), then at every looser level, which only calls and
returns (`Climbs`), and within parentheses at the tighter ones (`ParensParsed`). `ExprInv` is that
the present configuration leads to the end of the file with an empty call stack and the
tree; a step keeps it, as there is no other step to the end (`LeadsByStep`). It quantifies
over sets of configurations, so TLC checks only its consequence, the property.

`TokenParserProofs`: `LookingIsHonest` (an action property), `LinesAreRight`, `NameIsRight`,
`BlanksAreSkipped`, `HangsInStringsOnly`, for sources of any length, any keywords and any
look-ahead. A cursor is a position of the file: `loc` with `LastChar`, which at the end of the
file is one behind it (`CursorFacts`). So what `getToken` reads is a function of the cursor, and
`lookUp` is a chain of such readings; two chains from one cursor agree. `IInv`: the row is the
number of line ends up to the cursor and the column the distance from the last (`Right`);
what was foreseen is the chain from the cursor (`Honest`), which `getToken` shortens and
`lookUp` repeats and extends; and in a source without `#` and `'` an even number of
quotation marks is behind the cursor (`EvenAt`), as a token has none or two of them. As the
file never changes, neither does any of these functions (`SameReading` and the lemmas after
it).

`TypeCheckerProofs`: `TypeCorrect`, `GarbageIsConfined`, `FallsOffRarely`, for expressions of any
size over any types. `IInv` adds to the three properties that a waiting operand occurs once
in `open` (`OpenDistinct`): a visitor overwrites the types of its operands, and no
expression that still waits must see that. All visitors return in one way, so one lemma
(`ReturnKeeps`) carries the invariant over a return, and the lemma of each visitor shows that
its node is constant or has the sign of its type. That two honest operands never make
`matchType` fall off its end rests on the assumption that no two unsigned types
have the same size, which holds for the language's (`type_checker.cpp:37-53`).

The same module goes on to `ExprBuilder`: `ConversionsAreExact`, `ConstantsAreFolded`,
`IntegersAreAccepted`, `TypesOutliveTheChecker`. What every conversion and instruction yields comes
first, as lemmas about operators: a value is `Exact` if its type is one of LLVM's and, where it
is tame, its bits are the number that is meant and fit the type. `TypeConvert` makes one type of two and
loses nothing (`TypeConvertFacts`); each instruction is exact on exact operands, except the
shift to the left (`BinaryFacts`, `UnaryFacts`); and where the operands are integers
`getConstIntByExpr` computes the same (`ConstBinaryAgrees`). `BInv` is `IInv` with two parts.
`TreeInv`, of the tree that the type checker leaves: how many operands a node has and which
operators, that constants have constant operands, that nobody waits for an operand again,
and that a constant over integer literals keeps an integer type. Without it
the builder's values cannot be related to the nodes; that a parent that is no constant gives a
constant any type is why the last part speaks of waiting and of inner constants only.
`ValuesInv`, of the values: they are exact, integers where the property or the literals ask for
it, and what `ConstInt` has at the same place. `ConstInt` is a recursion over the nodes, and
`ConstSteps` shows that it computes every node from its operands. The assumptions are the
language's: `Bool` has one bit (`ir_support.cpp:24`), and a variable of n bits holds less than 2 to
the power of n (`ContentAssumption`).

`CppBuilderProofs`: `TypeCorrect`, `NothingIsLost`, `IndentationIsRight`, `ListsAreRight`, for a buffer of any size,
texts of any length and programs of any nesting. `BufferOK`: `head` is behind what is in the
buffer, never behind its end, and stream and buffer together are what visitors meant to write,
up to the comma that `write` drops behind a parenthesis. It is carried through one character
first and then through the recursion over the characters of a text. `WorkOK`: a level is
`deepth` with the number of open braces, and what the visitors under way still do leads from
the present level back to the ground, the two numbers being equal wherever a node is visited.
`ListsOK` is for the commas. Every item of the stack has the ends of text that it may follow and
those it leaves, and the stack chains them (`Goes`); a visitor puts a list in the place of its
node that chains between the node's own ends. Whether a parameter or an argument is followed by
a comma is told by a counter alone, so what is left of them must stand together, one more than
the counter says, with only text in front (`Pending`): an inner call begins its own count only
where none is pending. A call, an operator or an indexed name breaks that in front of the
last argument, and not as the last one, where no comma is owed any more (`LastOne`,
`NothingBelow`): so the property covers calls that nest in last arguments, and is stated while
`compound` is empty.

`RefBuilderProofs`: `AddressesArrive`, `StoresArrive`, for arrays of any dimensions and
expressions of any nesting. `IInv` says what each visitor has kept and what was asked of it: the
flag `IsNeedPointer` is up exactly while the visitor on top is an assignment that waits for its
left side (`NeedOK`); a visitor of indexes restores what it found (`Fits`), and its sum is the
row-major offset that the indexes give if those still to come are 0 (`Summed`). That one more
index adds its stride (`OneMoreIndex`) is an induction over the dimensions: the code multiplies
strides from the right, `RowMajor` dimensions from the left.

`Induction` has what the proofs about `IRControlFlow`, `TokenParser`, `GrammarParser`, `ExprParser`,
`CppBuilder`, `RefBuilder` and `ExprBuilder` need for recursive functions: a set of numbers that
holds 0 and is closed under successors is all of them; a recursive function over `0 .. n`
or over all numbers exists; two that take the same steps are equal. It comes from least elements, as induction
rules over operators are not available to these provers. With it, what `write` does to a
text, what joining a sequence of sequences yields and what a stride is are proved for every
length.

Only model-checked:
- liveness (`CompilationEnds`): these provers have no fairness and no ENABLED.

## 5. Not modelled

LLVM's rules for the instructions behind a terminator; initial values and string constants
in the IR builder; fractions and the rounding of floating-point numbers (float and double
hold every number that is considered); option parsing, the tree dump and the run-time
library, which are input and output; builds without assertions (section 1). `switch` has no
parser (`parser.cpp:907` asserts). In `CppBuilder` the missing parentheses around operands and
the dropped dimensions are abstracted, and two places that C++ does not define: a char literal
is written from an address of a blank plus the character (`cpp_builder.cpp:318-319`) and is a
word like a number in the model; and the pointers of an `InitializedAST` that the parser did not
set (`include/ast.h:596-597`) are taken for null there, while in `Driver` the builder may crash
(`BuilderDies`). Left out are also the expressions in the indexes of an array parameter
(`RefBuilder`) and the nodes that expressions put on `NodeStack` (`GrammarParser`).

## 6. Plan

Order of work, most important first; all of it is done.

1. `IRControlFlow` with `StructuredFlow` and its proofs: the output's control flow.
2. `PreAnalysis` and its proofs.
3. `GrammarParser`: scopes, names, parents.
4. `TokenParser`, `ExprParser`.
5. `CppBuilder`.
6. `RefBuilder`: addresses, `IsNeedPointer`, strides.
7. `TypeChecker` with its proofs, and `ExprBuilder`: types, conversions, values, constants.
8. `Driver`: all passes in order, over `PreAnalysis`.
9. Proofs about `GrammarParser`: types, tables, nodes, names.
10. Proofs about `CppBuilder`'s buffer, indentation and separators, and about `IRControlFlow`'s jumps and blocks.
11. Proofs about `Driver`, from `PreAnalysis`' invariant and the order of the loops.
12. Proofs about `RefBuilder`: flag, addresses, offsets.
13. Proofs about `TokenParser`: lines, look-ahead, names, blanks, strings.
14. The refinement of `StructuredFlow`, with the reached set as the least closed set.
15. Proofs about `ExprBuilder`: conversions, instructions, constants.
16. Proofs about `ExprParser`: every expression means what the table says.
