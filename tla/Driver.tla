-------------------------------- MODULE Driver --------------------------------
(***************************************************************************)
(* main() in src/main.cpp behind its options, with LLVMBuilderChain of        *)
(* src/asm_builder.cpp: after the dependence analysis it takes the programs    *)
(* of ProgramList through the parser, the builder and an external compiler, in  *)
(* that order and one after the other, and may run and check the result.       *)
(*                                                                         *)
(* Of a program, what counts is which other programs it calls.  A flag is      *)
(* chosen where it is read.  The disk keeps the texts and the executable of     *)
(* earlier compilations.                                                    *)
(***************************************************************************)
EXTENDS PreAnalysis, Integers

CONSTANT Old      \* no work of this compilation: left on the disk by an earlier one, or
                  \* a text that is cut off

VARIABLES
    backend,      \* the build of kalecc that runs: "llvm" or "c"; "any" before it matters
    stage,        \* where main() is; "endless" if the parser does not come back
    next,         \* the next program of the loop that main() is in
    calls,        \* calls between programs: <<caller, callee>>
    built,        \* the programs whose functions have their LLVM function
    text,         \* the program whose text is in each file kale_mod<i>.ll or file<i>.c
    unwritten,    \* the programs whose text could not be written (seen by no one)
    objFileList,  \* ObjFileList: the files for the compiler, by number
    executable,   \* the programs that are linked in the output file, or Old
    output,       \* output.txt: what its writer was linked from, {} without the file
    toolFailed,   \* has a command failed?
    exitStatus    \* of kalecc; Running before

progress == <<backend, next, calls, built, text, unwritten, objFileList>>
outcome == <<executable, output, toolFailed>>
driverVars == <<stage, progress, outcome, exitStatus>>
allVars == <<vars, driverVars>>
Running == -1

\* what system() may return: success, exit(1), a signal, and that it cannot start
SystemResult == {0, 256, 11, -1}

DriverInit ==
    /\ Init
    /\ backend = "any" /\ stage = "analysis" /\ next = 1
    /\ calls = {} /\ built = {}
    /\ text = [i \in 0 .. MaxArgs * (MaxImports + 1) |-> Old]
    /\ unwritten = {} /\ objFileList = <<>>
    /\ executable = Old /\ output = Old
    /\ toolFailed = FALSE /\ exitStatus = Running

\* The system keeps the lowest byte of what main() returns.
Exit(result) == stage' = "exited" /\ exitStatus' = result % 256

\* A failed assertion is SIGABRT (the build files leave assertions in), a null pointer
\* SIGSEGV; the status is the one a shell reports.
Killed(signal) == stage' = "exited" /\ exitStatus' = 128 + signal
SIGABRT == 6
SIGSEGV == 11

-----------------------------------------------------------------------------
Analyse ==
    /\ stage = "analysis" /\ Next
    /\ UNCHANGED driverVars

AnalysisFails ==
    /\ stage = "analysis" /\ phase \in {"cyclic", "nofile"}
    /\ Exit(1)
    /\ UNCHANGED <<vars, progress, outcome>>

AnalysisSucceeds ==
    /\ stage = "analysis" /\ phase = "ok"
    /\ stage' = "parse" /\ backend' \in {"llvm", "c"}
    /\ UNCHANGED <<vars, next, calls, built, text, unwritten, objFileList, outcome, exitStatus>>

More == next <= Len(fileIndex)

Advance == next' = next + 1

\* the programs that getFuncASTNode looks through for a name
Below[p \in Prog] == UNION {{q} \cup Below[q] : q \in Elements(deps[p])}

\* Mutant of Callable: a function may come from an import that is not parsed yet
MutCallable(p) == Below[p]

\* only a program that is parsed has functions in its table
Callable(p) == {q \in Prog : q < p /\ q \in Below[p]}

\* The constructor of TokenParser opens the file by its FileIndex.  The files of the
\* command line were opened before; one that is only imported may be missing.
Opens(p) == NameOf(p) \in present

\* generateSrcToAst of the next program
Parse ==
    /\ stage = "parse" /\ More /\ Opens(next)
    /\ \E callees \in SUBSET Callable(next) :
           calls' = calls \cup ({next} \X callees)
    /\ Advance
    /\ UNCHANGED <<vars, stage, backend, built, text, unwritten, objFileList, outcome,
                   exitStatus>>

\* LOG_ERROR: the program is not well formed, or calls a function that no parsed import has
ParseFails ==
    /\ stage = "parse" /\ More /\ Opens(next)
    /\ Killed(SIGABRT)
    /\ UNCHANGED <<vars, progress, outcome>>

\* getToken reads an open string, and the end of the file, for ever.
ParseHangs ==
    /\ stage = "parse" /\ More /\ Opens(next)
    /\ stage' = "endless"
    /\ UNCHANGED <<vars, progress, outcome, exitStatus>>

\* Nobody asks openSuccess(): getChar reads from a null Handle.
ParseMissing ==
    /\ stage = "parse" /\ More /\ ~Opens(next)
    /\ Killed(SIGSEGV)
    /\ UNCHANGED <<vars, progress, outcome>>

\* OnlyParse and OnlyPrintAST; OnlyPrintIR
StopEarly ==
    /\ ~More
    /\ stage = "parse" \/ (stage = "build" /\ backend = "llvm")
    /\ Exit(0)
    /\ UNCHANGED <<vars, progress, outcome>>

\* the loops over ProgramList follow each other
NextLoop(from, to) ==
    /\ stage = from /\ ~More
    /\ stage' = to /\ next' = 1
    /\ UNCHANGED <<vars, backend, calls, built, text, unwritten, objFileList, outcome,
                   exitStatus>>

FinishParse == NextLoop("parse", IF backend = "llvm" THEN "build" ELSE "print")

\* visit(ProgramAST) of the IR builder, behind the type checker
Build ==
    /\ stage = "build" /\ More
    /\ built' = built \cup {next}
    /\ Advance
    /\ UNCHANGED <<vars, stage, backend, calls, text, unwritten, objFileList, outcome,
                   exitStatus>>

\* The type checker, the IR builder or the C visitor fails an assertion or crashes.
BuilderDies ==
    /\ stage \in {"build", "print"} /\ More
    /\ \E signal \in {SIGABRT, SIGSEGV} : Killed(signal)
    /\ UNCHANGED <<vars, progress, outcome>>

FinishBuild == NextLoop("build", "print")

\* Mutant of TextFile: a file for each depth of imports
MutTextFile(p) == Len(deps[p])

\* the number in the name of the file for a program
TextFile(p) == IF backend = "llvm" THEN fileIndex[p] ELSE p - 1

\* the file goes to the compiler, whatever becomes of it
AddFile ==
    /\ stage = "print" /\ More
    /\ objFileList' = Append(objFileList, TextFile(next))
    /\ UNCHANGED <<vars, backend, calls, built, outcome>>

PrintText ==
    /\ AddFile
    /\ text' = [text EXCEPT ![TextFile(next)] = next]
    /\ Advance
    /\ UNCHANGED <<stage, unwritten, exitStatus>>

\* main() looks at no ofstream: the file stays as it lies there, or is cut off, and the
\* loop goes on.
CannotWrite ==
    /\ AddFile /\ backend = "c"
    /\ unwritten' = unwritten \cup {next}
    /\ Advance
    /\ UNCHANGED <<stage, text, exitStatus>>

\* runAndCompileToExecutable does not look at EC either, but a raw_fd_ostream with an
\* error that nobody cleared ends the process when it is destroyed.
FatalWrite ==
    /\ AddFile /\ backend = "llvm"
    /\ Exit(1)
    /\ UNCHANGED <<next, text, unwritten>>

FinishPrint == NextLoop("print", "link")

\* A function of another module is not declared in the text of this one.
Accepts(result) == (backend = "llvm" /\ calls # {}) => result # 0

\* Mutant of LinkResult: the result itself, as in the other build
MutLinkResult(result) == result

\* what main() returns if the compiler fails
LinkResult(result) == IF backend = "llvm" /\ result # 0 THEN 1 ELSE result

\* clang++-15 or gcc with all files
Link ==
    /\ stage = "link"
    /\ \E result \in SystemResult :
           /\ Accepts(result)
           /\ toolFailed' = (result # 0)
           /\ executable' = IF result = 0 THEN {text[i] : i \in Elements(objFileList)}
                            ELSE executable
           /\ IF LinkResult(result) = 0 THEN stage' = "run" /\ UNCHANGED exitStatus
              ELSE Exit(LinkResult(result))
    /\ UNCHANGED <<vars, progress, output>>

\* without -r
DoNotRun ==
    /\ stage = "run"
    /\ Exit(0)
    /\ UNCHANGED <<vars, progress, outcome>>

RunOnly ==
    /\ stage = "run"
    /\ \E result \in SystemResult : toolFailed' = (result # 0) /\ Exit(result)
    /\ UNCHANGED <<vars, progress, executable, output>>

\* with --check-input: the output goes to output.txt, if the shell can create it
RunForCheck ==
    /\ stage = "run" /\ backend = "llvm"
    /\ \E result \in SystemResult :
           /\ toolFailed' = (result # 0)
           /\ output' \in {output, executable}
           /\ IF result = 0 THEN output' = executable /\ stage' = "filecheck" /\ UNCHANGED exitStatus
              ELSE Exit(result)
    /\ UNCHANGED <<vars, progress, executable>>

\* FileCheck-15, whose result outlives the removal of output.txt
FileCheck ==
    /\ stage = "filecheck"
    /\ \E result \in SystemResult : toolFailed' = (result # 0) /\ Exit(result)
    /\ output' = {}
    /\ UNCHANGED <<vars, progress, executable>>

DriverNext ==
    \/ Analyse \/ AnalysisFails \/ AnalysisSucceeds
    \/ Parse \/ ParseFails \/ ParseHangs \/ ParseMissing \/ StopEarly \/ FinishParse
    \/ Build \/ BuilderDies \/ FinishBuild
    \/ PrintText \/ CannotWrite \/ FatalWrite \/ FinishPrint \/ Link
    \/ DoNotRun \/ RunOnly \/ RunForCheck \/ FileCheck

DriverSpec == DriverInit /\ [][DriverNext]_allVars

\* One thread runs main(); the commands it waits for end.
FairDriverSpec == DriverSpec /\ WF_allVars(DriverNext)

-----------------------------------------------------------------------------
(* Properties.                                                              *)

\* When the calls of a program are built, the programs they lead to are: the order in
\* which the dependence analysis met the files serves the parser's lookups and the
\* builder's getLLVMFunction alike, whatever imports what.
CalleesAreBuilt ==
    stage = "build" /\ More => \A c \in calls : c[1] = next => c[2] \in built

\* What is run is linked from one text per program, and the text of none has replaced
\* another's, whatever imports what.  The text is the one that this compilation printed,
\* and nothing older, except where the build with the C translation could not write it
\* (main.cpp:252 does not look): there the file as it lies is compiled, linked and run.
\* What FileCheck is shown is the output of all programs as they were printed now.
RunsWhatItBuilt ==
    /\ stage = "link" => Len(objFileList) = Len(fileIndex)
    /\ stage \in {"run", "filecheck"} =>
           executable = {IF p \in unwritten THEN Old ELSE p : p \in Prog}
    /\ stage = "filecheck" => output = Prog

\* The build with LLVM ends with zero only if all went well up to the executable, or
\* if it was told to stop before.
ZeroMeansBuilt ==
    backend = "llvm" /\ exitStatus = 0 /\ objFileList # <<>> => executable = Prog

\* A call of kalecc whose parser comes back from every file ends, whatever the files
\* import and however often they are listed: the search for cycles ends although it
\* marks no program as seen, and so do the loops over its programs.
CompilationEnds == [](stage # "endless") => <>(stage = "exited")

\* doc/AboutTest.md:8,13: the status of a test tells whether the program ran and its
\* output was right.
ZeroMeansSuccess == exitStatus = 0 => ~toolFailed
=============================================================================
