----------------------------- MODULE PreAnalysis -----------------------------
(***************************************************************************)
(* The dependence analysis that runs before any file is compiled           *)
(* (preFileDepAnalysis in src/pre_analysis.cpp): it scans the files of the *)
(* command line for imports, gives every file it meets a program and a     *)
(* file index, and rejects the compilation if the imports form a cycle.    *)
(*                                                                         *)
(* The disk is an input: what each file imports, in textual order, and     *)
(* which files can be opened.  A program is its position in ProgramList;   *)
(* what the code keeps per program is a sequence over these positions.     *)
(***************************************************************************)
EXTENDS Naturals, Sequences

CONSTANTS
    File,          \* the file names
    NoFile,        \* no file: Fp = nullptr
    MaxArgs,       \* bound: files on the command line
    MaxImports     \* bound: imports in a file

ASSUME ConstantsAssumption ==
    NoFile \notin File /\ MaxArgs \in Nat /\ MaxImports \in Nat

VARIABLES
    args,           \* the files named on the command line
    imports,        \* the imports of each file on the disk
    present,        \* the files that can be opened
    inputFileList,  \* InputFileList: the command line, later the file names
    fileNameList,   \* FileNameList: a name for each file index
    progMap,        \* ProgMap: the program of a file, 0 if it has none
    fileIndex,      \* the FileIndex of each program; its domain is ProgramList
    deps,           \* getDependentProgs() of each program
    pos,            \* the scan's position in InputFileList
    fp,             \* Fp: the file being scanned
    curProg,        \* CurProg: its program
    line,           \* the next import of it
    root,           \* depCheck()'s position in ProgramList
    dagCheckStack,  \* DagCheckStack: the import path being followed
    nextDep,        \* for each depCheck(prog) under way, its next dependence
    phase           \* "scan", "check", or the outcome: "ok", "cyclic", "nofile"

inputs == <<args, imports, present>>
tables == <<inputFileList, fileNameList, progMap, fileIndex, deps>>
scanner == <<pos, fp, curProg, line>>
checker == <<root, dagCheckStack, nextDep>>
vars == <<inputs, tables, scanner, checker, phase>>

Prog == DOMAIN fileIndex
SeqUpTo(S, n) == UNION {[1 .. k -> S] : k \in 0 .. n}
Elements(s) == {s[i] : i \in DOMAIN s}
Last(s) == s[Len(s)]
Front(s) == SubSeq(s, 1, Len(s) - 1)

TypeOK ==
    /\ args \in Seq(File) /\ imports \in [File -> Seq(File)] /\ present \subseteq File
    /\ inputFileList \in Seq(File) /\ fileNameList \in Seq(File)
    /\ fileIndex \in Seq(Nat)
    /\ progMap \in [File -> {0} \cup Prog]
    /\ deps \in Seq(Seq(Prog)) /\ Len(deps) = Len(fileIndex)
    /\ pos \in Nat \ {0} /\ line \in Nat \ {0} /\ root \in Nat \ {0}
    /\ fp \in File \cup {NoFile} /\ curProg \in {0} \cup Prog
    /\ dagCheckStack \in Seq(Prog)
    /\ nextDep \in Seq(Nat \ {0})
    /\ phase \in {"scan", "check", "ok", "cyclic", "nofile"}

Init ==
    /\ imports \in [File -> SeqUpTo(File, MaxImports)]
    /\ present \in SUBSET File
    /\ args \in SeqUpTo(File, MaxArgs) \ {<<>>} /\ inputFileList = args
    /\ fileNameList = <<>>
    /\ progMap = [f \in File |-> 0]
    /\ fileIndex = <<>>
    /\ deps = <<>>
    /\ pos = 1 /\ fp = NoFile /\ curProg = 0 /\ line = 1
    /\ root = 1 /\ dagCheckStack = <<>> /\ nextDep = <<>>
    /\ phase = "scan"

-----------------------------------------------------------------------------
(* The scan.                                                               *)

\* getOrCreateProgAST(file): the program it returns, the tables it writes, and
\* the dependences with an empty list for a new program
IsNew(file) == progMap[file] = 0
ProgOf(file) == IF IsNew(file) THEN Len(fileIndex) + 1 ELSE progMap[file]
\* Mutant: no list is added.
MutDepsWithout(file) == deps
DepsWith(file) == IF IsNew(file) THEN Append(deps, <<>>) ELSE deps

\* Mutant: the index is taken after CurrentIndex is incremented.
MutRegisterLate(file) ==
    IF IsNew(file)
    THEN /\ fileNameList' = Append(fileNameList, file)
         /\ fileIndex' = Append(fileIndex, Len(fileIndex) + 1)
         /\ progMap' = [progMap EXCEPT ![file] = ProgOf(file)]
    ELSE UNCHANGED <<fileNameList, fileIndex, progMap>>

Register(file) ==
    IF IsNew(file)
    THEN /\ fileNameList' = Append(fileNameList, file)
         /\ fileIndex' = Append(fileIndex, Len(fileIndex))
         /\ progMap' = [progMap EXCEPT ![file] = ProgOf(file)]
    ELSE UNCHANGED <<fileNameList, fileIndex, progMap>>

\* close(): the file list from here on is that of the file indices
Close ==
    /\ inputFileList' = fileNameList
    /\ fileNameList' = <<>>
    /\ progMap' = [f \in File |-> 0]

Scanning == phase = "scan" /\ fp = NoFile /\ pos <= Len(inputFileList)

OpenFile ==
    LET file == inputFileList[pos] IN
    /\ Scanning /\ file \in present
    /\ fp' = file /\ line' = 1
    /\ curProg' = ProgOf(file)
    /\ Register(file)
    /\ deps' = DepsWith(file)
    /\ UNCHANGED <<inputs, inputFileList, pos, checker, phase>>

CannotOpen ==
    /\ Scanning /\ inputFileList[pos] \notin present
    /\ Close
    /\ phase' = "nofile"
    /\ UNCHANGED <<inputs, fileIndex, deps, scanner, checker>>

\* getImportFileName, one match of the pattern
ScanMatch(importing, imported, file) ==
    /\ phase = "scan" /\ fp # NoFile /\ line <= Len(imports[fp])
    /\ Register(file)
    /\ deps' = [DepsWith(file) EXCEPT ![importing] = Append(@, imported)]
    /\ line' = line + 1
    /\ UNCHANGED <<inputs, inputFileList, pos, fp, curProg, checker, phase>>

\* Mutant: the edge is recorded from the imported program to the importing one.
MutScanImportReversed ==
    LET file == imports[fp][line] IN ScanMatch(ProgOf(file), curProg, file)

ScanImport ==
    LET file == imports[fp][line] IN ScanMatch(curProg, ProgOf(file), file)

CloseFile ==
    /\ phase = "scan" /\ fp # NoFile /\ line > Len(imports[fp])
    /\ fp' = NoFile /\ pos' = pos + 1
    /\ UNCHANGED <<inputs, tables, curProg, line, checker, phase>>

FinishScan ==
    /\ phase = "scan" /\ fp = NoFile /\ pos > Len(inputFileList)
    /\ Close
    /\ phase' = "check"
    /\ UNCHANGED <<inputs, fileIndex, deps, scanner, checker>>

-----------------------------------------------------------------------------
(* The check: depCheck(prog), whose recursion is dagCheckStack with nextDep. *)

OnPath(prog, stack) == prog \in Elements(stack)

\* Mutant: the path that is reported lacks the program that closes it.
MutEnterNoClose(prog, stack, next) ==
    IF OnPath(prog, stack)
    THEN phase' = "cyclic" /\ nextDep' = next /\ dagCheckStack' = stack
    ELSE /\ UNCHANGED phase
         /\ nextDep' = Append(next, 1) /\ dagCheckStack' = Append(stack, prog)

Enter(prog, stack, next) ==
    /\ dagCheckStack' = Append(stack, prog)
    /\ IF OnPath(prog, stack)
       THEN phase' = "cyclic" /\ nextDep' = next
       ELSE phase' = phase /\ nextDep' = Append(next, 1)

\* depCheck(): the next root, with an empty path
StartRoot ==
    /\ phase = "check" /\ nextDep = <<>> /\ root <= Len(fileIndex)
    /\ Enter(root, <<>>, <<>>)
    /\ UNCHANGED <<inputs, tables, scanner, root>>

\* the next dependence of the program at the end of the path
Pending == deps[Last(dagCheckStack)]
Follow ==
    /\ phase = "check" /\ nextDep # <<>> /\ Last(nextDep) <= Len(Pending)
    /\ Enter(Pending[Last(nextDep)], dagCheckStack,
             Append(Front(nextDep), Last(nextDep) + 1))
    /\ UNCHANGED <<inputs, tables, scanner, root>>

Leave(stack, next) ==
    /\ phase = "check" /\ nextDep # <<>> /\ Last(nextDep) > Len(Pending)
    /\ dagCheckStack' = stack
    /\ nextDep' = Front(nextDep)
    /\ root' = next
    /\ UNCHANGED <<inputs, tables, scanner, phase>>

\* Mutants: the program stays on the path; the next root is the same one.
MutBacktrackNoPop ==
    Leave(dagCheckStack, IF Len(nextDep) = 1 THEN root + 1 ELSE root)
MutBacktrackSameRoot == Leave(Front(dagCheckStack), root)

\* every dependence is done: the program leaves the path
Backtrack ==
    Leave(Front(dagCheckStack), IF Len(nextDep) = 1 THEN root + 1 ELSE root)

Accept ==
    /\ phase = "check" /\ nextDep = <<>> /\ root > Len(fileIndex)
    /\ phase' = "ok"
    /\ UNCHANGED <<inputs, tables, scanner, checker>>

-----------------------------------------------------------------------------
Next == \/ OpenFile \/ CannotOpen \/ ScanImport \/ CloseFile \/ FinishScan
        \/ StartRoot \/ Follow \/ Backtrack \/ Accept

Spec == Init /\ [][Next]_vars

-----------------------------------------------------------------------------
(* Properties.                                                             *)

\* The names a FileIndex is looked up in: FileNameList, after close() InputFileList.
Names == IF phase = "scan" THEN fileNameList ELSE inputFileList
NameOf(prog) == Names[fileIndex[prog] + 1]

\* Each file has one program, however often and wherever it is named, and the
\* FileIndex of a program leads to a name of its own: a file is compiled once, and
\* diagnostics and the parser open the right one.
OneProgramPerFile ==
    /\ Len(Names) = Len(fileIndex)
    /\ \A p \in Prog : fileIndex[p] < Len(Names)
    /\ \A p, q \in Prog : NameOf(p) = NameOf(q) => p = q

\* The import relation of the files that are listed, as file names.
ListedEdges ==
    UNION {{<<f, g>> : g \in Elements(imports[f])} : f \in Elements(args)}
RecordedEdges ==
    UNION {{<<NameOf(p), NameOf(q)>> : q \in Elements(deps[p])} : p \in Prog}

\* What the scan leaves behind is the import relation of the listed files: no
\* import is lost, added or turned around by files that are listed twice, import
\* themselves, or are imported before they are listed.
GraphMatchesSources ==
    phase \in {"check", "ok", "cyclic"} => RecordedEdges = ListedEdges

\* A relation has a cycle iff some files each import one of them.
HasCycle(edges) ==
    \E C \in SUBSET {e[1] : e \in edges} :
        C # {} /\ \A f \in C : \E g \in C : <<f, g>> \in edges

\* The verdict of the path search is right both ways, for every order in which
\* files are listed and imported.
VerdictIsRight ==
    /\ phase = "ok" => ~HasCycle(ListedEdges)
    /\ phase = "cyclic" => HasCycle(ListedEdges)

\* What logRefError prints when it walks DagCheckStack is true: every line
\* "f import g" is an import of the sources, and the lines close a cycle.
ReportIsRealCycle ==
    phase = "cyclic" =>
        LET path == dagCheckStack IN
        /\ \A i \in 1 .. Len(path) - 1 :
               <<NameOf(path[i]), NameOf(path[i + 1])>> \in ListedEdges
        /\ \E i \in 1 .. Len(path) - 1 : path[i] = Last(path)

\* The files a compilation depends on: those listed and all they import.
NeededFiles ==
    {f \in File : \A S \in SUBSET File :
        (/\ Elements(args) \subseteq S
         /\ \A g \in S : Elements(imports[g]) \subseteq S) => f \in S}
NeededEdges ==
    UNION {{<<f, g>> : g \in Elements(imports[f])} : f \in NeededFiles}

\* include/pre_analysis.h: the program is accepted only if its dependence is a DAG.
AcceptedIsDag == phase = "ok" => ~HasCycle(NeededEdges)
=============================================================================
