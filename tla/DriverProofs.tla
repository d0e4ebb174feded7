----------------------------- MODULE DriverProofs -----------------------------
(***************************************************************************)
(* Proofs about PreAnalysis and Driver, for every disk, command line and     *)
(* bound.                                                                  *)
(*                                                                         *)
(* The dependence analysis comes first: its inductive invariant IInv adds to *)
(* the types what links tables, dependence graph, search and outcome.        *)
(*                                                                         *)
(* A step of the driver is a step of the analysis or leaves it alone, so     *)
(* that what is proved of the analysis holds of the whole compilation.  With *)
(* that, the functions that a program calls are built before it, the texts   *)
(* go to files of their own, and what runs is what was compiled.             *)
(***************************************************************************)
EXTENDS Driver, TLAPS

-----------------------------------------------------------------------------
(* The inductive invariant, part by part.                                  *)

\* FileIndex is the position of the program, and its name is its own.
TablesOK ==
    /\ Len(Names) = Len(fileIndex)
    /\ \A p \in Prog : fileIndex[p] = p - 1
    /\ \A p, q \in Prog : Names[p] = Names[q] => p = q

\* While the scan runs, ProgMap is the inverse of FileNameList, and the open
\* file is the one the command line has at pos.
ScanOK ==
    phase = "scan" =>
        /\ inputFileList = args /\ pos <= Len(args) + 1
        /\ \A f \in File : progMap[f] # 0 => fileNameList[progMap[f]] = f
        /\ \A p \in Prog : progMap[fileNameList[p]] = p
        /\ dagCheckStack = <<>> /\ nextDep = <<>> /\ root = 1
        /\ fp # NoFile =>
               /\ pos <= Len(args) /\ fp = args[pos]
               /\ curProg \in Prog /\ fileNameList[curProg] = fp
               /\ line <= Len(imports[fp]) + 1

\* Every recorded edge is an import of a listed file ...
GraphSound ==
    \A p \in Prog : \A q \in Elements(deps[p]) : <<Names[p], Names[q]>> \in ListedEdges

\* ... and every import that has been scanned is recorded.
Recorded(f, g) ==
    \E p \in Prog : \E q \in Elements(deps[p]) : Names[p] = f /\ Names[q] = g

GraphComplete ==
    /\ phase = "scan" =>
         /\ \A i \in 1 .. pos - 1 : \A g \in Elements(imports[args[i]]) :
                Recorded(args[i], g)
         /\ fp # NoFile => \A j \in 1 .. line - 1 : Recorded(fp, imports[fp][j])
    /\ phase \in {"check", "ok", "cyclic"} =>
         \A f \in Elements(args) : \A g \in Elements(imports[f]) : Recorded(f, g)

\* DagCheckStack is a path of the recorded graph.
PathOK ==
    \A i \in 1 .. Len(dagCheckStack) - 1 :
        dagCheckStack[i + 1] \in Elements(deps[dagCheckStack[i]])

\* A program is doomed if an endless import path starts at it.
Doomed ==
    {p \in Prog : \E C \in SUBSET Prog :
        p \in C /\ \A c \in C : \E d \in C : d \in Elements(deps[c])}

\* What the search has finished is not doomed: the roots before the current one,
\* and, for each program of the path, the dependences it has returned from.
SearchOK ==
    /\ Len(nextDep) = Len(dagCheckStack)
    /\ dagCheckStack # <<>> => dagCheckStack[1] = root
    /\ root <= Len(fileIndex) + 1
    /\ \A r \in 1 .. root - 1 : r \notin Doomed
    /\ \A k \in DOMAIN dagCheckStack :
         /\ nextDep[k] <= Len(deps[dagCheckStack[k]]) + 1
         /\ k < Len(dagCheckStack) =>
                /\ nextDep[k] > 1
                /\ dagCheckStack[k + 1] = deps[dagCheckStack[k]][nextDep[k] - 1]
         /\ \A j \in 1 .. nextDep[k] - 1 :
                (k = Len(dagCheckStack) \/ j < nextDep[k] - 1)
                    => deps[dagCheckStack[k]][j] \notin Doomed

OutcomeOK ==
    /\ phase = "check" => SearchOK
    /\ phase = "ok" => \A p \in Prog : p \notin Doomed
    /\ phase = "cyclic" =>
         \E i \in 1 .. Len(dagCheckStack) - 1 : dagCheckStack[i] = Last(dagCheckStack)

IInv == /\ TypeOK /\ TablesOK /\ ScanOK /\ GraphSound /\ GraphComplete
        /\ PathOK /\ OutcomeOK

-----------------------------------------------------------------------------
(* Sequences.                                                              *)

LEMMA AppendFacts ==
    ASSUME NEW S, NEW s \in Seq(S), NEW x \in S
    PROVE  /\ Append(s, x) \in Seq(S)
           /\ Len(Append(s, x)) = Len(s) + 1
           /\ \A i \in DOMAIN s : Append(s, x)[i] = s[i]
           /\ Append(s, x)[Len(s) + 1] = x
           /\ Elements(Append(s, x)) = Elements(s) \cup {x}
  BY DEF Elements

LEMMA FrontFacts ==
    ASSUME NEW S, NEW s \in Seq(S), s # <<>>
    PROVE  /\ Front(s) \in Seq(S)
           /\ Len(s) > 0 /\ Len(Front(s)) = Len(s) - 1
           /\ \A i \in 1 .. Len(s) - 1 : Front(s)[i] = s[i]
           /\ Last(s) \in S /\ Last(s) = s[Len(s)]
  <1>1. Len(s) \in Nat /\ Len(s) > 0 /\ DOMAIN s = 1 .. Len(s)
    OBVIOUS
  <1>2. Len(s) - 1 \in Nat /\ \A i \in 1 .. Len(s) - 1 : s[i] \in S
    BY <1>1
  <1>3. QED  BY <1>1, <1>2 DEF Front, Last

\* A sequence over S is one over every superset of S.
LEMMA SeqMonotone ==
    ASSUME NEW S, NEW T, S \subseteq T, NEW s \in Seq(S)
    PROVE  s \in Seq(T)
  OBVIOUS

LEMMA ElementsType ==
    ASSUME NEW S, NEW s \in Seq(S)
    PROVE  Elements(s) \subseteq S
  BY DEF Elements

LEMMA SeqUpToType ==
    ASSUME NEW S, NEW n \in Nat
    PROVE  SeqUpTo(S, n) \subseteq Seq(S)
  BY DEF SeqUpTo

LEMMA InitIInv == Init => IInv
  <1> SUFFICES ASSUME Init PROVE IInv
    OBVIOUS
  <1>1. TypeOK
    <2>1. args \in Seq(File) /\ imports \in [File -> Seq(File)]
          /\ inputFileList \in Seq(File)
      BY SeqUpToType, ConstantsAssumption DEF Init
    <2>2. Prog = {}  BY DEF Init, Prog
    <2>3. QED  BY <2>1, <2>2 DEF Init, TypeOK
  <1>2. TablesOK /\ ScanOK
    <2>1. Len(args) \in Nat  BY <1>1 DEF TypeOK
    <2>2. QED  BY <2>1 DEF Init, TablesOK, ScanOK, Names, Prog
  <1>3. GraphSound /\ GraphComplete
    BY DEF Init, GraphSound, GraphComplete, Prog
  <1>4. PathOK /\ OutcomeOK
    BY DEF Init, PathOK, OutcomeOK
  <1>5. QED  BY <1>1, <1>2, <1>3, <1>4 DEF IInv

-----------------------------------------------------------------------------
(* The scan.                                                               *)

\* What getOrCreateProgAST guarantees: the tables stay consistent, the program it
\* returns is the file's, and existing programs keep their names and dependences.
LEMMA RegisterFacts ==
    ASSUME IInv, phase = "scan", phase' = "scan", NEW file \in File,
           Register(file)
    PROVE  /\ fileNameList' \in Seq(File) /\ fileIndex' \in Seq(Nat)
           /\ progMap' \in [File -> {0} \cup Prog']
           /\ Prog \subseteq Prog' /\ TablesOK'
           /\ \A f \in File : progMap'[f] # 0 => fileNameList'[progMap'[f]] = f
           /\ \A p \in Prog' : progMap'[fileNameList'[p]] = p
           /\ \A p \in Prog : fileNameList'[p] = fileNameList[p]
           /\ ProgOf(file) \in Prog' /\ fileNameList'[ProgOf(file)] = file
           /\ DepsWith(file) \in Seq(Seq(Prog'))
           /\ Len(DepsWith(file)) = Len(fileIndex')
           /\ \A p \in Prog : DepsWith(file)[p] = deps[p]
           /\ \A p \in Prog' \ Prog : DepsWith(file)[p] = <<>>
  <1>1. /\ fileNameList \in Seq(File) /\ fileIndex \in Seq(Nat)
        /\ progMap \in [File -> {0} \cup Prog]
        /\ deps \in Seq(Seq(Prog)) /\ Len(deps) = Len(fileIndex)
        /\ Prog = 1 .. Len(fileIndex) /\ Len(fileIndex) \in Nat
    BY DEF IInv, TypeOK, Prog
  <1>2. /\ Len(fileNameList) = Len(fileIndex)
        /\ \A p \in Prog : fileIndex[p] = p - 1
        /\ \A p, q \in Prog : fileNameList[p] = fileNameList[q] => p = q
        /\ \A f \in File : progMap[f] # 0 => fileNameList[progMap[f]] = f
        /\ \A p \in Prog : progMap[fileNameList[p]] = p
        /\ Names' = fileNameList'
    BY DEF IInv, TablesOK, ScanOK, Names
  <1>3. CASE ~IsNew(file)
    <2>1. UNCHANGED <<fileNameList, fileIndex, progMap>>
      BY <1>3 DEF Register
    <2>2. Prog' = Prog  BY <2>1 DEF Prog
    <2>3. /\ ProgOf(file) = progMap[file] /\ ProgOf(file) \in Prog
          /\ DepsWith(file) = deps
      BY <1>1, <1>3 DEF ProgOf, DepsWith, IsNew
    <2>4. TablesOK'  BY <1>2, <2>1, <2>2 DEF TablesOK
    <2>5. QED  BY <1>1, <1>2, <1>3, <2>1, <2>2, <2>3, <2>4 DEF IsNew
  <1>4. CASE IsNew(file)
    <2> DEFINE n == Len(fileIndex) + 1
    <2>1. /\ fileNameList' = Append(fileNameList, file)
          /\ fileIndex' = Append(fileIndex, Len(fileIndex))
          /\ progMap' = [progMap EXCEPT ![file] = n]
          /\ ProgOf(file) = n /\ DepsWith(file) = Append(deps, <<>>)
      BY <1>4 DEF Register, ProgOf, DepsWith
    <2>2. /\ fileNameList' \in Seq(File) /\ Len(fileNameList') = n
          /\ \A p \in Prog : fileNameList'[p] = fileNameList[p]
          /\ fileNameList'[n] = file
      BY <1>1, <1>2, <2>1, AppendFacts
    <2>3. /\ fileIndex' \in Seq(Nat) /\ Len(fileIndex') = n
          /\ \A p \in Prog : fileIndex'[p] = fileIndex[p]
          /\ fileIndex'[n] = n - 1
      BY <1>1, <2>1, AppendFacts
    <2>4. Prog' = Prog \cup {n} /\ n \notin Prog /\ n # 0
      BY <1>1, <2>3 DEF Prog
    <2>5. progMap' \in [File -> {0} \cup Prog']
          /\ \A f \in File : progMap'[f] = IF f = file THEN n ELSE progMap[f]
      BY <1>1, <2>1, <2>4
    <2>6. \A p \in Prog : fileNameList[p] # file
      BY <1>2, <1>4, <2>4 DEF IsNew, Prog
    <2>7. TablesOK'
      <3>1. Len(Names)' = Len(fileIndex)'  BY <1>2, <2>2, <2>3
      <3>2. \A p \in Prog' : fileIndex'[p] = p - 1
        BY <1>2, <2>3, <2>4
      <3>3. \A p, q \in Prog' : fileNameList'[p] = fileNameList'[q] => p = q
        BY <1>2, <2>2, <2>4, <2>6
      <3>4. QED  BY <1>2, <3>1, <3>2, <3>3 DEF TablesOK
    <2>8. \A f \in File : progMap'[f] # 0 => fileNameList'[progMap'[f]] = f
      <3> TAKE f \in File
      <3>1. CASE f = file  BY <2>2, <2>5, <3>1
      <3>2. CASE f # file
        <4>1. progMap'[f] = progMap[f] /\ progMap[f] \in {0} \cup Prog
          BY <1>1, <2>5, <3>2
        <4>2. QED  BY <1>2, <2>2, <4>1
      <3>3. QED  BY <3>1, <3>2
    <2>9. \A p \in Prog' : progMap'[fileNameList'[p]] = p
      <3> TAKE p \in Prog'
      <3>1. CASE p = n  BY <2>2, <2>5, <3>1
      <3>2. CASE p \in Prog
        <4>1. fileNameList[p] \in File /\ fileNameList[p] # file
          BY <1>1, <1>2, <2>6, <3>2
        <4>2. QED  BY <1>2, <2>2, <2>5, <3>2, <4>1
      <3>3. QED  BY <2>4, <3>1, <3>2
    <2>10. /\ DepsWith(file) \in Seq(Seq(Prog'))
           /\ Len(DepsWith(file)) = Len(fileIndex')
           /\ \A p \in Prog : DepsWith(file)[p] = deps[p]
           /\ DepsWith(file)[n] = <<>>
      <3>1. Prog \subseteq Prog'  BY <2>4
      <3>2. Seq(Prog) \subseteq Seq(Prog')  BY <3>1, SeqMonotone
      <3>3. deps \in Seq(Seq(Prog'))  BY <1>1, <3>2, SeqMonotone
      <3>4. <<>> \in Seq(Prog')  OBVIOUS
      <3>5. DOMAIN deps = Prog /\ Len(deps) + 1 = n  BY <1>1
      <3>6. QED  BY <1>1, <2>1, <2>3, <3>3, <3>4, <3>5, AppendFacts
    <2>11. QED  BY <2>1, <2>2, <2>3, <2>4, <2>5, <2>7, <2>8, <2>9, <2>10
  <1>5. QED  BY <1>3, <1>4

\* A step of the scan that leaves the path empty keeps what the check relies on.
LEMMA ScanStep ==
    ASSUME IInv, phase = "scan", phase' = "scan", UNCHANGED checker
    PROVE  PathOK' /\ OutcomeOK'
  <1>1. dagCheckStack' = <<>>  BY DEF IInv, ScanOK, checker
  <1>2. QED  BY <1>1 DEF PathOK, OutcomeOK

\* The facts of the invariant the scan steps use, with Prog spelled out.
LEMMA ScanFacts ==
    ASSUME IInv, phase = "scan"
    PROVE  /\ Prog = 1 .. Len(fileIndex) /\ Len(fileIndex) \in Nat
           /\ DOMAIN deps = Prog /\ deps \in Seq(Seq(Prog))
           /\ \A p \in Prog : deps[p] \in Seq(Prog) /\ Elements(deps[p]) \subseteq Prog
           /\ Names = fileNameList
           /\ inputFileList = args /\ args \in Seq(File)
           /\ pos \in Nat \ {0} /\ line \in Nat \ {0}
           /\ imports \in [File -> Seq(File)]
  <1>1. /\ fileIndex \in Seq(Nat)
        /\ deps \in Seq(Seq(Prog)) /\ Len(deps) = Len(fileIndex)
    BY DEF IInv, TypeOK
  <1>2. /\ Prog = 1 .. Len(fileIndex) /\ Len(fileIndex) \in Nat
        /\ DOMAIN deps = Prog
    BY <1>1 DEF Prog
  <1>3. \A p \in Prog : deps[p] \in Seq(Prog)  BY <1>1, <1>2
  <1>4. \A p \in Prog : Elements(deps[p]) \subseteq Prog
    BY <1>3, ElementsType
  <1>5. QED  BY <1>1, <1>2, <1>3, <1>4 DEF IInv, TypeOK, ScanOK, Names

\* Edges are only added, and between the same names.
LEMMA RecordedKept ==
    ASSUME IInv, phase = "scan", phase' = "scan", NEW file \in File, Register(file),
           \A p \in Prog : Elements(deps[p]) \subseteq Elements(deps'[p]),
           NEW f, NEW g, Recorded(f, g)
    PROVE  Recorded(f, g)'
  <1>1. PICK p \in Prog : \E q \in Elements(deps[p]) : Names[p] = f /\ Names[q] = g
    BY DEF Recorded
  <1>2. PICK q \in Elements(deps[p]) : Names[p] = f /\ Names[q] = g
    BY <1>1
  <1>3. q \in Prog  BY ScanFacts, <1>2
  <1>4. /\ p \in Prog' /\ q \in Elements(deps'[p])
        /\ Names'[p] = f /\ Names'[q] = g
    <2>1. Names = fileNameList /\ Names' = fileNameList'  BY DEF Names
    <2>2. Prog \subseteq Prog' /\ \A r \in Prog : fileNameList'[r] = fileNameList[r]
      BY RegisterFacts
    <2>3. QED  BY <1>2, <1>3, <2>1, <2>2
  <1>5. QED  BY <1>4 DEF Recorded

LEMMA OpenFileKeeps ==
    ASSUME IInv, OpenFile
    PROVE  IInv'
  <1> DEFINE file == inputFileList[pos]
  <1>1. /\ phase = "scan" /\ phase' = "scan" /\ pos <= Len(args)
        /\ UNCHANGED <<args, imports, present, inputFileList, pos, checker>>
        /\ fp' = file /\ line' = 1 /\ curProg' = ProgOf(file)
        /\ Register(file) /\ deps' = DepsWith(file)
    BY DEF OpenFile, Scanning, inputs, IInv, ScanOK
  <1>2. file \in File /\ file = args[pos]
    BY <1>1, ScanFacts
  <1> HIDE DEF file
  <1>3. TypeOK'
    <2>1. /\ args' \in Seq(File) /\ imports' \in [File -> Seq(File)]
          /\ present' \subseteq File /\ inputFileList' \in Seq(File)
          /\ pos' \in Nat \ {0} /\ line' \in Nat \ {0} /\ root' \in Nat \ {0}
          /\ nextDep' \in Seq(Nat \ {0}) /\ dagCheckStack' = <<>>
          /\ fp' \in File \cup {NoFile}
      BY <1>1, <1>2 DEF IInv, TypeOK, ScanOK, checker
    <2>2. dagCheckStack' \in Seq(Prog')  BY <2>1
    <2>3. QED  BY <1>1, <1>2, <2>1, <2>2, RegisterFacts DEF TypeOK
  <1>4. TablesOK'  BY <1>1, <1>2, RegisterFacts
  <1>5. ScanOK'
    <2>1. imports'[fp'] \in Seq(File)  BY <1>1, <1>2, ScanFacts
    <2>2. Len(imports'[fp']) \in Nat  BY <2>1
    <2>3. QED
      BY <1>1, <1>2, <2>2, RegisterFacts DEF IInv, ScanOK, checker
  <1>6. GraphSound'
    <2>1. ListedEdges' = ListedEdges  BY <1>1 DEF ListedEdges, Elements
    <2>2. Names = fileNameList /\ Names' = fileNameList'
      BY <1>1 DEF Names
    <2> SUFFICES ASSUME NEW p \in Prog', NEW q \in Elements(deps'[p])
                 PROVE  <<Names'[p], Names'[q]>> \in ListedEdges
      BY <2>1 DEF GraphSound, Elements
    <2>3. p \in Prog /\ deps'[p] = deps[p]
      <3>1. deps'[p] # <<>>  BY DEF Elements
      <3>2. QED  BY <1>1, <1>2, <3>1, RegisterFacts
    <2>4. q \in Prog  BY <1>1, <2>3, ScanFacts
    <2>5. QED
      BY <1>1, <1>2, <2>2, <2>3, <2>4, RegisterFacts DEF IInv, GraphSound
  <1>7. GraphComplete'
    <2>1. \A p \in Prog : Elements(deps[p]) \subseteq Elements(deps'[p])
      BY <1>1, <1>2, RegisterFacts DEF Elements
    <2>2. \A f, g : Recorded(f, g) => Recorded(f, g)'
      BY <1>1, <1>2, <2>1, RecordedKept
    <2>3. \A i \in 1 .. pos - 1 : \A g \in Elements(imports[args[i]]) :
              Recorded(args[i], g)
      BY <1>1 DEF IInv, GraphComplete
    <2>4. \A i \in 1 .. pos' - 1 : \A g \in Elements(imports'[args'[i]]) :
              Recorded(args[i], g)'
      BY <1>1, <2>2, <2>3
    <2>5. 1 .. line' - 1 = {}  BY <1>1
    <2>6. QED  BY <1>1, <2>4, <2>5 DEF GraphComplete, Recorded, Elements
  <1>8. QED  BY <1>1, <1>3, <1>4, <1>5, <1>6, <1>7, ScanStep DEF IInv

LEMMA ScanImportKeeps ==
    ASSUME IInv, ScanImport
    PROVE  IInv'
  <1> DEFINE file == imports[fp][line]
             D == DepsWith(file)
             P == ProgOf(file)
  <1>1. /\ phase = "scan" /\ phase' = "scan"
        /\ fp # NoFile /\ line <= Len(imports[fp])
        /\ UNCHANGED <<args, imports, present, inputFileList, pos, fp, curProg,
                       checker>>
        /\ line' = line + 1
        /\ Register(file) /\ deps' = [D EXCEPT ![curProg] = Append(@, P)]
    BY DEF ScanImport, ScanMatch, inputs
  <1>2. /\ fp \in File /\ imports[fp] \in Seq(File) /\ file \in File
        /\ file \in Elements(imports[fp])
        /\ pos <= Len(args) /\ fp = args[pos] /\ fp \in Elements(args)
        /\ curProg \in Prog /\ fileNameList[curProg] = fp
    <2>1. fp \in File /\ imports[fp] \in Seq(File)
      BY <1>1, ScanFacts DEF IInv, TypeOK
    <2>2. line \in DOMAIN imports[fp]
      BY <1>1, <2>1, ScanFacts
    <2>3. file \in File /\ file \in Elements(imports[fp])
      BY <2>1, <2>2 DEF Elements
    <2>4. /\ pos <= Len(args) /\ fp = args[pos]
          /\ curProg \in Prog /\ fileNameList[curProg] = fp
      BY <1>1 DEF IInv, ScanOK
    <2>5. pos \in DOMAIN args  BY <1>1, <2>4, ScanFacts
    <2>6. QED  BY <2>1, <2>3, <2>4, <2>5 DEF Elements
  <1> HIDE DEF file, D, P
  <1>3. /\ Prog \subseteq Prog' /\ P \in Prog' /\ fileNameList'[P] = file
        /\ D \in Seq(Seq(Prog')) /\ Len(D) = Len(fileIndex')
        /\ \A p \in Prog : D[p] = deps[p] /\ fileNameList'[p] = fileNameList[p]
        /\ \A p \in Prog' \ Prog : D[p] = <<>>
    BY <1>1, <1>2, RegisterFacts DEF D, P
  <1>4. /\ deps' \in Seq(Seq(Prog')) /\ Len(deps') = Len(fileIndex')
        /\ \A p \in Prog' : p # curProg => deps'[p] = D[p]
        /\ deps'[curProg] = Append(deps[curProg], P)
        /\ Elements(deps'[curProg]) = Elements(deps[curProg]) \cup {P}
    <2>1. /\ fileIndex' \in Seq(Nat) /\ DOMAIN D = Prog'
      BY <1>1, <1>2, <1>3, RegisterFacts DEF Prog
    <2>2. D[curProg] = deps[curProg] /\ D[curProg] \in Seq(Prog')
      BY <1>2, <1>3, <2>1
    <2>3. Append(D[curProg], P) \in Seq(Prog')
          /\ Elements(Append(D[curProg], P)) = Elements(D[curProg]) \cup {P}
      BY <1>3, <2>2, AppendFacts
    <2>4. deps' = [D EXCEPT ![curProg] = Append(D[curProg], P)]
      BY <1>1
    <2>5. /\ deps' \in Seq(Seq(Prog')) /\ Len(deps') = Len(D)
          /\ \A p \in DOMAIN D : p # curProg => deps'[p] = D[p]
          /\ deps'[curProg] = Append(D[curProg], P)
      BY <1>2, <1>3, <2>1, <2>3, <2>4
    <2>6. QED  BY <1>3, <2>1, <2>2, <2>3, <2>5
  <1>5. TypeOK'
    <2>1. /\ args' \in Seq(File) /\ imports' \in [File -> Seq(File)]
          /\ present' \subseteq File /\ inputFileList' \in Seq(File)
          /\ pos' \in Nat \ {0} /\ line' \in Nat \ {0} /\ root' \in Nat \ {0}
          /\ nextDep' \in Seq(Nat \ {0}) /\ dagCheckStack' = <<>>
          /\ fp' \in File \cup {NoFile}
      BY <1>1 DEF IInv, TypeOK, ScanOK, checker
    <2>2. dagCheckStack' \in Seq(Prog') /\ curProg' \in Prog'
      BY <1>1, <1>2, <1>3, <2>1
    <2>3. QED  BY <1>1, <1>2, <1>4, <2>1, <2>2, RegisterFacts DEF TypeOK
  <1>6. TablesOK'  BY <1>1, <1>2, RegisterFacts
  <1>7. ScanOK'
    <2>1. line' <= Len(imports'[fp']) + 1
      BY <1>1, <1>2, ScanFacts
    <2>2. QED
      BY <1>1, <1>2, <1>3, <2>1, RegisterFacts DEF IInv, ScanOK, checker
  <1>8. GraphSound'
    <2>1. ListedEdges' = ListedEdges  BY <1>1 DEF ListedEdges, Elements
    <2>2. Names = fileNameList /\ Names' = fileNameList'
      BY <1>1 DEF Names
    <2> SUFFICES ASSUME NEW p \in Prog', NEW q \in Elements(deps'[p])
                 PROVE  <<Names'[p], Names'[q]>> \in ListedEdges
      BY <2>1 DEF GraphSound, Elements
    <2>3. CASE p \in Prog /\ q \in Elements(deps[p])
      <3>1. q \in Prog  BY <1>1, <2>3, ScanFacts
      <3>2. <<Names[p], Names[q]>> \in ListedEdges
        BY <2>3 DEF IInv, GraphSound
      <3>3. QED  BY <1>3, <2>2, <2>3, <3>1, <3>2
    <2>4. CASE p = curProg /\ q = P
      <3>1. Names'[p] = fp /\ Names'[q] = file
        BY <1>2, <1>3, <2>2, <2>4
      <3>2. <<fp, file>> \in ListedEdges
        BY <1>2 DEF ListedEdges
      <3>3. QED  BY <3>1, <3>2
    <2>5. (p \in Prog /\ q \in Elements(deps[p])) \/ (p = curProg /\ q = P)
      <3>1. CASE p = curProg  BY <1>2, <1>4, <3>1
      <3>2. CASE p # curProg
        <4>1. deps'[p] = D[p] /\ deps'[p] # <<>>
          BY <1>4, <3>2 DEF Elements
        <4>2. QED  BY <1>3, <4>1
      <3>3. QED  BY <3>1, <3>2
    <2>6. QED  BY <2>3, <2>4, <2>5
  <1>9. GraphComplete'
    <2>1. \A p \in Prog : Elements(deps[p]) \subseteq Elements(deps'[p])
      <3> TAKE p \in Prog
      <3>1. CASE p = curProg  BY <1>4, <3>1
      <3>2. CASE p # curProg
        <4>1. deps'[p] = deps[p]  BY <1>3, <1>4, <3>2
        <4>2. QED  BY <4>1
      <3>3. QED  BY <3>1, <3>2
    <2>2. \A f, g : Recorded(f, g) => Recorded(f, g)'
      BY <1>1, <1>2, <2>1, RecordedKept
    <2>3. /\ \A i \in 1 .. pos - 1 : \A g \in Elements(imports[args[i]]) :
                 Recorded(args[i], g)
          /\ \A j \in 1 .. line - 1 : Recorded(fp, imports[fp][j])
      BY <1>1 DEF IInv, GraphComplete
    <2>4. \A f, g : f = fp /\ g = file => Recorded(f, g)'
      <3>1. curProg \in Prog' /\ P \in Elements(deps'[curProg])
        BY <1>2, <1>3, <1>4
      <3>2. Names' = fileNameList'  BY <1>1 DEF Names
      <3>3. Names'[curProg] = fp /\ Names'[P] = file
        BY <1>2, <1>3, <3>2
      <3>4. QED  BY <3>1, <3>3 DEF Recorded
    <2>5. \A i \in 1 .. pos' - 1 : \A g \in Elements(imports'[args'[i]]) :
              Recorded(args[i], g)'
      BY <1>1, <2>2, <2>3
    <2>6. \A j \in 1 .. line' - 1 : Recorded(fp, imports[fp][j])'
      <3> TAKE j \in 1 .. line' - 1
      <3>1. \A f, g : f = fp /\ g = imports[fp][j] => Recorded(f, g)'
        <4>1. CASE j = line  BY <2>4, <4>1 DEF file
        <4>2. CASE j # line
          <5>1. j \in 1 .. line - 1  BY <1>1, <4>2, ScanFacts
          <5>2. QED  BY <2>2, <2>3, <5>1
        <4>3. QED  BY <4>1, <4>2
      <3>2. QED  BY <1>1, <3>1
    <2>7. QED
      BY <1>1, <2>5, <2>6 DEF GraphComplete, Recorded, Elements
  <1>10. QED
    BY <1>1, <1>5, <1>6, <1>7, <1>8, <1>9, ScanStep DEF IInv

LEMMA CloseFileKeeps ==
    ASSUME IInv, CloseFile
    PROVE  IInv'
  <1>1. /\ phase = "scan" /\ phase' = "scan" /\ fp # NoFile
        /\ line > Len(imports[fp])
        /\ UNCHANGED <<args, imports, present, inputFileList, fileNameList, progMap,
                       fileIndex, deps, curProg, line, checker>>
        /\ fp' = NoFile /\ pos' = pos + 1
    BY DEF CloseFile, inputs, tables
  <1>2. TypeOK'
    BY <1>1 DEF IInv, TypeOK, Prog, checker
  <1>3. TablesOK'
    BY <1>1 DEF IInv, TablesOK, Prog, Names
  <1>4. ScanOK'
    BY <1>1, ScanFacts DEF IInv, ScanOK, Prog, checker
  <1>5. GraphSound'
    BY <1>1 DEF IInv, GraphSound, ListedEdges, Elements, Prog, Names
  <1>6. GraphComplete'
    <2>1. \A f, g : Recorded(f, g)' = Recorded(f, g)
      BY <1>1 DEF Recorded, Prog, Elements, Names
    <2>2. \A i \in 1 .. pos - 1 : \A g \in Elements(imports[args[i]]) :
              Recorded(args[i], g)
      BY <1>1 DEF IInv, GraphComplete
    <2>3. \A g \in Elements(imports[args[pos]]) : Recorded(args[pos], g)
      <3>1. fp = args[pos] /\ line <= Len(imports[fp]) + 1 /\ fp \in File
        BY <1>1 DEF IInv, ScanOK, TypeOK
      <3>2. imports[fp] \in Seq(File)  BY <1>1, <3>1, ScanFacts
      <3>3. DOMAIN imports[fp] = 1 .. line - 1
        BY <1>1, <3>1, <3>2, ScanFacts
      <3>4. \A j \in 1 .. line - 1 : Recorded(fp, imports[fp][j])
        BY <1>1 DEF IInv, GraphComplete
      <3>5. QED  BY <3>1, <3>3, <3>4 DEF Elements
    <2>4. \A i \in 1 .. pos' - 1 : \A g \in Elements(imports[args[i]]) :
              Recorded(args[i], g)
      <3> TAKE i \in 1 .. pos' - 1
      <3>1. i = pos \/ i \in 1 .. pos - 1  BY <1>1, ScanFacts
      <3>2. QED  BY <2>2, <2>3, <3>1
    <2>5. \A i \in 1 .. pos' - 1 : \A g \in Elements(imports'[args'[i]]) :
              Recorded(args[i], g)'
      BY <1>1, <2>1, <2>4
    <2>6. QED  BY <1>1, <2>5 DEF GraphComplete, Elements
  <1>7. QED
    BY <1>1, <1>2, <1>3, <1>4, <1>5, <1>6, ScanStep DEF IInv

\* close() renames nothing: the names move from FileNameList to InputFileList.
LEMMA ClosingKeeps ==
    ASSUME IInv, phase = "scan", fp = NoFile, phase' \in {"check", "nofile"}, Close,
           UNCHANGED <<inputs, fileIndex, deps, scanner, checker>>
    PROVE  /\ TypeOK' /\ TablesOK' /\ ScanOK' /\ GraphSound' /\ PathOK'
           /\ dagCheckStack' = <<>> /\ nextDep' = <<>> /\ root' = 1
           /\ \A f, g : Recorded(f, g) => Recorded(f, g)'
  <1>1. /\ UNCHANGED <<args, imports, present, fileIndex, deps, pos, fp, curProg, line,
                       root, dagCheckStack, nextDep>>
        /\ inputFileList' = fileNameList /\ fileNameList' = <<>>
        /\ progMap' = [f \in File |-> 0]
    BY DEF Close, inputs, scanner, checker
  <1>2. Prog' = Prog /\ Names' = Names
    BY <1>1 DEF Prog, Names
  <1>3. dagCheckStack' = <<>> /\ nextDep' = <<>> /\ root' = 1
    BY <1>1 DEF IInv, ScanOK
  <1>4. TypeOK'
    BY <1>1, <1>2 DEF IInv, TypeOK
  <1>5. TablesOK'
    BY <1>1, <1>2 DEF IInv, TablesOK
  <1>6. GraphSound'
    BY <1>1, <1>2 DEF IInv, GraphSound, ListedEdges, Elements
  <1>7. \A f, g : Recorded(f, g) => Recorded(f, g)'
    BY <1>1, <1>2 DEF Recorded, Elements
  <1>8. QED
    BY <1>3, <1>4, <1>5, <1>6, <1>7 DEF ScanOK, PathOK

LEMMA CannotOpenKeeps ==
    ASSUME IInv, CannotOpen
    PROVE  IInv'
  <1>1. /\ phase = "scan" /\ fp = NoFile /\ phase' = "nofile" /\ Close
        /\ UNCHANGED <<inputs, fileIndex, deps, scanner, checker>>
    BY DEF CannotOpen, Scanning
  <1>2. GraphComplete' /\ OutcomeOK'
    BY <1>1 DEF GraphComplete, OutcomeOK
  <1>3. QED  BY <1>1, <1>2, ClosingKeeps DEF IInv

LEMMA FinishScanKeeps ==
    ASSUME IInv, FinishScan
    PROVE  IInv'
  <1>1. /\ phase = "scan" /\ fp = NoFile /\ phase' = "check" /\ Close
        /\ pos > Len(inputFileList)
        /\ UNCHANGED <<inputs, fileIndex, deps, scanner, checker>>
    BY DEF FinishScan
  <1>2. UNCHANGED <<args, imports>>  BY <1>1 DEF inputs
  <1>3. GraphComplete'
    <2>1. DOMAIN args = 1 .. pos - 1
      <3>1. inputFileList = args /\ pos <= Len(args) + 1
        BY <1>1 DEF IInv, ScanOK
      <3>2. QED  BY <1>1, <3>1, ScanFacts
    <2>2. \A i \in 1 .. pos - 1 : \A g \in Elements(imports[args[i]]) :
              Recorded(args[i], g)
      BY <1>1 DEF IInv, GraphComplete
    <2>3. \A f \in Elements(args) : \A g \in Elements(imports[f]) : Recorded(f, g)
      <3> TAKE f \in Elements(args)
      <3>1. PICK i \in 1 .. pos - 1 : f = args[i]  BY <2>1 DEF Elements
      <3>2. QED  BY <2>2, <3>1
    <2>4. \A f \in Elements(args) : \A g \in Elements(imports[f]) :
              \A x, y : x = f /\ y = g => Recorded(x, y)'
      BY <1>1, <2>3, ClosingKeeps
    <2>5. QED  BY <1>1, <1>2, <2>4 DEF GraphComplete, Recorded, Elements
  <1>4. OutcomeOK'
    <2>1. dagCheckStack' = <<>> /\ nextDep' = <<>> /\ root' = 1
      BY <1>1, ClosingKeeps
    <2>2. fileIndex' \in Seq(Nat)  BY <1>1, ClosingKeeps DEF TypeOK
    <2>3. SearchOK'  BY <2>1, <2>2 DEF SearchOK
    <2>4. QED  BY <1>1, <2>3 DEF OutcomeOK
  <1>5. QED  BY <1>1, <1>3, <1>4, ClosingKeeps DEF IInv

-----------------------------------------------------------------------------
(* The check.                                                              *)

\* The facts of the invariant the steps of the check use.
LEMMA CheckFacts ==
    ASSUME IInv, phase = "check"
    PROVE  /\ Prog = 1 .. Len(fileIndex) /\ Len(fileIndex) \in Nat
           /\ \A p \in Prog : /\ deps[p] \in Seq(Prog) /\ Len(deps[p]) \in Nat
                              /\ DOMAIN deps[p] = 1 .. Len(deps[p])
           /\ dagCheckStack \in Seq(Prog) /\ nextDep \in Seq(Nat \ {0})
           /\ Len(nextDep) = Len(dagCheckStack) /\ Len(nextDep) \in Nat
           /\ DOMAIN dagCheckStack = 1 .. Len(dagCheckStack)
           /\ root \in Nat \ {0} /\ SearchOK
  <1>1. /\ fileIndex \in Seq(Nat)
        /\ deps \in Seq(Seq(Prog)) /\ Len(deps) = Len(fileIndex)
        /\ dagCheckStack \in Seq(Prog) /\ nextDep \in Seq(Nat \ {0})
        /\ root \in Nat \ {0}
    BY DEF IInv, TypeOK
  <1>2. /\ Prog = 1 .. Len(fileIndex) /\ Len(fileIndex) \in Nat
        /\ DOMAIN deps = Prog
    BY <1>1 DEF Prog
  <1>3. \A p \in Prog : deps[p] \in Seq(Prog)
    BY <1>1, <1>2
  <1>4. \A p \in Prog : Len(deps[p]) \in Nat /\ DOMAIN deps[p] = 1 .. Len(deps[p])
    BY <1>3
  <1>5. SearchOK  BY DEF IInv, OutcomeOK
  <1>6. QED  BY <1>1, <1>2, <1>3, <1>4, <1>5 DEF SearchOK

\* The check changes nothing but its own path.
LEMMA CheckStep ==
    ASSUME IInv, phase = "check", phase' \in {"check", "ok", "cyclic"},
           UNCHANGED <<inputs, tables, scanner>>,
           dagCheckStack' \in Seq(Prog), nextDep' \in Seq(Nat \ {0}),
           root' \in Nat \ {0}, PathOK', OutcomeOK'
    PROVE  IInv'
  <1>1. UNCHANGED <<args, imports, present, inputFileList, fileNameList, progMap,
                    fileIndex, deps, pos, fp, curProg, line>>
    BY DEF inputs, tables, scanner
  <1>2. Prog' = Prog /\ Names' = Names  BY <1>1 DEF Prog, Names
  <1>3. TypeOK'
    <2>1. phase' \in {"scan", "check", "ok", "cyclic", "nofile"}  OBVIOUS
    <2>2. QED  BY <1>1, <1>2, <2>1 DEF IInv, TypeOK
  <1>4. TablesOK' /\ ScanOK' /\ GraphSound'
    BY <1>1, <1>2
       DEF IInv, TablesOK, ScanOK, GraphSound, ListedEdges, Elements
  <1>5. GraphComplete'
    <2>1. \A f \in Elements(args) : \A g \in Elements(imports[f]) : Recorded(f, g)
      BY DEF IInv, GraphComplete
    <2>2. QED  BY <1>1, <1>2, <2>1 DEF GraphComplete, Recorded, Elements
  <1>6. QED  BY <1>3, <1>4, <1>5 DEF IInv

\* A program is doomed only if one of its dependences is.
LEMMA DoomedDependence ==
    ASSUME NEW p \in Doomed
    PROVE  \E q \in Elements(deps[p]) : q \in Doomed
  <1>1. PICK C \in SUBSET Prog :
            p \in C /\ \A c \in C : \E d \in C : d \in Elements(deps[c])
    BY DEF Doomed
  <1>2. PICK d \in C : d \in Elements(deps[p])  BY <1>1
  <1>3. d \in Doomed  BY <1>1, <1>2 DEF Doomed
  <1>4. QED  BY <1>2, <1>3

LEMMA StartRootKeeps ==
    ASSUME IInv, StartRoot
    PROVE  IInv'
  <1>1. /\ phase = "check" /\ nextDep = <<>> /\ root <= Len(fileIndex)
        /\ UNCHANGED <<inputs, tables, scanner, root>>
        /\ phase' = "check" /\ dagCheckStack' = <<root>> /\ nextDep' = <<1>>
    <2>1. ~OnPath(root, <<>>)  BY DEF OnPath, Elements
    <2>2. QED  BY <2>1 DEF StartRoot, Enter
  <1>2. root \in Prog /\ root' = root /\ fileIndex' = fileIndex /\ deps' = deps
    BY <1>1, CheckFacts DEF tables
  <1>3. /\ dagCheckStack' \in Seq(Prog) /\ Len(dagCheckStack') = 1
        /\ dagCheckStack'[1] = root
        /\ nextDep' \in Seq(Nat \ {0}) /\ Len(nextDep') = 1 /\ nextDep'[1] = 1
    BY <1>1, <1>2
  <1>4. PathOK'  BY <1>3 DEF PathOK
  <1>5. SearchOK'
    <2>1. Doomed' = Doomed  BY <1>2 DEF Doomed, Prog, Elements
    <2>2. \A r \in 1 .. root' - 1 : r \notin Doomed'
      BY <1>1, <1>2, <2>1, CheckFacts DEF SearchOK
    <2>3. \A k \in DOMAIN dagCheckStack' : k = 1
      BY <1>3
    <2>4. Len(deps'[root]) \in Nat  BY <1>1, <1>2, CheckFacts
    <2>5. QED  BY <1>1, <1>2, <1>3, <2>2, <2>3, <2>4, CheckFacts DEF SearchOK
  <1>6. QED
    BY <1>1, <1>2, <1>3, <1>4, <1>5, CheckFacts, CheckStep DEF OutcomeOK

LEMMA FollowKeeps ==
    ASSUME IInv, Follow
    PROVE  IInv'
  <1> DEFINE n == Len(nextDep)
             p == dagCheckStack[n]
             d == nextDep[n]
             q == deps[p][d]
             advanced == Append(Front(nextDep), d + 1)
  <1>1. /\ phase = "check" /\ nextDep # <<>>
        /\ UNCHANGED <<inputs, tables, scanner, root>>
        /\ dagCheckStack # <<>> /\ n > 0 /\ n = Len(dagCheckStack)
        /\ Last(dagCheckStack) = p /\ Last(nextDep) = d
        /\ p \in Prog /\ d \in Nat \ {0} /\ d <= Len(deps[p])
        /\ Enter(q, dagCheckStack, advanced)
    <2>1. phase = "check" /\ nextDep # <<>>  BY DEF Follow
    <2>2. n > 0 /\ n = Len(dagCheckStack) /\ dagCheckStack # <<>>
      BY <2>1, CheckFacts
    <2>3. /\ Last(dagCheckStack) = p /\ Last(nextDep) = d
          /\ p \in Prog /\ d \in Nat \ {0}
      <3>1. dagCheckStack \in Seq(Prog) /\ nextDep \in Seq(Nat \ {0})
        BY <2>1, CheckFacts
      <3>2. Last(dagCheckStack) = p /\ p \in Prog
        BY <2>2, <3>1, FrontFacts
      <3>3. Last(nextDep) = d /\ Last(nextDep) \in Nat \ {0}
        <4> HIDE DEF p, q, advanced
        <4>1. /\ Last(nextDep) \in Nat \ {0}
              /\ Last(nextDep) = nextDep[Len(nextDep)]
          BY <2>1, <3>1, FrontFacts
        <4>2. QED  BY <4>1
      <3>4. QED  BY <3>2, <3>3
    <2>4. QED  BY <2>1, <2>2, <2>3 DEF Follow, Pending
  <1>2. UNCHANGED <<fileIndex, deps, root>>  BY <1>1 DEF tables
  <1>3. q \in Prog /\ q \in Elements(deps[p])
    <2>1. d \in DOMAIN deps[p]  BY <1>1, CheckFacts
    <2>2. deps[p] \in Seq(Prog)  BY <1>1, CheckFacts
    <2>3. q \in Elements(deps[p])  BY <2>1 DEF Elements
    <2>4. QED  BY <2>2, <2>3, ElementsType
  <1>4. /\ advanced \in Seq(Nat \ {0}) /\ Len(advanced) = n
        /\ \A k \in 1 .. n - 1 : advanced[k] = nextDep[k]
        /\ advanced[n] = d + 1
    <2>1. /\ Front(nextDep) \in Seq(Nat \ {0}) /\ Len(Front(nextDep)) = n - 1
          /\ \A k \in 1 .. n - 1 : Front(nextDep)[k] = nextDep[k]
      BY <1>1, CheckFacts, FrontFacts
    <2>2. d + 1 \in Nat \ {0} /\ n \in Nat  BY <1>1, CheckFacts
    <2> DEFINE front == Front(nextDep)
               x == d + 1
    <2>3. advanced = Append(front, x)  OBVIOUS
    <2> HIDE DEF front, x, advanced, n
    <2>4. front \in Seq(Nat \ {0}) /\ x \in Nat \ {0} /\ Len(front) = n - 1  BY <2>1, <2>2 DEF front, x
    <2>5. /\ advanced \in Seq(Nat \ {0}) /\ Len(advanced) = Len(front) + 1
          /\ advanced[Len(front) + 1] = x
          /\ \A k \in 1 .. Len(front) : advanced[k] = front[k]
      BY <2>3, <2>4, AppendFacts
    <2>6. Len(front) + 1 = n  BY <2>2, <2>4
    <2>7. \A k \in 1 .. n - 1 : advanced[k] = nextDep[k]  BY <2>1, <2>4, <2>5 DEF front
    <2>8. QED  BY <2>5, <2>6, <2>7 DEF x
  <1>5. /\ dagCheckStack' = Append(dagCheckStack, q)
        /\ dagCheckStack' \in Seq(Prog) /\ Len(dagCheckStack') = n + 1
        /\ DOMAIN dagCheckStack' = 1 .. n + 1
        /\ \A i \in 1 .. n : dagCheckStack'[i] = dagCheckStack[i]
        /\ dagCheckStack'[n + 1] = q
    <2>1. dagCheckStack' = Append(dagCheckStack, q)  BY <1>1 DEF Enter
    <2>2. QED  BY <1>1, <1>3, <2>1, CheckFacts, AppendFacts
  <1> HIDE DEF n, p, d, q, advanced
  <1>6. /\ n \in Nat /\ n > 0 /\ n = Len(dagCheckStack)
        /\ DOMAIN dagCheckStack = 1 .. n
    <2>1. n \in Nat /\ n = Len(dagCheckStack)
          /\ DOMAIN dagCheckStack = 1 .. Len(dagCheckStack)
      BY <1>1, CheckFacts DEF n
    <2>2. QED  BY <1>1, <2>1 DEF n
  <1>7. p = dagCheckStack[n] /\ d = nextDep[n] /\ q = deps[p][d]
    BY DEF n, p, d, q
  <1>8. PathOK'
    <2> SUFFICES ASSUME NEW i \in 1 .. n
                 PROVE  dagCheckStack'[i + 1] \in Elements(deps[dagCheckStack'[i]])
      BY <1>2, <1>5, <1>6 DEF PathOK, Elements
    <2>1. CASE i = n  BY <1>3, <1>5, <1>6, <1>7, <2>1
    <2>2. CASE i # n
      <3>1. i \in 1 .. n - 1 /\ i + 1 \in 1 .. n  BY <1>6, <2>2
      <3>2. dagCheckStack[i + 1] \in Elements(deps[dagCheckStack[i]])
        BY <1>6, <3>1 DEF IInv, PathOK
      <3>3. QED  BY <1>5, <3>1, <3>2
    <2>3. QED  BY <2>1, <2>2
  <1>9. CASE OnPath(q, dagCheckStack)
    <2>1. phase' = "cyclic" /\ nextDep' = advanced
      BY <1>1, <1>9 DEF Enter
    <2>2. PICK i \in 1 .. n : dagCheckStack[i] = q
      BY <1>1, <1>6, <1>9, CheckFacts DEF OnPath, Elements
    <2>3. Last(dagCheckStack') = q  BY <1>5, <1>6 DEF Last
    <2>4. \E j \in 1 .. Len(dagCheckStack') - 1 :
              dagCheckStack'[j] = Last(dagCheckStack')
      BY <1>5, <1>6, <2>2, <2>3
    <2>5. OutcomeOK'
      <3>1. \E j \in 1 .. Len(dagCheckStack') - 1 :
                dagCheckStack'[j] = Last(dagCheckStack)'
        BY <2>4 DEF Last
      <3>2. QED  BY <2>1, <3>1 DEF OutcomeOK
    <2>6. QED
      BY <1>1, <1>2, <1>4, <1>5, <1>8, <2>1, <2>5, CheckFacts, CheckStep
  <1>10. CASE ~OnPath(q, dagCheckStack)
    <2>1. phase' = "check" /\ nextDep' = Append(advanced, 1)
      BY <1>1, <1>10 DEF Enter
    <2>2. /\ nextDep' \in Seq(Nat \ {0}) /\ Len(nextDep') = n + 1
          /\ \A k \in 1 .. n - 1 : nextDep'[k] = nextDep[k]
          /\ nextDep'[n] = d + 1 /\ nextDep'[n + 1] = 1
      <3>1. n \in DOMAIN advanced /\ DOMAIN advanced = 1 .. n
        BY <1>4, <1>6
      <3>2. 1 \in Nat \ {0}  OBVIOUS
      <3>3. /\ nextDep' \in Seq(Nat \ {0}) /\ Len(nextDep') = n + 1
            /\ \A k \in 1 .. n : nextDep'[k] = advanced[k]
            /\ nextDep'[n + 1] = 1
        BY <1>4, <2>1, <3>1, <3>2, AppendFacts
      <3>4. QED  BY <1>4, <1>6, <3>3
    <2>3. Doomed' = Doomed  BY <1>2 DEF Doomed, Prog, Elements
    <2>4. \A k \in DOMAIN dagCheckStack' :
            /\ nextDep'[k] <= Len(deps[dagCheckStack'[k]]) + 1
            /\ k < n + 1 =>
                 /\ nextDep'[k] > 1
                 /\ dagCheckStack'[k + 1] = deps[dagCheckStack'[k]][nextDep'[k] - 1]
            /\ \A j \in 1 .. nextDep'[k] - 1 :
                 (k = n + 1 \/ j < nextDep'[k] - 1)
                     => deps[dagCheckStack'[k]][j] \notin Doomed
      <3> SUFFICES ASSUME NEW k \in 1 .. n + 1
                   PROVE
            /\ nextDep'[k] <= Len(deps[dagCheckStack'[k]]) + 1
            /\ k < n + 1 =>
                 /\ nextDep'[k] > 1
                 /\ dagCheckStack'[k + 1] = deps[dagCheckStack'[k]][nextDep'[k] - 1]
            /\ \A j \in 1 .. nextDep'[k] - 1 :
                 (k = n + 1 \/ j < nextDep'[k] - 1)
                     => deps[dagCheckStack'[k]][j] \notin Doomed
        BY <1>5
      <3>1. CASE k = n + 1
        <4>1. Len(deps[q]) \in Nat  BY <1>1, <1>3, CheckFacts
        <4>2. QED  BY <1>5, <1>6, <2>2, <3>1, <4>1
      <3>2. CASE k = n
        <4>1. \A j \in 1 .. d - 1 : deps[p][j] \notin Doomed
          <5>1. n \in DOMAIN dagCheckStack /\ SearchOK
            BY <1>1, <1>6, CheckFacts
          <5>2. QED  BY <1>6, <1>7, <5>1 DEF SearchOK
        <4>2. dagCheckStack'[k] = p /\ dagCheckStack'[k + 1] = q /\ nextDep'[k] = d + 1
          BY <1>5, <1>6, <1>7, <2>2, <3>2
        <4>3. Len(deps[p]) \in Nat  BY <1>1, CheckFacts
        <4>4. QED  BY <1>1, <1>6, <1>7, <3>2, <4>1, <4>2, <4>3
      <3>3. CASE k \in 1 .. n - 1
        <4>1. /\ k \in DOMAIN dagCheckStack /\ k < Len(dagCheckStack)
              /\ k # n /\ k # n + 1 /\ k < n + 1
          BY <1>6, <3>3
        <4>2. /\ dagCheckStack'[k] = dagCheckStack[k]
              /\ dagCheckStack'[k + 1] = dagCheckStack[k + 1]
              /\ nextDep'[k] = nextDep[k]
          BY <1>5, <1>6, <2>2, <3>3
        <4>3. SearchOK  BY <1>1, CheckFacts
        <4>4. QED  BY <1>6, <4>1, <4>2, <4>3 DEF SearchOK
      <3>4. k = n + 1 \/ k = n \/ k \in 1 .. n - 1  BY <1>6
      <3>5. QED  BY <3>1, <3>2, <3>3, <3>4
    <2>5. SearchOK'
      <3>1. dagCheckStack'[1] = root'
        <4>1. 1 \in 1 .. n  BY <1>1, <1>6 DEF n
        <4>2. dagCheckStack[1] = root  BY <1>1, CheckFacts DEF SearchOK
        <4>3. QED  BY <1>2, <1>5, <4>1, <4>2
      <3>2. root' <= Len(fileIndex') + 1 /\ \A r \in 1 .. root' - 1 : r \notin Doomed'
        BY <1>1, <1>2, <2>3, CheckFacts DEF SearchOK
      <3>3. \A k \in DOMAIN dagCheckStack' :
              /\ nextDep'[k] <= Len(deps'[dagCheckStack'[k]]) + 1
              /\ k < Len(dagCheckStack') =>
                   /\ nextDep'[k] > 1
                   /\ dagCheckStack'[k + 1] = deps'[dagCheckStack'[k]][nextDep'[k] - 1]
              /\ \A j \in 1 .. nextDep'[k] - 1 :
                   (k = Len(dagCheckStack') \/ j < nextDep'[k] - 1)
                       => deps'[dagCheckStack'[k]][j] \notin Doomed'
        BY <1>2, <1>5, <2>3, <2>4
      <3>4. Len(nextDep') = Len(dagCheckStack')  BY <1>5, <2>2
      <3>5. QED  BY <3>1, <3>2, <3>3, <3>4 DEF SearchOK
    <2>6. OutcomeOK'  BY <2>1, <2>5 DEF OutcomeOK
    <2>7. QED
      BY <1>1, <1>2, <1>5, <1>8, <2>1, <2>2, <2>6, CheckFacts, CheckStep
  <1>11. QED  BY <1>9, <1>10

LEMMA BacktrackKeeps ==
    ASSUME IInv, Backtrack
    PROVE  IInv'
  <1> DEFINE n == Len(nextDep)
             p == dagCheckStack[n]
  <1>1. /\ phase = "check" /\ phase' = "check" /\ nextDep # <<>>
        /\ UNCHANGED <<inputs, tables, scanner>>
        /\ n > 0 /\ n = Len(dagCheckStack) /\ dagCheckStack # <<>>
        /\ dagCheckStack' = Front(dagCheckStack) /\ nextDep' = Front(nextDep)
        /\ root' = IF n = 1 THEN root + 1 ELSE root
    <2>1. phase = "check" /\ nextDep # <<>>  BY DEF Backtrack, Leave
    <2>2. n > 0 /\ n = Len(dagCheckStack) /\ dagCheckStack # <<>>
      BY <2>1, CheckFacts
    <2>3. QED  BY <2>1, <2>2 DEF Backtrack, Leave
  <1>2. UNCHANGED <<fileIndex, deps>>  BY <1>1 DEF tables
  <1>3. /\ n \in Nat /\ DOMAIN dagCheckStack = 1 .. n
        /\ n \in DOMAIN dagCheckStack /\ n = Len(dagCheckStack)
        /\ dagCheckStack \in Seq(Prog) /\ nextDep \in Seq(Nat \ {0})
    BY <1>1, CheckFacts
  <1>4. /\ dagCheckStack' \in Seq(Prog) /\ Len(dagCheckStack') = n - 1
        /\ \A k \in 1 .. n - 1 : dagCheckStack'[k] = dagCheckStack[k]
        /\ nextDep' \in Seq(Nat \ {0}) /\ Len(nextDep') = n - 1
        /\ \A k \in 1 .. n - 1 : nextDep'[k] = nextDep[k]
    <2>1. /\ dagCheckStack' \in Seq(Prog) /\ Len(dagCheckStack') = n - 1
          /\ \A k \in 1 .. n - 1 : dagCheckStack'[k] = dagCheckStack[k]
      BY <1>1, <1>3, FrontFacts
    <2>2. /\ nextDep' \in Seq(Nat \ {0}) /\ Len(nextDep') = n - 1
          /\ \A k \in 1 .. n - 1 : nextDep'[k] = nextDep[k]
      BY <1>1, <1>3, FrontFacts
    <2>3. QED  BY <2>1, <2>2
  <1>5. p \in Prog /\ nextDep[n] \in Nat /\ nextDep[n] > Len(deps[p])
    <2>1. Last(dagCheckStack) = p /\ p \in Prog
      BY <1>1, <1>3, FrontFacts
    <2>2. Last(nextDep) = nextDep[n] /\ nextDep[n] \in Nat
      BY <1>1, <1>3, FrontFacts
    <2>3. QED  BY <2>1, <2>2 DEF Backtrack, Leave, Pending
  <1> HIDE DEF n, p
  <1>6. p = dagCheckStack[n]  BY DEF p
  <1>7. SearchOK  BY <1>1, CheckFacts
  <1>8. p \notin Doomed
    <2>1. Len(deps[p]) \in Nat /\ DOMAIN deps[p] = 1 .. Len(deps[p])
      BY <1>1, <1>5, CheckFacts
    <2>2. \A j \in 1 .. nextDep[n] - 1 : deps[p][j] \notin Doomed
      BY <1>3, <1>6, <1>7 DEF SearchOK
    <2>3. \A j \in DOMAIN deps[p] : deps[p][j] \notin Doomed
      BY <1>5, <2>1, <2>2
    <2>4. QED  BY <2>3, DoomedDependence DEF Elements
  <1>9. PathOK'
    <2> SUFFICES ASSUME NEW i \in 1 .. Len(dagCheckStack') - 1
                 PROVE  dagCheckStack'[i + 1] \in Elements(deps'[dagCheckStack'[i]])
      BY DEF PathOK, Elements
    <2>1. i \in 1 .. n - 1 /\ i + 1 \in 1 .. n - 1  BY <1>3, <1>4
    <2>2. dagCheckStack[i + 1] \in Elements(deps[dagCheckStack[i]])
      BY <1>3, <2>1 DEF IInv, PathOK
    <2>3. QED  BY <1>2, <1>4, <2>1, <2>2
  <1>10. Doomed' = Doomed  BY <1>2 DEF Doomed, Prog, Elements
  <1>11. /\ root' \in Nat \ {0} /\ root' <= Len(fileIndex') + 1
         /\ \A r \in 1 .. root' - 1 : r \notin Doomed'
         /\ dagCheckStack' # <<>> => dagCheckStack'[1] = root'
    <2>1. /\ root \in Nat \ {0} /\ root <= Len(fileIndex) + 1 /\ Len(fileIndex) \in Nat
          /\ \A r \in 1 .. root - 1 : r \notin Doomed
          /\ dagCheckStack[1] = root
      BY <1>1, <1>7, CheckFacts DEF SearchOK
    <2>2. CASE n = 1
      <3>1. root = p /\ root' = root + 1  BY <1>1, <1>6, <2>1, <2>2 DEF n
      <3>2. root <= Len(fileIndex)  BY <1>1, <1>5, <3>1, CheckFacts
      <3>3. \A r \in 1 .. root' - 1 : r = p \/ r \in 1 .. root - 1
        BY <2>1, <3>1
      <3>4. dagCheckStack' = <<>>  BY <1>4, <2>2
      <3>5. QED  BY <1>2, <1>8, <1>10, <2>1, <3>1, <3>2, <3>3, <3>4
    <2>3. CASE n # 1
      <3>1. root' = root  BY <1>1, <2>3 DEF n
      <3>2. dagCheckStack'[1] = dagCheckStack[1]
        <4>1. 1 \in 1 .. n - 1  BY <1>3, <2>3
        <4>2. QED  BY <1>4, <4>1
      <3>3. QED  BY <1>2, <1>10, <2>1, <3>1, <3>2
    <2>4. QED  BY <2>2, <2>3
  <1>12. \A k \in 1 .. n - 1 :
           /\ nextDep'[k] <= Len(deps[dagCheckStack'[k]]) + 1
           /\ k < n - 1 =>
                /\ nextDep'[k] > 1
                /\ dagCheckStack'[k + 1] = deps[dagCheckStack'[k]][nextDep'[k] - 1]
           /\ \A j \in 1 .. nextDep'[k] - 1 :
                (k = n - 1 \/ j < nextDep'[k] - 1)
                    => deps[dagCheckStack'[k]][j] \notin Doomed
    <2> TAKE k \in 1 .. n - 1
    <2>1. /\ dagCheckStack'[k] = dagCheckStack[k] /\ nextDep'[k] = nextDep[k]
          /\ k < n - 1 => dagCheckStack'[k + 1] = dagCheckStack[k + 1]
      <3>1. k < n - 1 => k + 1 \in 1 .. n - 1  BY <1>3
      <3>2. QED  BY <1>4, <3>1
    <2>2. k \in DOMAIN dagCheckStack /\ k < Len(dagCheckStack)
      BY <1>3
    <2>3. /\ nextDep[k] \in Nat /\ nextDep[k] > 1
          /\ nextDep[k] <= Len(deps[dagCheckStack[k]]) + 1
          /\ dagCheckStack[k + 1] = deps[dagCheckStack[k]][nextDep[k] - 1]
          /\ \A j \in 1 .. nextDep[k] - 1 :
                 j < nextDep[k] - 1 => deps[dagCheckStack[k]][j] \notin Doomed
      BY <1>3, <1>4, <1>7, <2>1, <2>2 DEF SearchOK
    <2>4. k = n - 1 => dagCheckStack[k + 1] = p
      BY <1>3, <1>6
    <2>5. ASSUME k = n - 1, NEW j \in 1 .. nextDep[k] - 1
          PROVE  deps[dagCheckStack[k]][j] \notin Doomed
      <3>1. CASE j < nextDep[k] - 1  BY <2>3, <3>1
      <3>2. CASE j = nextDep[k] - 1  BY <1>8, <2>3, <2>4, <2>5, <3>2
      <3>3. QED  BY <2>3, <3>1, <3>2
    <2>6. QED  BY <1>3, <2>1, <2>3, <2>5
  <1>13. SearchOK'
    <2>1. \A k \in DOMAIN dagCheckStack' :
            /\ nextDep'[k] <= Len(deps'[dagCheckStack'[k]]) + 1
            /\ k < Len(dagCheckStack') =>
                 /\ nextDep'[k] > 1
                 /\ dagCheckStack'[k + 1] = deps'[dagCheckStack'[k]][nextDep'[k] - 1]
            /\ \A j \in 1 .. nextDep'[k] - 1 :
                 (k = Len(dagCheckStack') \/ j < nextDep'[k] - 1)
                     => deps'[dagCheckStack'[k]][j] \notin Doomed'
      <3>1. DOMAIN dagCheckStack' = 1 .. n - 1 /\ Len(dagCheckStack') = n - 1
        BY <1>3, <1>4
      <3>2. QED  BY <1>2, <1>10, <1>12, <3>1
    <2>2. Len(nextDep') = Len(dagCheckStack')  BY <1>4
    <2>3. QED  BY <1>11, <2>1, <2>2 DEF SearchOK
  <1>14. QED
    BY <1>1, <1>4, <1>9, <1>11, <1>13, CheckStep DEF OutcomeOK

LEMMA AcceptKeeps ==
    ASSUME IInv, Accept
    PROVE  IInv'
  <1>1. /\ phase = "check" /\ phase' = "ok" /\ root > Len(fileIndex)
        /\ UNCHANGED <<inputs, tables, scanner, root, dagCheckStack, nextDep>>
    BY DEF Accept, checker
  <1>2. UNCHANGED <<fileIndex, deps>>  BY <1>1 DEF tables
  <1>3. PathOK'  BY <1>1, <1>2 DEF IInv, PathOK, Elements
  <1>4. \A p \in Prog : p \notin Doomed
    BY <1>1, CheckFacts DEF SearchOK
  <1>5. OutcomeOK'
    <2>1. Prog' = Prog /\ Doomed' = Doomed  BY <1>2 DEF Doomed, Prog, Elements
    <2>2. QED  BY <1>1, <1>4, <2>1 DEF OutcomeOK
  <1>6. QED  BY <1>1, <1>3, <1>5, CheckFacts, CheckStep

LEMMA NextIInv == IInv /\ [Next]_vars => IInv'
  <1> SUFFICES ASSUME IInv, [Next]_vars PROVE IInv'
    OBVIOUS
  <1>1. CASE Next
    BY <1>1, OpenFileKeeps, CannotOpenKeeps, ScanImportKeeps, CloseFileKeeps,
       FinishScanKeeps, StartRootKeeps, FollowKeeps, BacktrackKeeps, AcceptKeeps
       DEF Next
  <1>2. CASE UNCHANGED vars
    <2>1. UNCHANGED <<args, imports, present, inputFileList, fileNameList, progMap,
                      fileIndex, deps, pos, fp, curProg, line, root, dagCheckStack,
                      nextDep, phase>>
      BY <1>2 DEF vars, inputs, tables, scanner, checker
    <2>2. Prog' = Prog /\ Names' = Names  BY <2>1 DEF Prog, Names
    <2>3. TypeOK' /\ TablesOK' /\ ScanOK'
      BY <2>1, <2>2 DEF IInv, TypeOK, TablesOK, ScanOK
    <2>4. GraphSound' /\ PathOK'
      <3>1. ListedEdges' = ListedEdges  BY <2>1 DEF ListedEdges, Elements
      <3>2. GraphSound'  BY <2>1, <2>2, <3>1 DEF IInv, GraphSound, Elements
      <3>3. PathOK'  BY <2>1, <2>2 DEF IInv, PathOK, Elements
      <3>4. QED  BY <3>2, <3>3
    <2>5. GraphComplete'
      BY <2>1, <2>2 DEF IInv, GraphComplete, Recorded, Elements
    <2>6. OutcomeOK'
      <3>1. Doomed' = Doomed  BY <2>1, <2>2 DEF Doomed, Elements
      <3>2. Last(dagCheckStack)' = Last(dagCheckStack)  BY <2>1 DEF Last
      <3>3. SearchOK' = SearchOK  BY <2>1, <3>1 DEF SearchOK
      <3>4. QED  BY <2>1, <2>2, <3>1, <3>2, <3>3 DEF IInv, OutcomeOK
    <2>7. QED  BY <2>3, <2>4, <2>5, <2>6 DEF IInv
  <1>3. QED  BY <1>1, <1>2

LEMMA Invariant == Spec => []IInv
  BY InitIInv, NextIInv, PTL DEF Spec

-----------------------------------------------------------------------------
(* What the analysis promises.                                             *)

\* The tables, the path and the graph keep their types: every edge, every
\* ProgMap entry and every path entry is a program of ProgramList.
THEOREM TypeCorrect == Spec => []TypeOK
  <1>1. IInv => TypeOK  BY DEF IInv
  <1>2. QED  BY <1>1, Invariant, PTL

\* The name a FileIndex leads to.
LEMMA NameOfProg ==
    ASSUME IInv, NEW p \in Prog
    PROVE  NameOf(p) = Names[p] /\ p \in Nat
  <1>1. p \in Nat /\ fileIndex[p] = p - 1
    BY DEF IInv, TypeOK, TablesOK, Prog
  <1>2. QED  BY <1>1 DEF NameOf

\* getOrCreateProgAST makes one program per file and FileIndex leads back to the
\* file, for every disk and command line.
THEOREM OneProgram == Spec => []OneProgramPerFile
  <1>1. IInv => OneProgramPerFile
    <2> SUFFICES ASSUME IInv PROVE OneProgramPerFile
      OBVIOUS
    <2>1. Len(Names) = Len(fileIndex) /\ Len(fileIndex) \in Nat
          /\ Prog = 1 .. Len(fileIndex)
      BY DEF IInv, TypeOK, TablesOK, Prog
    <2>2. \A p \in Prog : fileIndex[p] < Len(Names)
      BY <2>1 DEF IInv, TablesOK
    <2>3. \A p, q \in Prog : NameOf(p) = NameOf(q) => p = q
      BY NameOfProg DEF IInv, TablesOK
    <2>4. QED  BY <2>1, <2>2, <2>3 DEF OneProgramPerFile
  <1>2. QED  BY <1>1, Invariant, PTL

\* The dependences of a program are programs.
LEMMA DepsType ==
    ASSUME IInv, NEW p \in Prog
    PROVE  Elements(deps[p]) \subseteq Prog
  <1>1. deps \in Seq(Seq(Prog)) /\ p \in DOMAIN deps
    BY DEF IInv, TypeOK, Prog
  <1>2. deps[p] \in Seq(Prog)  BY <1>1
  <1>3. QED  BY <1>2, ElementsType

\* When the scan is over, the dependences are the imports of the listed files.
LEMMA ScannedGraph ==
    ASSUME IInv, phase \in {"check", "ok", "cyclic"}
    PROVE  \A f, g : <<f, g>> \in ListedEdges <=> Recorded(f, g)
  <1> TAKE f, g
  <1>1. ASSUME <<f, g>> \in ListedEdges PROVE Recorded(f, g)
    <2>1. f \in Elements(args) /\ g \in Elements(imports[f])
      BY <1>1 DEF ListedEdges
    <2>2. QED  BY <2>1 DEF IInv, GraphComplete
  <1>2. ASSUME Recorded(f, g) PROVE <<f, g>> \in ListedEdges
    BY <1>2 DEF Recorded, IInv, GraphSound
  <1>3. QED  BY <1>1, <1>2

\* The scan records the import relation of the listed files and nothing else.
THEOREM ScanIsFaithful == Spec => []GraphMatchesSources
  <1>1. IInv => GraphMatchesSources
    <2> SUFFICES ASSUME IInv, phase \in {"check", "ok", "cyclic"}
                 PROVE  RecordedEdges = ListedEdges
      BY DEF GraphMatchesSources
    <2>1. \A e \in RecordedEdges : e \in ListedEdges
      <3> SUFFICES ASSUME NEW p \in Prog, NEW q \in Elements(deps[p])
                   PROVE  <<NameOf(p), NameOf(q)>> \in ListedEdges
        BY DEF RecordedEdges
      <3>1. q \in Prog  BY DepsType
      <3>2. NameOf(p) = Names[p] /\ NameOf(q) = Names[q]
        BY <3>1, NameOfProg
      <3>3. QED  BY <3>2 DEF IInv, GraphSound
    <2>2. \A e \in ListedEdges : e \in RecordedEdges
      <3> SUFFICES ASSUME NEW f \in Elements(args), NEW g \in Elements(imports[f])
                   PROVE  <<f, g>> \in RecordedEdges
        BY DEF ListedEdges
      <3>1. Recorded(f, g)  BY DEF IInv, GraphComplete
      <3>2. PICK p \in Prog : \E q \in Elements(deps[p]) : Names[p] = f /\ Names[q] = g
        BY <3>1 DEF Recorded
      <3>3. PICK q \in Elements(deps[p]) : Names[p] = f /\ Names[q] = g
        BY <3>2
      <3>4. q \in Prog  BY DepsType
      <3>5. NameOf(p) = f /\ NameOf(q) = g  BY <3>3, <3>4, NameOfProg
      <3>6. QED  BY <3>5 DEF RecordedEdges
    <2>3. QED  BY <2>1, <2>2
  <1>2. QED  BY <1>1, Invariant, PTL

\* The path of a rejected compilation, as imports of the sources.
LEMMA CyclicPath ==
    ASSUME IInv, phase = "cyclic"
    PROVE  LET path == dagCheckStack IN
           /\ Len(path) \in Nat /\ \A i \in 1 .. Len(path) : path[i] \in Prog
           /\ \A i \in 1 .. Len(path) - 1 :
                  <<Names[path[i]], Names[path[i + 1]]>> \in ListedEdges
           /\ \E i \in 1 .. Len(path) - 1 : path[i] = path[Len(path)]
  <1> DEFINE path == dagCheckStack
  <1>1. Len(path) \in Nat /\ \A i \in 1 .. Len(path) : path[i] \in Prog
    BY DEF IInv, TypeOK
  <1>2. ASSUME NEW i \in 1 .. Len(path) - 1
        PROVE  <<Names[path[i]], Names[path[i + 1]]>> \in ListedEdges
    <2>1. path[i] \in Prog  BY <1>1
    <2>2. path[i + 1] \in Elements(deps[path[i]])  BY DEF IInv, PathOK
    <2>3. QED  BY <2>1, <2>2 DEF IInv, GraphSound
  <1>3. \E i \in 1 .. Len(path) - 1 : path[i] = path[Len(path)]
    BY DEF IInv, OutcomeOK, Last
  <1>4. QED  BY <1>1, <1>2, <1>3

\* logRefError reports a cycle of imports of the sources.
THEOREM ReportIsTrue == Spec => []ReportIsRealCycle
  <1>1. IInv => ReportIsRealCycle
    <2> SUFFICES ASSUME IInv, phase = "cyclic" PROVE ReportIsRealCycle
      BY DEF ReportIsRealCycle
    <2> DEFINE path == dagCheckStack
    <2>1. Len(path) \in Nat /\ \A i \in 1 .. Len(path) : path[i] \in Prog
      BY CyclicPath
    <2>2. ASSUME NEW i \in 1 .. Len(path) - 1
          PROVE  <<NameOf(path[i]), NameOf(path[i + 1])>> \in ListedEdges
      <3>1. path[i] \in Prog /\ path[i + 1] \in Prog  BY <2>1
      <3>2. <<Names[path[i]], Names[path[i + 1]]>> \in ListedEdges
        BY CyclicPath
      <3>3. QED  BY <3>1, <3>2, NameOfProg
    <2>3. \E i \in 1 .. Len(path) - 1 : path[i] = Last(path)
      BY CyclicPath DEF Last
    <2>4. QED  BY <2>2, <2>3 DEF ReportIsRealCycle
  <1>2. QED  BY <1>1, Invariant, PTL

\* The compilation is rejected as cyclic exactly when the listed files' imports
\* have a cycle, for every disk and command line.
THEOREM Verdict == Spec => []VerdictIsRight
  <1>1. ASSUME IInv, phase = "ok", HasCycle(ListedEdges) PROVE FALSE
    <2>1. PICK C : C # {} /\ \A f \in C : \E g \in C : <<f, g>> \in ListedEdges
      BY <1>1 DEF HasCycle
    <2> DEFINE D == {p \in Prog : Names[p] \in C}
    <2>2. \A f \in C : \E g \in C : Recorded(f, g)
      BY <1>1, <2>1, ScannedGraph
    <2>3. \A c \in D : \E d \in D : d \in Elements(deps[c])
      <3> TAKE c \in D
      <3>1. PICK g \in C : Recorded(Names[c], g)  BY <2>2
      <3>2. PICK p \in Prog : \E q \in Elements(deps[p]) :
                Names[p] = Names[c] /\ Names[q] = g
        BY <3>1 DEF Recorded
      <3>3. PICK q \in Elements(deps[p]) : Names[p] = Names[c] /\ Names[q] = g
        BY <3>2
      <3>4. p = c  BY <1>1, <3>3 DEF IInv, TablesOK
      <3>5. q \in Prog  BY <1>1, DepsType
      <3>6. QED  BY <3>3, <3>4, <3>5
    <2>4. \E p \in Prog : p \in D
      <3>1. PICK f \in C, g \in C : Recorded(f, g)  BY <2>1, <2>2
      <3>2. QED  BY <3>1 DEF Recorded
    <2>5. \E p \in Prog : p \in Doomed
      <3>1. D \in SUBSET Prog  OBVIOUS
      <3>2. QED  BY <2>3, <2>4, <3>1 DEF Doomed
    <2>6. QED  BY <1>1, <2>5 DEF IInv, OutcomeOK
  <1>2. ASSUME IInv, phase = "cyclic" PROVE HasCycle(ListedEdges)
    <2> DEFINE path == dagCheckStack
               last == Len(path)
               C == {Names[path[i]] : i \in 1 .. last - 1}
    <2>1. PICK k \in 1 .. last - 1 : path[k] = path[last]
      BY <1>2, CyclicPath
    <2>2. \A i \in 1 .. last - 1 : <<Names[path[i]], Names[path[i + 1]]>> \in ListedEdges
      BY <1>2, CyclicPath
    <2>3. ASSUME NEW i \in 1 .. last - 1 PROVE Names[path[i + 1]] \in C
      <3>1. last \in Nat  BY <1>2, CyclicPath
      <3>2. CASE i = last - 1  BY <2>1, <3>1, <3>2
      <3>3. CASE i # last - 1
        <4>1. i + 1 \in 1 .. last - 1  BY <3>1, <3>3
        <4>2. QED  BY <4>1
      <3>4. QED  BY <3>2, <3>3
    <2>4. \A f \in C : \E g \in C : <<f, g>> \in ListedEdges
      BY <2>2, <2>3
    <2>5. C # {}  BY <2>1
    <2>6. C \subseteq {e[1] : e \in ListedEdges}
      <3> SUFFICES ASSUME NEW f \in C PROVE f \in {e[1] : e \in ListedEdges}
        OBVIOUS
      <3>1. PICK g \in C : <<f, g>> \in ListedEdges  BY <2>4
      <3>2. <<f, g>>[1] = f  OBVIOUS
      <3>3. QED  BY <3>1, <3>2
    <2> HIDE DEF C
    <2>7. QED  BY <2>4, <2>5, <2>6 DEF HasCycle
  <1>3. IInv => VerdictIsRight
    BY <1>1, <1>2 DEF VerdictIsRight
  <1>4. QED  BY <1>3, Invariant, PTL

-----------------------------------------------------------------------------
(* The analysis within the driver.                                         *)

\* A step of the driver is one of the analysis or leaves it alone.
LEMMA DriverStep == [DriverNext]_allVars => [Next]_vars
  <1> SUFFICES ASSUME [DriverNext]_allVars PROVE [Next]_vars
    OBVIOUS
  <1>1. CASE Analyse  BY <1>1 DEF Analyse
  <1>2. CASE UNCHANGED allVars  BY <1>2 DEF allVars
  <1>3. ASSUME DriverNext, ~Analyse PROVE UNCHANGED vars
    BY <1>3 DEF DriverNext, AnalysisFails, AnalysisSucceeds, Parse, ParseFails, ParseHangs,
                ParseMissing, StopEarly, FinishParse, NextLoop, Build, BuilderDies, FinishBuild,
                AddFile, PrintText, CannotWrite, FatalWrite, FinishPrint, Link, DoNotRun, RunOnly,
                RunForCheck, FileCheck
  <1>4. QED  BY <1>1, <1>2, <1>3

\* The driver implements the dependence analysis: whatever the loops behind it do, the
\* tables of the analysis stay as it left them, and its theorems hold of main() as a
\* whole.
THEOREM DriverAnalyses == DriverSpec => Spec
  <1>1. DriverInit => Init  BY DEF DriverInit
  <1>2. QED  BY <1>1, DriverStep, PTL DEF DriverSpec, Spec

\* So does its inductive invariant.
LEMMA AnalysisInvariant == DriverSpec => []IInv
  BY DriverAnalyses, Invariant, PTL

-----------------------------------------------------------------------------
(* The number of programs is bounded by the numbers of the text files.      *)

InputsBounded ==
    /\ Len(args) <= MaxArgs
    /\ \A f \in File : Len(imports[f]) <= MaxImports

\* Each file of the command line brings at most itself and its imports.
TablesBounded ==
    phase = "scan" =>
        Len(fileIndex) <= (pos - 1) * (MaxImports + 1) + (IF fp = NoFile THEN 0 ELSE line)

Bounded == InputsBounded /\ TablesBounded /\ Len(fileIndex) <= MaxArgs * (MaxImports + 1)

-----------------------------------------------------------------------------
(* The inductive invariant of the driver.                                  *)

Compiling == {"parse", "build", "print", "link", "run", "filecheck"}

\* The files of the list are those of the first n programs, each with the text of its
\* program unless that could not be written; behind them nothing has been touched.
Printed(n) ==
    /\ Len(objFileList) = n
    /\ \A i \in 1 .. n : objFileList[i] = i - 1
                         /\ text[i - 1] = IF i \in unwritten THEN Old ELSE i
    /\ \A i \in DOMAIN text : i >= n => text[i] = Old
    /\ unwritten \subseteq 1 .. n

\* What is linked from these texts.
Linked == {IF p \in unwritten THEN Old ELSE p : p \in Prog}

StageOK ==
    /\ stage \in Compiling \cup {"analysis", "exited", "endless"}
    /\ stage \in Compiling => phase = "ok"
    /\ next \in Nat \ {0}
    /\ stage = "analysis" => next = 1
    /\ stage \in {"parse", "build", "print"} => next <= Len(fileIndex) + 1
    /\ stage # "exited" => exitStatus = Running

BuiltOK ==
    /\ \A c \in calls : c[2] \in 1 .. c[1] - 1
    /\ stage \in {"analysis", "parse"} => built = {}
    /\ stage = "build" => built = 1 .. next - 1

TextOK ==
    /\ DOMAIN text = 0 .. MaxArgs * (MaxImports + 1)
    /\ objFileList \in Seq(Nat)
    /\ stage \in {"analysis", "parse", "build"} =>
           /\ objFileList = <<>> /\ unwritten = {}
           /\ \A i \in DOMAIN text : text[i] = Old
    /\ backend = "llvm" => unwritten = {}
    /\ stage = "print" => Printed(next - 1)
    /\ stage = "link" => Printed(Len(fileIndex))
    /\ stage \in {"run", "filecheck"} => executable = Linked
    /\ stage = "filecheck" => backend = "llvm" /\ output = Prog

DInv == Bounded /\ StageOK /\ BuiltOK /\ TextOK /\ ZeroMeansBuilt

-----------------------------------------------------------------------------
(* The bound.                                                              *)

\* The room for one more file.
LEMMA RoomGrows ==
    ASSUME NEW n \in Nat, NEW m \in Nat
    PROVE  n * m \in Nat /\ (n + 1) * m = n * m + m
  OBVIOUS

\* Fewer files need no more room.
LEMMA RoomMonotone ==
    ASSUME NEW n \in Nat, NEW k \in Nat, n <= k, NEW m \in Nat
    PROVE  n * m <= k * m
  <1>1. k - n \in Nat /\ n + (k - n) = k  OBVIOUS
  <1>2. \A d \in Nat : (n + d) * m = n * m + d * m /\ d * m >= 0  OBVIOUS
  <1>3. k * m = n * m + (k - n) * m /\ (k - n) * m >= 0
    BY <1>1, <1>2
  <1>4. n * m \in Nat /\ k * m \in Nat /\ (k - n) * m \in Nat  BY <1>1
  <1>5. QED  BY <1>3, <1>4

\* A sequence of up to n elements has at most n.
LEMMA SeqUpToBound ==
    ASSUME NEW S, NEW n \in Nat, NEW s \in SeqUpTo(S, n)
    PROVE  Len(s) <= n
  <1>1. PICK k \in 0 .. n : s \in [1 .. k -> S]  BY DEF SeqUpTo
  <1>2. Len(s) = k  BY <1>1
  <1>3. QED  BY <1>1, <1>2

\* The bound holds at first, with no program yet.
LEMMA InitBounded == Init => Bounded
  <1> SUFFICES ASSUME Init PROVE Bounded
    OBVIOUS
  <1>1. MaxArgs \in Nat /\ MaxImports \in Nat  BY ConstantsAssumption
  <1>2. InputsBounded
    <2>1. args \in SeqUpTo(File, MaxArgs)  BY DEF Init
    <2>2. \A f \in File : imports[f] \in SeqUpTo(File, MaxImports)  BY DEF Init
    <2>3. QED  BY <1>1, <2>1, <2>2, SeqUpToBound DEF InputsBounded
  <1>3. Len(fileIndex) = 0 /\ pos = 1 /\ fp = NoFile  BY DEF Init
  <1>4. 0 * (MaxImports + 1) = 0 /\ MaxArgs * (MaxImports + 1) >= 0  BY <1>1
  <1>5. QED  BY <1>2, <1>3, <1>4 DEF Bounded, TablesBounded

\* A step adds at most one program, and moves on in the files at least as far.
LEMMA NextBounded ==
    ASSUME IInv, Bounded, [Next]_vars
    PROVE  Bounded'
  <1> DEFINE m == MaxImports + 1
             n == Len(fileIndex)
             done == (pos - 1) * m
             all == MaxArgs * m
  <1>1. InputsBounded'
    <2>1. UNCHANGED <<args, imports>>
      BY DEF Next, vars, OpenFile, CannotOpen, ScanImport, ScanMatch, CloseFile, FinishScan,
             StartRoot, Follow, Backtrack, Leave, Accept, inputs
    <2>2. QED  BY <2>1 DEF Bounded, InputsBounded
  <1>2. m \in Nat /\ MaxArgs \in Nat /\ all \in Nat /\ n \in Nat /\ n <= all
        /\ pos \in Nat \ {0} /\ pos - 1 \in Nat /\ done \in Nat /\ line \in Nat
    <2>1. /\ n \in Nat /\ n <= all /\ pos \in Nat \ {0} /\ line \in Nat
          /\ m \in Nat /\ MaxArgs \in Nat
      BY ConstantsAssumption DEF IInv, TypeOK, Bounded
    <2>2. pos - 1 \in Nat  BY <2>1
    <2> HIDE DEF m, n
    <2>3. done \in Nat /\ all \in Nat  BY <2>1, <2>2, RoomGrows
    <2>4. QED  BY <2>1, <2>2, <2>3
  <1> HIDE DEF m
  <1>3. ASSUME phase = "scan"
        PROVE  /\ n <= done + (IF fp = NoFile THEN 0 ELSE line)
               /\ pos <= MaxArgs + 1
               /\ fp # NoFile => line <= m /\ pos <= MaxArgs
    <2>1. n <= done + (IF fp = NoFile THEN 0 ELSE line)
      BY <1>3 DEF Bounded, TablesBounded, m
    <2>2. pos <= Len(args) + 1 /\ Len(args) \in Nat /\ Len(args) <= MaxArgs
      BY <1>3 DEF IInv, TypeOK, ScanOK, Bounded, InputsBounded
    <2>3. ASSUME fp # NoFile PROVE line <= m /\ pos <= MaxArgs
      <3>1. pos <= Len(args) /\ line <= Len(imports[fp]) + 1 /\ fp \in File
        BY <1>3, <2>3 DEF IInv, TypeOK, ScanOK
      <3>2. imports[fp] \in Seq(File) /\ Len(imports[fp]) <= MaxImports
        BY <3>1 DEF IInv, TypeOK, Bounded, InputsBounded
      <3>3. QED  BY <1>2, <2>2, <3>1, <3>2, ConstantsAssumption DEF m
    <2>4. QED  BY <1>2, <2>1, <2>2, <2>3
  <1>4. ASSUME NEW file, Register(file) PROVE Len(fileIndex') \in {n, n + 1}
    <2>1. fileIndex \in Seq(Nat)  BY DEF IInv, TypeOK
    <2>2. QED  BY <1>4, <2>1 DEF Register
  <1>5. ASSUME NEW k \in Nat, k <= MaxArgs PROVE k * m <= all
    BY <1>2, <1>5, RoomMonotone
  <1>6. pos * m = done + m
    <2>1. \A k \in Nat : (k + 1) * m = k * m + m  BY <1>2, RoomGrows
    <2>2. (pos - 1) + 1 = pos  BY <1>2
    <2>3. QED  BY <1>2, <2>1, <2>2
  <1> HIDE DEF done, all, n
  <1>7. ASSUME phase = "scan", fp # NoFile PROVE done + m <= all
    <2>1. pos <= MaxArgs /\ pos \in Nat  BY <1>2, <1>3, <1>7
    <2>2. pos * m <= all  BY <1>5, <2>1
    <2>3. QED  BY <1>6, <2>2
  <1>8. CASE OpenFile
    <2>1. phase = "scan" /\ fp = NoFile /\ line' = 1 /\ pos' = pos /\ pos <= Len(inputFileList)
          /\ Len(fileIndex') \in {n, n + 1} /\ phase' = phase /\ fp' = inputFileList[pos]
      BY <1>4, <1>8 DEF OpenFile, Scanning
    <2>2. fp' # NoFile
      <3>1. inputFileList \in Seq(File)  BY DEF IInv, TypeOK
      <3>2. inputFileList[pos] \in File  BY <1>2, <2>1, <3>1
      <3>3. QED  BY <2>1, <3>2, ConstantsAssumption
    <2>3. pos \in Nat /\ pos <= MaxArgs
      BY <1>2, <2>1 DEF IInv, TypeOK, ScanOK, Bounded, InputsBounded
    <2>4. pos * m <= all  BY <1>5, <2>3
    <2>5. n <= done  BY <1>2, <1>3, <2>1
    <2>6. Len(fileIndex') <= done + 1  BY <1>2, <2>1, <2>5
    <2>7. m >= 1  BY ConstantsAssumption DEF m
    <2>8. done + 1 <= all  BY <1>2, <1>6, <2>4, <2>7
    <2>9. Len(fileIndex') \in Nat  BY <1>2, <2>1
    <2>10. Len(fileIndex') <= all  BY <1>2, <2>6, <2>8, <2>9
    <2>11. (pos' - 1) * m = done  BY <2>1 DEF done
    <2>12. TablesBounded'  BY <2>1, <2>2, <2>6, <2>11 DEF TablesBounded, m
    <2>13. QED  BY <1>1, <2>10, <2>12 DEF Bounded, all, m
  <1>9. CASE ScanImport
    <2>1. phase = "scan" /\ fp # NoFile /\ line' = line + 1 /\ pos' = pos /\ fp' = fp
          /\ Len(fileIndex') \in {n, n + 1} /\ phase' = phase /\ line <= Len(imports[fp])
      BY <1>4, <1>9 DEF ScanImport, ScanMatch
    <2>2. line + 1 <= m
      <3>1. fp \in File /\ imports[fp] \in Seq(File)  BY <2>1 DEF IInv, TypeOK
      <3>2. Len(imports[fp]) <= MaxImports /\ Len(imports[fp]) \in Nat
        BY <3>1 DEF Bounded, InputsBounded
      <3>3. QED  BY <1>2, <2>1, <3>2, ConstantsAssumption DEF m
    <2>3. n <= done + line  BY <1>3, <2>1
    <2>4. done + m <= all  BY <1>7, <2>1
    <2>5. Len(fileIndex') \in Nat /\ Len(fileIndex') <= done + line'
      BY <1>2, <2>1, <2>3
    <2>6. Len(fileIndex') <= all  BY <1>2, <2>1, <2>2, <2>4, <2>5
    <2>7. (pos' - 1) * m = done  BY <2>1 DEF done
    <2>8. TablesBounded'  BY <2>1, <2>5, <2>7 DEF TablesBounded, m
    <2>9. QED  BY <1>1, <2>6, <2>8 DEF Bounded, all, m
  <1>10. CASE CloseFile
    <2>1. phase = "scan" /\ fp # NoFile /\ pos' = pos + 1 /\ fp' = NoFile /\ phase' = phase
          /\ fileIndex' = fileIndex
      BY <1>10 DEF CloseFile, tables
    <2>2. n <= done + line /\ line <= m  BY <1>3, <2>1
    <2>3. n <= pos * m  BY <1>2, <1>6, <2>2
    <2>4. (pos' - 1) * m = pos * m
      <3>1. pos' - 1 = pos  BY <1>2, <2>1
      <3>2. QED  BY <3>1
    <2>5. TablesBounded'  BY <1>2, <2>1, <2>3, <2>4 DEF TablesBounded, m, n
    <2>6. QED  BY <1>1, <2>1, <2>5 DEF Bounded
  <1>11. CASE CannotOpen \/ FinishScan \/ StartRoot \/ Follow \/ Backtrack \/ Accept
              \/ UNCHANGED vars
    <2>1. /\ fileIndex' = fileIndex
          /\ phase' = "scan" => phase = "scan" /\ UNCHANGED <<pos, fp, line>>
      BY <1>11 DEF CannotOpen, FinishScan, StartRoot, Follow, Enter, Backtrack, Leave, Accept,
                   Scanning, vars, tables, scanner
    <2>2. TablesBounded'  BY <2>1 DEF Bounded, TablesBounded
    <2>3. QED  BY <1>1, <2>1, <2>2 DEF Bounded
  <1>12. QED  BY <1>8, <1>9, <1>10, <1>11 DEF Next

-----------------------------------------------------------------------------
(* The loops of the driver.                                                *)

\* The initial state satisfies the invariant of the driver.
LEMMA InitDInv == DriverInit => DInv
  <1> SUFFICES ASSUME DriverInit PROVE DInv
    OBVIOUS
  <1>1. Bounded  BY InitBounded DEF DriverInit
  <1>2. StageOK  BY DEF DriverInit, StageOK, Compiling
  <1>3. BuiltOK  BY DEF DriverInit, BuiltOK
  <1>4. TextOK  BY DEF DriverInit, TextOK
  <1>5. ZeroMeansBuilt  BY DEF DriverInit, ZeroMeansBuilt, Running
  <1>6. QED  BY <1>1, <1>2, <1>3, <1>4, <1>5 DEF DInv

\* The programs behind the analysis: their positions, each with the file index below.
LEMMA ProgFacts ==
    ASSUME IInv
    PROVE  /\ Len(fileIndex) \in Nat /\ Prog = 1 .. Len(fileIndex)
           /\ \A p \in Prog : fileIndex[p] = p - 1
  BY DEF IInv, TypeOK, TablesOK, Prog

\* The text of the next program goes to a file of its own, or that file stays as it was.
LEMMA PrintKeeps ==
    ASSUME IInv, DInv, PrintText \/ CannotWrite
    PROVE  TextOK'
  <1> DEFINE n == next
             room == MaxArgs * (MaxImports + 1)
  <1>1. /\ n \in Nat \ {0} /\ n \in Prog /\ n <= Len(fileIndex) /\ stage = "print"
        /\ stage' = stage
    BY ProgFacts DEF DInv, StageOK, PrintText, CannotWrite, AddFile, More
  <1>2. TextFile(n) = n - 1
    BY <1>1, ProgFacts DEF TextFile
  <1>3. /\ objFileList' = Append(objFileList, n - 1) /\ next' = n + 1 /\ backend' = backend
        /\ \/ text' = [text EXCEPT ![n - 1] = n] /\ unwritten' = unwritten
           \/ text' = text /\ unwritten' = unwritten \cup {n} /\ backend = "c"
    BY <1>2 DEF PrintText, CannotWrite, AddFile, Advance
  <1>4. DOMAIN text = 0 .. room /\ Len(fileIndex) <= room /\ room \in Nat
    <2>1. MaxArgs \in Nat /\ MaxImports + 1 \in Nat  BY ConstantsAssumption
    <2>2. room \in Nat  BY <2>1, RoomGrows
    <2>3. QED  BY <2>2 DEF DInv, TextOK, Bounded
  <1>5. /\ objFileList \in Seq(Nat) /\ Len(objFileList) = n - 1
        /\ \A i \in 1 .. n - 1 : objFileList[i] = i - 1
                                 /\ text[i - 1] = IF i \in unwritten THEN Old ELSE i
        /\ \A i \in DOMAIN text : i >= n - 1 => text[i] = Old
        /\ unwritten \subseteq 1 .. n - 1
        /\ backend = "llvm" => unwritten = {}
    BY <1>1 DEF DInv, TextOK, Printed
  <1> HIDE DEF n, room
  <1>6. n - 1 \in 0 .. room /\ n - 1 \in Nat /\ n + 1 - 1 = n
    BY <1>1, <1>4, ProgFacts
  <1>7. /\ DOMAIN text' = 0 .. room
        /\ \A i \in 0 .. room : i # n - 1 => text'[i] = text[i]
        /\ n \notin unwritten
        /\ unwritten' \subseteq 1 .. n
        /\ text'[n - 1] = IF n \in unwritten' THEN Old ELSE n
        /\ \A i \in 1 .. n - 1 : i \in unwritten' <=> i \in unwritten
        /\ backend' = "llvm" => unwritten' = {}
    <2>1. n \notin unwritten /\ unwritten \subseteq 1 .. n /\ n \in 1 .. n
      BY <1>1, <1>5
    <2>2. text[n - 1] = Old  BY <1>4, <1>5, <1>6
    <2>3. CASE text' = [text EXCEPT ![n - 1] = n] /\ unwritten' = unwritten
      BY <1>3, <1>4, <1>5, <1>6, <2>1, <2>3
    <2>4. CASE text' = text /\ unwritten' = unwritten \cup {n} /\ backend = "c"
      <3>1. \A i \in 1 .. n - 1 : i # n  BY <1>1
      <3>2. QED  BY <1>3, <1>4, <2>1, <2>2, <2>4, <3>1
    <2>5. QED  BY <1>3, <2>3, <2>4
  <1>8. /\ objFileList' \in Seq(Nat) /\ Len(objFileList') = n
        /\ objFileList'[n] = n - 1
        /\ \A i \in 1 .. n - 1 : objFileList'[i] = objFileList[i]
    BY <1>1, <1>3, <1>5, <1>6
  <1>9. ASSUME NEW i \in 1 .. n
        PROVE  objFileList'[i] = i - 1 /\ text'[i - 1] = IF i \in unwritten' THEN Old ELSE i
    <2>1. CASE i = n  BY <1>7, <1>8, <2>1
    <2>2. CASE i # n
      <3>1. i \in 1 .. n - 1 /\ i - 1 \in 0 .. room /\ i - 1 # n - 1
        BY <1>1, <1>4, <1>6, <2>2, ProgFacts
      <3>2. QED  BY <1>5, <1>7, <1>8, <3>1
    <2>3. QED  BY <2>1, <2>2
  <1>10. ASSUME NEW i \in DOMAIN text', i >= n PROVE text'[i] = Old
    <2>1. i \in 0 .. room /\ i # n - 1 /\ i >= n - 1  BY <1>1, <1>7, <1>10
    <2>2. QED  BY <1>4, <1>5, <1>7, <2>1
  <1>11. Printed(next - 1)'
    <2>1. next' = n + 1  BY <1>3
    <2>2. next' - 1 = n  BY <1>1, <2>1
    <2>3. QED  BY <1>7, <1>8, <1>9, <1>10, <2>2 DEF Printed
  <1>12. QED  BY <1>1, <1>7, <1>8, <1>11 DEF TextOK, room

\* What is linked from the files of all programs.
LEMMA LinkedAll ==
    ASSUME IInv, Printed(Len(fileIndex)), objFileList \in Seq(Nat)
    PROVE  {text[i] : i \in Elements(objFileList)} = Linked
  <1>1. /\ DOMAIN objFileList = Prog
        /\ \A p \in Prog : text[objFileList[p]] = IF p \in unwritten THEN Old ELSE p
    BY ProgFacts DEF Printed
  <1>2. QED  BY <1>1 DEF Elements, Linked

\* With every text written, that is all programs.
LEMMA LinkedWritten ==
    ASSUME unwritten = {}
    PROVE  Linked = Prog
  BY DEF Linked

\* A process that has ended, or never will, owes nothing but an honest status.
LEMMA EndingKeeps ==
    ASSUME IInv, DInv, Bounded',
           UNCHANGED <<vars, backend, next, calls, built, text, unwritten>>,
           objFileList' \in Seq(Nat),
           \/ stage' = "exited"
           \/ stage' = "endless" /\ exitStatus' = exitStatus /\ stage = "parse",
           exitStatus' # 0 \/ objFileList' = <<>> \/ executable' = Linked
    PROVE  DInv'
  <1>1. StageOK' /\ BuiltOK'  BY DEF DInv, StageOK, BuiltOK, Compiling
  <1>2. TextOK'  BY DEF DInv, TextOK
  <1>3. Prog' = Prog  BY DEF vars, tables, Prog
  <1>4. ZeroMeansBuilt'
    BY <1>3, LinkedWritten DEF ZeroMeansBuilt, DInv, TextOK
  <1>5. QED  BY <1>1, <1>2, <1>4 DEF DInv

\* Every step keeps it.
LEMMA NextDInv ==
    ASSUME IInv, DInv, [DriverNext]_allVars
    PROVE  DInv'
  <1> DEFINE n == Len(fileIndex)
  <1>1. Bounded'
    BY DriverStep, NextBounded DEF DInv
  <1>2. n \in Nat /\ Prog = 1 .. n  BY ProgFacts
  <1>3. ASSUME stage' # "exited", exitStatus' = Running PROVE ZeroMeansBuilt'
    BY <1>3 DEF ZeroMeansBuilt, Running
  <1>4. CASE Analyse
    <2>1. UNCHANGED driverVars /\ stage = "analysis"  BY <1>4 DEF Analyse
    <2>2. StageOK' /\ BuiltOK' /\ TextOK'
      BY <2>1 DEF DInv, driverVars, progress, outcome, StageOK, BuiltOK, TextOK, Compiling
    <2>3. ZeroMeansBuilt'
      BY <2>1 DEF DInv, driverVars, StageOK, ZeroMeansBuilt, Running
    <2>4. QED  BY <1>1, <2>2, <2>3 DEF DInv
  <1>5. CASE AnalysisFails \/ ParseFails \/ ParseHangs \/ ParseMissing \/ StopEarly
             \/ BuilderDies \/ FatalWrite \/ DoNotRun \/ RunOnly \/ FileCheck
    <2>1. /\ UNCHANGED <<vars, backend, next, calls, built, text, unwritten, executable>>
          /\ \/ stage' = "exited"
             \/ stage' = "endless" /\ exitStatus' = exitStatus /\ stage = "parse"
      BY <1>5 DEF AnalysisFails, ParseFails, ParseHangs, ParseMissing, StopEarly, BuilderDies,
                  FatalWrite, AddFile, DoNotRun, RunOnly, FileCheck, Exit, Killed, progress, outcome
    <2>2. CASE FatalWrite
      <3>1. exitStatus' = 1 /\ objFileList' = Append(objFileList, TextFile(next))
            /\ stage = "print" /\ next <= n /\ backend = "llvm"
        BY <2>2 DEF FatalWrite, AddFile, Exit, More
      <3>2. TextFile(next) \in Nat
        BY <1>2, <3>1, ProgFacts DEF TextFile, DInv, StageOK
      <3>3. objFileList' \in Seq(Nat)  BY <3>1, <3>2 DEF DInv, TextOK
      <3>4. QED  BY <1>1, <2>1, <3>1, <3>3, EndingKeeps
    <2>3. CASE BuilderDies
      <3>1. exitStatus' \in {134, 139} /\ objFileList' = objFileList
        BY <2>3 DEF BuilderDies, Killed, SIGABRT, SIGSEGV, progress
      <3>2. objFileList' \in Seq(Nat)  BY <3>1 DEF DInv, TextOK
      <3>3. QED  BY <1>1, <2>1, <3>1, <3>2, EndingKeeps
    <2>4. CASE AnalysisFails \/ ParseFails \/ ParseHangs \/ ParseMissing \/ StopEarly
      <3>1. objFileList' = <<>>
        BY <2>4 DEF AnalysisFails, ParseFails, ParseHangs, ParseMissing, StopEarly, progress,
                    DInv, TextOK
      <3>2. objFileList' \in Seq(Nat)  BY <3>1
      <3>3. QED  BY <1>1, <2>1, <3>1, <3>2, EndingKeeps
    <2>5. CASE DoNotRun \/ RunOnly \/ FileCheck
      <3>1. objFileList' = objFileList /\ executable' = Linked
        BY <2>1, <2>5 DEF DoNotRun, RunOnly, FileCheck, progress, DInv, TextOK
      <3>2. objFileList' \in Seq(Nat)  BY <3>1 DEF DInv, TextOK
      <3>3. QED  BY <1>1, <2>1, <3>1, <3>2, EndingKeeps
    <2>6. QED  BY <1>5, <2>2, <2>3, <2>4, <2>5
  <1>6. CASE AnalysisSucceeds
    <2>1. /\ stage = "analysis" /\ phase = "ok" /\ stage' = "parse"
          /\ UNCHANGED <<vars, next, calls, built, text, unwritten, objFileList, executable,
                         output, exitStatus>>
      BY <1>6 DEF AnalysisSucceeds, outcome
    <2>2. phase' = "ok" /\ Len(fileIndex') = n  BY <2>1 DEF vars, tables
    <2>3. StageOK'  BY <1>2, <2>1, <2>2 DEF DInv, StageOK, Compiling
    <2>4. BuiltOK' /\ TextOK'  BY <2>1 DEF DInv, BuiltOK, TextOK
    <2>5. ZeroMeansBuilt'  BY <1>3, <2>1 DEF DInv, StageOK
    <2>6. QED  BY <1>1, <2>3, <2>4, <2>5 DEF DInv
  <1>7. ASSUME UNCHANGED vars PROVE phase' = phase /\ fileIndex' = fileIndex /\ Prog' = Prog
    BY <1>7 DEF vars, tables, Prog
  <1>8. CASE Parse
    <2>1. PICK callees \in SUBSET Callable(next) :
             calls' = calls \cup ({next} \X callees)
      BY <1>8 DEF Parse
    <2>2. /\ stage = "parse" /\ next <= n /\ next' = next + 1
          /\ UNCHANGED <<vars, stage, backend, built, text, unwritten, objFileList, executable,
                         output, exitStatus>>
      BY <1>8 DEF Parse, More, Advance, outcome
    <2>3. \A c \in {next} \X callees : c[1] = next /\ c[2] \in Prog /\ c[2] < next
      BY <2>1 DEF Callable
    <2>4. StageOK'  BY <1>2, <1>7, <2>2 DEF DInv, StageOK, Compiling
    <2>5. BuiltOK'
      <3>1. next \in Nat  BY DEF DInv, StageOK
      <3>2. \A c \in {next} \X callees : c[2] \in 1 .. c[1] - 1
        BY <1>2, <2>3, <3>1
      <3>3. QED  BY <2>1, <2>2, <3>2 DEF DInv, BuiltOK
    <2>6. TextOK'  BY <2>2 DEF DInv, TextOK
    <2>7. ZeroMeansBuilt'  BY <1>3, <2>2 DEF DInv, StageOK
    <2>8. QED  BY <1>1, <2>4, <2>5, <2>6, <2>7 DEF DInv
  <1>9. CASE Build
    <2>1. /\ stage = "build" /\ next <= n /\ next' = next + 1 /\ built' = built \cup {next}
          /\ UNCHANGED <<vars, stage, backend, calls, text, unwritten, objFileList, executable,
                         output, exitStatus>>
      BY <1>9 DEF Build, More, Advance, outcome
    <2>2. StageOK'  BY <1>2, <1>7, <2>1 DEF DInv, StageOK, Compiling
    <2>3. BuiltOK'
      <3>1. next \in Nat \ {0} /\ built = 1 .. next - 1  BY <2>1 DEF DInv, StageOK, BuiltOK
      <3>2. \A k \in Nat \ {0} : (1 .. k - 1) \cup {k} = 1 .. (k + 1) - 1  OBVIOUS
      <3>3. built' = 1 .. next' - 1  BY <2>1, <3>1, <3>2
      <3>4. QED  BY <2>1, <3>3 DEF DInv, BuiltOK
    <2>4. TextOK'  BY <2>1 DEF DInv, TextOK
    <2>5. ZeroMeansBuilt'  BY <1>3, <2>1 DEF DInv, StageOK
    <2>6. QED  BY <1>1, <2>2, <2>3, <2>4, <2>5 DEF DInv
  <1>10. CASE FinishParse \/ FinishBuild \/ FinishPrint
    <2>1. PICK to \in {"build", "print", "link"} :
             /\ stage \in {"parse", "build", "print"} /\ stage' = to /\ next' = 1
             /\ ~More /\ (to = "link" <=> stage = "print")
             /\ to = "build" => stage = "parse"
             /\ UNCHANGED <<vars, backend, calls, built, text, unwritten, objFileList,
                            executable, output, exitStatus>>
      BY <1>10 DEF FinishParse, FinishBuild, FinishPrint, NextLoop, outcome
    <2>2. StageOK'  BY <1>2, <1>7, <2>1 DEF DInv, StageOK, Compiling
    <2>3. BuiltOK'  BY <2>1 DEF DInv, BuiltOK
    <2>4. TextOK'
      <3>1. CASE to = "build"
        BY <2>1, <3>1 DEF DInv, TextOK
      <3>2. CASE to = "print"
        <4>1. /\ objFileList' = <<>> /\ unwritten' = {} /\ stage' = "print" /\ next' - 1 = 0
              /\ \A i \in DOMAIN text' : text'[i] = Old
          BY <2>1, <3>2 DEF DInv, TextOK
        <4>2. Printed(next - 1)'
          <5>1. Len(<<>>) = 0 /\ 1 .. 0 = {}  OBVIOUS
          <5>2. QED  BY <4>1, <5>1 DEF Printed
        <4>3. QED  BY <2>1, <4>1, <4>2 DEF DInv, TextOK
      <3>3. CASE to = "link"
        <4>1. stage = "print" /\ stage' = "link" /\ Printed(next - 1)
          BY <2>1, <3>3 DEF DInv, TextOK
        <4>2. next - 1 = n
          BY <1>2, <2>1, <4>1 DEF DInv, StageOK, More
        <4>3. Printed(Len(fileIndex))'
          BY <1>7, <2>1, <4>1, <4>2 DEF Printed
        <4>4. QED  BY <2>1, <4>1, <4>3 DEF DInv, TextOK
      <3>4. QED  BY <3>1, <3>2, <3>3
    <2>5. ZeroMeansBuilt'  BY <1>3, <2>1 DEF DInv, StageOK
    <2>6. QED  BY <1>1, <2>2, <2>3, <2>4, <2>5 DEF DInv
  <1>11. CASE PrintText \/ CannotWrite
    <2>1. /\ stage = "print" /\ next <= n /\ next' = next + 1
          /\ UNCHANGED <<vars, stage, calls, built, executable, output, exitStatus>>
      BY <1>11 DEF PrintText, CannotWrite, AddFile, More, Advance, outcome
    <2>2. StageOK'  BY <1>2, <1>7, <2>1 DEF DInv, StageOK, Compiling
    <2>3. BuiltOK'  BY <2>1 DEF DInv, BuiltOK
    <2>4. ZeroMeansBuilt'  BY <1>3, <2>1 DEF DInv, StageOK
    <2>5. QED  BY <1>1, <1>11, <2>2, <2>3, <2>4, PrintKeeps DEF DInv
  <1>12. CASE Link
    <2>1. PICK result \in SystemResult :
             /\ executable' = IF result = 0 THEN {text[i] : i \in Elements(objFileList)}
                              ELSE executable
             /\ IF LinkResult(result) = 0 THEN stage' = "run" /\ UNCHANGED exitStatus
                ELSE Exit(LinkResult(result))
      BY <1>12 DEF Link
    <2>2. /\ stage = "link"
          /\ UNCHANGED <<vars, backend, next, calls, built, text, unwritten, objFileList, output>>
      BY <1>12 DEF Link, progress
    <2>3. {text[i] : i \in Elements(objFileList)} = Linked
      BY <2>2, LinkedAll DEF DInv, TextOK
    <2>4. Prog' = Prog /\ phase' = phase /\ Linked' = Linked
      BY <1>7, <2>2 DEF Linked
    <2>5. CASE result = 0
      <3>1. LinkResult(result) = 0  BY <2>5 DEF LinkResult
      <3>2. stage' = "run" /\ exitStatus' = exitStatus /\ executable' = Linked'
        BY <2>1, <2>3, <2>4, <2>5, <3>1
      <3>3. StageOK'  BY <2>2, <2>4, <3>2 DEF DInv, StageOK, Compiling
      <3>4. BuiltOK' /\ TextOK'  BY <2>2, <2>4, <3>2 DEF DInv, BuiltOK, TextOK
      <3>5. ZeroMeansBuilt'  BY <1>3, <2>2, <3>2 DEF DInv, StageOK
      <3>6. QED  BY <1>1, <3>3, <3>4, <3>5 DEF DInv
    <2>6. CASE result # 0
      <3>1. LinkResult(result) # 0  BY <2>6 DEF LinkResult
      <3>2. stage' = "exited" /\ exitStatus' = LinkResult(result) % 256
        BY <2>1, <3>1 DEF Exit
      <3>3. StageOK' /\ BuiltOK' /\ TextOK'
        BY <2>2, <3>2 DEF DInv, StageOK, BuiltOK, TextOK, Compiling
      <3>4. backend' = "llvm" => exitStatus' = 1
        BY <2>2, <2>6, <3>2 DEF LinkResult
      <3>5. ZeroMeansBuilt'  BY <3>4 DEF ZeroMeansBuilt
      <3>6. QED  BY <1>1, <3>3, <3>5 DEF DInv
    <2>7. QED  BY <2>5, <2>6
  <1>13. CASE RunForCheck
    <2>1. PICK result \in SystemResult :
             IF result = 0 THEN output' = executable /\ stage' = "filecheck" /\ UNCHANGED exitStatus
             ELSE Exit(result)
      BY <1>13 DEF RunForCheck
    <2>2. /\ stage = "run" /\ backend = "llvm" /\ executable = Linked /\ Linked = Prog
          /\ UNCHANGED <<vars, backend, next, calls, built, text, unwritten, objFileList,
                         executable>>
      BY <1>13, LinkedWritten DEF RunForCheck, DInv, TextOK, progress
    <2>3. Prog' = Prog /\ phase' = phase /\ Linked' = Linked  BY <1>7, <2>2 DEF Linked
    <2>4. CASE result = 0
      <3>1. stage' = "filecheck" /\ exitStatus' = exitStatus /\ output' = Prog
        BY <2>1, <2>2, <2>4
      <3>2. StageOK'  BY <2>2, <2>3, <3>1 DEF DInv, StageOK, Compiling
      <3>3. BuiltOK' /\ TextOK'  BY <2>2, <2>3, <3>1 DEF DInv, BuiltOK, TextOK
      <3>4. ZeroMeansBuilt'  BY <1>3, <2>2, <3>1 DEF DInv, StageOK
      <3>5. QED  BY <1>1, <3>2, <3>3, <3>4 DEF DInv
    <2>5. CASE result # 0
      <3>1. stage' = "exited" /\ objFileList' \in Seq(Nat) /\ executable' = Linked
        BY <2>1, <2>2, <2>5 DEF Exit, DInv, TextOK
      <3>2. QED  BY <1>1, <2>2, <3>1, EndingKeeps
    <2>6. QED  BY <2>4, <2>5
  <1>14. CASE UNCHANGED allVars
    <2>1. UNCHANGED <<vars, driverVars, progress, outcome>>  BY <1>14 DEF allVars, driverVars
    <2>2. StageOK' /\ BuiltOK'
      BY <1>7, <2>1 DEF DInv, driverVars, progress, StageOK, BuiltOK
    <2>3. TextOK'
      BY <1>7, <2>1 DEF DInv, driverVars, progress, outcome, TextOK, Printed, Linked
    <2>4. ZeroMeansBuilt'
      BY <1>7, <2>1 DEF DInv, driverVars, progress, outcome, ZeroMeansBuilt
    <2>5. QED  BY <1>1, <2>2, <2>3, <2>4 DEF DInv
  <1>15. QED
    BY <1>4, <1>5, <1>6, <1>8, <1>9, <1>10, <1>11, <1>12, <1>13, <1>14 DEF DriverNext

\* The two invariants hold in every behaviour of the driver.
LEMMA DriverInvariant == DriverSpec => [](IInv /\ DInv)
  <1>1. DriverInit => DInv  BY InitDInv
  <1>2. IInv /\ DInv /\ [DriverNext]_allVars => DInv'  BY NextDInv
  <1>3. QED  BY <1>1, <1>2, AnalysisInvariant, PTL DEF DriverSpec

-----------------------------------------------------------------------------
(* The theorems.                                                           *)

\* For every set of files that import each other in whatever way, the functions that a
\* program calls belong to programs that are built before it.
THEOREM CalleesFirst == DriverSpec => []CalleesAreBuilt
  <1>1. IInv /\ DInv => CalleesAreBuilt
    BY DEF DInv, StageOK, BuiltOK, CalleesAreBuilt
  <1>2. QED  BY <1>1, DriverInvariant, PTL

\* Whatever the files import and whatever lay on the disk, what is linked and run is one
\* text per program: the one printed now, or, for a program whose text the build with the
\* C translation could not write, what lies in its file.  FileCheck sees the output of
\* all programs of this compilation.
THEOREM RunsTheResult == DriverSpec => []RunsWhatItBuilt
  <1>1. IInv /\ DInv => RunsWhatItBuilt
    BY LinkedWritten DEF DInv, TextOK, Printed, Linked, RunsWhatItBuilt
  <1>2. QED  BY <1>1, DriverInvariant, PTL

\* Whatever the commands return, an exit status of zero behind the printing of texts
\* means, in the build with LLVM, that all programs are in the executable.
THEOREM ZeroIsHonest == DriverSpec => []ZeroMeansBuilt
  <1>1. IInv /\ DInv => ZeroMeansBuilt  BY DEF DInv
  <1>2. QED  BY <1>1, DriverInvariant, PTL
===============================================================================
