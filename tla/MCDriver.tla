------------------------------- MODULE MCDriver -------------------------------
(* Driver for TLC: every disk of a few files, one of which may be missing.  File  *)
(* names are interchangeable, so the i-th file of the command line may be taken   *)
(* from the first i of them.                                                   *)
EXTENDS Driver, FiniteSets

MCOrder == CHOOSE s \in [1 .. Cardinality(File) -> File] : Elements(s) = File
MCInit ==
    /\ DriverInit
    /\ Cardinality(File \ present) <= 1
    /\ \A i \in DOMAIN args : \E k \in 1 .. i : args[i] = MCOrder[k]
MCSpec == MCInit /\ [][DriverNext]_allVars /\ WF_allVars(DriverNext)
=============================================================================
