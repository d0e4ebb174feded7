--------------------------- MODULE MCGrammarParser ---------------------------
(* GrammarParser for TLC: see the cfg files for the bounds.  No action tells  *)
(* one variable name, or one file, from another.                             *)
EXTENDS GrammarParser
LOCAL INSTANCE TLC
Names == Permutations(VarName) \cup Permutations(File)
=============================================================================
