--------------------------- MODULE MCIRControlFlow ---------------------------
(* IRControlFlow for TLC: see the cfg files for the bounds.                  *)
EXTENDS IRControlFlow
=============================================================================
