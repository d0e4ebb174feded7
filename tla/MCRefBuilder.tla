----------------------------- MODULE MCRefBuilder -----------------------------
(* RefBuilder for TLC: a scalar, an array of one dimension and one of three of   *)
(* different lengths.                                                           *)
EXTENDS RefBuilder
MCDims == [x |-> <<>>, a |-> <<2>>, m |-> <<2, 3, 2>>]
=============================================================================
