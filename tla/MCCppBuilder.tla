---------------------------- MODULE MCCppBuilder ----------------------------
(* CppBuilder for TLC: a buffer of a few characters, so that it fills up in the *)
(* middle of names, brackets and lists.                                        *)
EXTENDS CppBuilder
=============================================================================
