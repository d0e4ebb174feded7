---------------------------- MODULE MCTokenParser ----------------------------
(* TokenParser for TLC: all sources of a few characters, with one keyword.    *)
EXTENDS TokenParser
MCChar == {"i", "f", "U", "1", "'", ".", "#", "\"", ">", "\n"}
MCKeyword == {<<"i", "f">>}
=============================================================================
