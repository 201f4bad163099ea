----------------------------- MODULE MCSpanMap -----------------------------
(***************************************************************************)
(* Files of at most three lines, of two contents with a terminator and of  *)
(* different widths, and one without.                                      *)
(***************************************************************************)
EXTENDS SpanMap, TLC

CONSTANTS a, b, c

MCLine == {a, b, c}
MCUnterminated == {c}
MCWidth == (a :> 1) @@ (b :> 2) @@ (c :> 1)
=============================================================================
