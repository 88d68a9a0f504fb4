------------------------------- MODULE Option -------------------------------
(***************************************************************************)
(* Rust's Option: a value, or None.                                        *)
(***************************************************************************)
CONSTANT None

OrNone(S) == S \cup {None}

\* Option::or.
Some(a, b) == IF a # None THEN a ELSE b
=============================================================================
