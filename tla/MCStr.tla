------------------------------- MODULE MCStr --------------------------------
(* Instances of Str: two letters, one blank.                                 *)
EXTENDS Str

CONSTANTS a, b, sp

Letters == {a, b, sp}
Blanks == {sp}
=============================================================================
