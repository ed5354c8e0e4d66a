------------------------------ MODULE MCMarshal ------------------------------
(* An instance of Marshal: every signature of up to three arguments of up to *)
(* two words, and five arguments with at most the last one out.              *)
EXTENDS Marshal

SomeSigs == UNION {[1 .. n -> 0 .. 2] : n \in 0 .. 3}
            \cup {s \in [1 .. 5 -> 0 .. 1] : \A i \in 1 .. 4 : s[i] = 1}
=============================================================================
