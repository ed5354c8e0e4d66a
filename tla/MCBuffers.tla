------------------------------ MODULE MCBuffers ------------------------------
(* The code that computes places in blocks of its own: the stubs, on the    *)
(* signatures of MCMarshal, and the strings of MCStr.  Neither reads the      *)
(* other's variables, so their steps need not be interleaved: a behaviour is  *)
(* one of the stubs or one of the strings, while the others are as they began. *)
EXTENDS MCMarshal, MCStr

VARIABLE on      \* what the behaviour is one of

BuffersInit == Init /\ StrInit /\ on \in {"stubs", "strings"}
BuffersNext ==
    \/ on = "stubs" /\ Next /\ UNCHANGED <<str, on>>
    \/ on = "strings" /\ StrNext /\ UNCHANGED <<vars, on>>
BuffersSpec == BuffersInit /\ [][BuffersNext]_<<vars, str, on>>
==============================================================================
