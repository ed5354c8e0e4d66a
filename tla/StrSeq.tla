------------------------------- MODULE StrSeq -------------------------------
(* What a str_t promises: a sequence of characters, with the operations of   *)
(* framework/include/common/str.h on it.                                     *)
EXTENDS Naturals, Sequences

CONSTANTS Char, Blank, MaxLen, MaxArg

VARIABLE val

Text == UNION {[1 .. n -> Char] : n \in 0 .. MaxArg}

\* The first run of characters that are not blank.
FirstWord(s) ==
    LET word == {w \in (1 .. Len(s)) \X (1 .. Len(s)) :
                   /\ w[1] <= w[2] /\ \A k \in w[1] .. w[2] : s[k] \notin Blank
                   /\ \A k \in 1 .. w[1] - 1 : s[k] \in Blank
                   /\ w[2] = Len(s) \/ s[w[2] + 1] \in Blank}
    IN  CHOOSE t \in {SubSeq(s, w[1], w[2]) : w \in word} : TRUE

\* The places where sub is found, from the left, none overlapping another.
Places(s, sub) ==
    LET all == {p \in 1 .. Len(s) : p + Len(sub) - 1 <= Len(s) /\ SubSeq(s, p, p + Len(sub) - 1) = sub}
    IN  CHOOSE P \in SUBSET all : \A p \in all : p \in P <=> \A r \in P : r < p => r + Len(sub) <= p

\* Every sub replaced by rep.
Replaced(s, sub, rep) ==
    LET here == Places(s, sub)
        gone == UNION {p .. p + Len(sub) - 1 : p \in here}
        text[p \in 0 .. Len(s)] ==
            IF p = 0 THEN <<>>
            ELSE text[p - 1] \o
                 (IF p \in here THEN rep ELSE IF p \in gone THEN <<>> ELSE <<s[p]>>)
    IN  text[Len(s)]

Init == val = <<>>

Copy(t) == val' = t
Insert(i, t) == i <= Len(val) /\ val' = SubSeq(val, 1, i) \o t \o SubSeq(val, i + 1, Len(val))
Shrink(n) == n <= Len(val) /\ val' = SubSeq(val, 1, n)
Trim == (\E k \in DOMAIN val : val[k] \notin Blank) /\ val' = FirstWord(val)
Replace(sub, rep) == sub # <<>> /\ val' = Replaced(val, sub, rep)

Next ==
    \/ \E t \in Text : Copy(t)
    \/ \E i \in 0 .. MaxLen, t \in Text : Insert(i, t)
    \/ \E n \in 0 .. MaxLen : Shrink(n)
    \/ Trim
    \/ \E sub, rep \in Text : Replace(sub, rep)

Spec == Init /\ [][Next]_val
=============================================================================
