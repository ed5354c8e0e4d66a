--------------------------- MODULE Marshal_proofs ---------------------------
(***************************************************************************)
(* Proofs about Marshal, for every set of signatures and of lengths.       *)
(***************************************************************************)
EXTENDS Marshal, TLAPS, SequenceTheorems

-----------------------------------------------------------------------------
(* The layout of an array: where an argument starts, from the lengths of   *)
(* those before it.  A method has at most five arguments.                  *)

Size(L, i) == Header + L[i]

Off(L, i) ==
    (IF i > 1 THEN Size(L, 1) ELSE 0) + (IF i > 2 THEN Size(L, 2) ELSE 0)
    + (IF i > 3 THEN Size(L, 3) ELSE 0) + (IF i > 4 THEN Size(L, 4) ELSE 0)
    + (IF i > 5 THEN Size(L, 5) ELSE 0)

Lengths(n) == [1 .. n -> Nat]

LEMMA SizeType == ASSUME NEW n \in 0 .. 5, NEW L \in Lengths(n), NEW i \in 1 .. n
                  PROVE  Size(L, i) \in Nat /\ Size(L, i) = 2 + L[i] /\ L[i] \in Nat
BY DEF Size, Lengths, Header

\* The next argument starts behind this one.
LEMMA OffStep ==
    ASSUME NEW n \in 0 .. 5, NEW L \in Lengths(n)
    PROVE  /\ Off(L, 1) = 0
           /\ \A i \in 1 .. n : Off(L, i + 1) = Off(L, i) + Size(L, i)
           /\ \A i \in 1 .. n + 1 : Off(L, i) \in Nat
<1>1. \A i \in 1 .. n : Size(L, i) \in Nat
    BY SizeType
<1>2. Off(L, 1) = 0
    BY DEF Off
<1>3. \A i \in 1 .. n + 1 : Off(L, i) \in Nat
    BY <1>1 DEF Off
<1>4. ASSUME NEW i \in 1 .. n PROVE Off(L, i + 1) = Off(L, i) + Size(L, i)
    <2>1. i = 1 \/ i = 2 \/ i = 3 \/ i = 4 \/ i = 5
        OBVIOUS
    <2>2. \A j \in 1 .. i : Size(L, j) \in Nat
        BY <1>1
    <2>3. CASE i = 1
        BY <2>2, <2>3 DEF Off
    <2>4. CASE i = 2
        BY <2>2, <2>4 DEF Off
    <2>5. CASE i = 3
        BY <2>2, <2>5 DEF Off
    <2>6. CASE i = 4
        BY <2>2, <2>6 DEF Off
    <2>7. CASE i = 5
        BY <2>2, <2>7 DEF Off
    <2> QED
        BY <2>1, <2>3, <2>4, <2>5, <2>6, <2>7
<1> QED
    BY <1>2, <1>3, <1>4

\* An argument ends before any later one starts.
LEMMA OffOrder ==
    ASSUME NEW n \in 0 .. 5, NEW L \in Lengths(n),
           NEW i \in 1 .. n, NEW j \in 1 .. n + 1, i < j
    PROVE  Off(L, i) + 2 + L[i] <= Off(L, j)
<1>1. \A k \in 1 .. n : Size(L, k) \in Nat
    BY SizeType
<1>2. Off(L, i + 1) = Off(L, i) + 2 + L[i] /\ Off(L, i) \in Nat /\ L[i] \in Nat
    BY OffStep, SizeType
<1>3. Off(L, i + 1) <= Off(L, j)
    BY <1>1 DEF Off
<1> QED
    BY <1>2, <1>3

\* Five steps at most: what holds of the first and passes on to the next holds of all.
LEMMA AllOf ==
    ASSUME NEW n \in 0 .. 5, NEW T,
           n >= 1 => 1 \in T,
           \A k \in 1 .. n - 1 : k \in T => k + 1 \in T
    PROVE  \A k \in 1 .. n : k \in T
<1>1. n >= 2 => 2 \in T
    <2>1. n >= 2 => 1 \in 1 .. n - 1 /\ 1 \in T /\ 1 + 1 = 2
        OBVIOUS
    <2> QED
        BY <2>1
<1>2. n >= 3 => 3 \in T
    <2>1. n >= 3 => 2 \in 1 .. n - 1 /\ 2 \in T /\ 2 + 1 = 3
        BY <1>1
    <2> QED
        BY <2>1
<1>3. n >= 4 => 4 \in T
    <2>1. n >= 4 => 3 \in 1 .. n - 1 /\ 3 \in T /\ 3 + 1 = 4
        BY <1>2
    <2> QED
        BY <2>1
<1>4. n >= 5 => 5 \in T
    <2>1. n >= 5 => 4 \in 1 .. n - 1 /\ 4 \in T /\ 4 + 1 = 5
        BY <1>3
    <2> QED
        BY <2>1
<1> QED
    BY <1>1, <1>2, <1>3, <1>4

-----------------------------------------------------------------------------
(* The recursive functions behind Array and Offsets. *)

\* Both exist: they are chosen, and these are what the choice falls on.
LEMMA FlattenSteps ==
    ASSUME NEW V, NEW n \in 1 .. 5, NEW S \in [1 .. n -> Seq(V)]
    PROVE  \E f : /\ f = [i \in 1 .. n |-> IF i = 1 THEN S[i] ELSE f[i - 1] \o S[i]]
                  /\ FlattenSeq(S) = f[n]
<1> DEFINE e2 == S[1] \o S[2]
           e3 == e2 \o S[3]
           e4 == e3 \o S[4]
           e5 == e4 \o S[5]
           e == [i \in 1 .. n |-> IF i = 1 THEN S[1] ELSE IF i = 2 THEN e2 ELSE IF i = 3 THEN e3
                                  ELSE IF i = 4 THEN e4 ELSE e5]
           Rec(f) == f = [i \in 1 .. n |-> IF i = 1 THEN S[i] ELSE f[i - 1] \o S[i]]
           g == CHOOSE f : Rec(f)
<1>1. Rec(e)
    <2>1. e2 = S[1] \o S[2] /\ e3 = e2 \o S[3] /\ e4 = e3 \o S[4] /\ e5 = e4 \o S[5]
        OBVIOUS
    <2> HIDE DEF e2, e3, e4, e5
    <2>2. ASSUME NEW i \in 1 .. n
          PROVE  e[i] = IF i = 1 THEN S[i] ELSE e[i - 1] \o S[i]
        <3>1. i = 1 \/ i = 2 \/ i = 3 \/ i = 4 \/ i = 5
            OBVIOUS
        <3>2. i # 1 => i - 1 \in 1 .. n
            OBVIOUS
        <3>3. CASE i = 1
            BY <3>3
        <3>4. CASE i = 2
            BY <3>2, <3>4, <2>1
        <3>5. CASE i = 3
            BY <3>2, <3>5, <2>1
        <3>6. CASE i = 4
            <4>1. e[i] = e4 /\ e[i - 1] = e3 /\ e4 = e3 \o S[i]
                <5>1. e[i] = e4
                    BY <3>6
                <5>2. i - 1 = 3 /\ i - 1 \in 1 .. n
                    BY <3>2, <3>6
                <5>3. e[i - 1] = e3
                    BY <5>2
                <5>4. e4 = e3 \o S[i]
                    BY <2>1, <3>6, Zenon
                <5> QED
                    BY <5>1, <5>3, <5>4, Zenon
            <4>2. i # 1
                BY <3>6
            <4> HIDE DEF e
            <4> QED
                BY <4>1, <4>2, Zenon
        <3>7. CASE i = 5
            <4>1. e[i] = e5 /\ e[i - 1] = e4 /\ e5 = e4 \o S[i]
                <5>1. e[i] = e5
                    BY <3>7
                <5>2. i - 1 = 4 /\ i - 1 \in 1 .. n
                    BY <3>2, <3>7
                <5>3. e[i - 1] = e4
                    BY <5>2
                <5>4. e5 = e4 \o S[i]
                    BY <2>1, <3>7, Zenon
                <5> QED
                    BY <5>1, <5>3, <5>4, Zenon
            <4>2. i # 1
                BY <3>7
            <4> HIDE DEF e
            <4> QED
                BY <4>1, <4>2, Zenon
        <3> QED
            BY <3>1, <3>3, <3>4, <3>5, <3>6, <3>7
    <2>3. e = [i \in 1 .. n |-> e[i]]
        OBVIOUS
    <2> HIDE DEF e
    <2> QED
        BY <2>2, <2>3
<1>2. Rec(g)
    <2> HIDE DEF Rec
    <2> QED
        BY <1>1
<1>3. S \in Seq(Seq(V)) /\ Len(S) = n
    OBVIOUS
<1>4. FlattenSeq(S) = g[n]
    BY <1>3 DEF FlattenSeq
<1> QED
    BY <1>2, <1>4

LEMMA OffsetSteps ==
    ASSUME NEW b, NEW n \in 0 .. 5
    PROVE  Offsets(b, n) = [i \in 1 .. n |-> IF i = 1 THEN 0 ELSE Step(b, Offsets(b, n)[i - 1])]
<1> DEFINE e == [i \in 1 .. n |->
        IF i = 1 THEN 0
        ELSE IF i = 2 THEN Step(b, 0)
        ELSE IF i = 3 THEN Step(b, Step(b, 0))
        ELSE IF i = 4 THEN Step(b, Step(b, Step(b, 0)))
        ELSE Step(b, Step(b, Step(b, Step(b, 0))))]
       Rec(f) == f = [i \in 1 .. n |-> IF i = 1 THEN 0 ELSE Step(b, f[i - 1])]
       g == CHOOSE f : Rec(f)
<1>1. Rec(e)
    <2>1. ASSUME NEW i \in 1 .. n
          PROVE  e[i] = IF i = 1 THEN 0 ELSE Step(b, e[i - 1])
        <3>1. i = 1 \/ i = 2 \/ i = 3 \/ i = 4 \/ i = 5
            OBVIOUS
        <3>2. CASE i = 1
            BY <3>2
        <3>3. CASE i = 2
            BY <3>3
        <3>4. CASE i = 3
            BY <3>4
        <3>5. CASE i = 4
            BY <3>5
        <3>6. CASE i = 5
            BY <3>6
        <3> QED
            BY <3>1, <3>2, <3>3, <3>4, <3>5, <3>6
    <2>2. e = [i \in 1 .. n |-> e[i]]
        OBVIOUS
    <2> HIDE DEF e
    <2> QED
        BY <2>1, <2>2
<1>2. Rec(g)
    <2> HIDE DEF Rec
    <2> QED
        BY <1>1
<1>3. Offsets(b, n) = g
    BY DEF Offsets
<1> QED
    BY <1>2, <1>3

-----------------------------------------------------------------------------
(* What Array puts where, and that Offsets finds it. *)

Cell == ({"len", "ref", "ptr"} \X Nat) \cup ({"old", "new"} \X Nat \X Nat)

\* Where the words of two arguments coincide they are the same word.
LEMMA Apart ==
    ASSUME NEW n \in 0 .. 5, NEW L \in Lengths(n), NEW i \in 1 .. n, NEW j \in 1 .. n,
           NEW p \in 1 .. 2 + L[i], NEW q \in 1 .. 2 + L[j], Off(L, i) + p = Off(L, j) + q
    PROVE  i = j /\ p = q
<1>1. /\ Off(L, i) \in Nat /\ Off(L, j) \in Nat /\ L[i] \in Nat /\ L[j] \in Nat
    <2>1. i \in 1 .. n + 1 /\ j \in 1 .. n + 1
        OBVIOUS
    <2> QED
        BY <2>1, OffStep, SizeType
<1>2. CASE i < j
    <2>1. Off(L, i) + 2 + L[i] <= Off(L, j)
        BY <1>2, OffOrder
    <2> QED
        BY <1>1, <2>1
<1>3. CASE j < i
    <2>1. Off(L, j) + 2 + L[j] <= Off(L, i)
        BY <1>3, OffOrder
    <2> QED
        BY <1>1, <2>1
<1>4. CASE i = j
    BY <1>1, <1>4
<1> QED
    BY <1>2, <1>3, <1>4

LEMMA Joined ==
    ASSUME NEW V, NEW A \in Seq(V), NEW P \in Seq(V)
    PROVE  /\ A \o P \in Seq(V) /\ Len(A \o P) = Len(A) + Len(P)
           /\ \A k \in 1 .. Len(A) : (A \o P)[k] = A[k]
           /\ \A k \in 1 .. Len(P) : (A \o P)[Len(A) + k] = P[k]
<1>1. A \o P \in Seq(V) /\ Len(A \o P) = Len(A) + Len(P)
    OBVIOUS
<1>2. ASSUME NEW k \in 1 .. Len(A) PROVE (A \o P)[k] = A[k]
    OBVIOUS
<1>3. ASSUME NEW k \in 1 .. Len(P) PROVE (A \o P)[Len(A) + k] = P[k]
    <2>1. Len(A) \in Nat /\ Len(P) \in Nat
        OBVIOUS
    <2> QED
        BY <2>1
<1> QED
    BY <1>1, <1>2, <1>3

LEMMA JoinedBack ==
    ASSUME NEW V, NEW A \in Seq(V), NEW P \in Seq(V), NEW k \in 1 .. Len(P)
    PROVE  (A \o P)[Len(A) + k] = P[k]
BY Joined

LEMMA Sum3 == ASSUME NEW a \in Nat, NEW c \in Nat PROVE a + (2 + c) = a + 2 + c
OBVIOUS

LEMMA Within ==
    ASSUME NEW a \in Nat, NEW l \in Nat, NEW m \in Nat, a + 2 + l <= m, NEW w \in 1 .. 2 + l
    PROVE  a + w \in 1 .. m
OBVIOUS

LEMMA PackedIs ==
    ASSUME NEW i \in Nat, NEW d \in Seq(Cell)
    PROVE  /\ Packed(i, d) \in Seq(Cell) /\ Len(Packed(i, d)) = 2 + Len(d)
           /\ Packed(i, d)[1] = <<"len", Len(d)>> /\ Packed(i, d)[2] = <<"ref", i>>
           /\ \A k \in 1 .. Len(d) : Packed(i, d)[2 + k] = d[k]
<1> DEFINE head == <<<<"len", Len(d)>>, <<"ref", i>>>>
<1>1. <<"len", Len(d)>> \in Cell /\ <<"ref", i>> \in Cell
    BY DEF Cell
<1>2. head \in Seq(Cell) /\ Len(head) = 2 /\ head[1] = <<"len", Len(d)>> /\ head[2] = <<"ref", i>>
    BY <1>1
<1>3. Packed(i, d) = head \o d
    BY DEF Packed
<1> HIDE DEF head
<1>4. head \o d \in Seq(Cell) /\ Len(head \o d) = Len(head) + Len(d)
    BY <1>2, Joined
<1>5. \A k \in 1 .. Len(head) : (head \o d)[k] = head[k]
    BY <1>2, Joined
<1>6. \A k \in 1 .. Len(d) : (head \o d)[Len(head) + k] = d[k]
    <2>1. ASSUME NEW k \in 1 .. Len(d) PROVE (head \o d)[Len(head) + k] = d[k]
        <3>1. head \in Seq(Cell)
            BY <1>2
        <3> QED
            BY <3>1, JoinedBack, Zenon
    <2> QED
        BY <2>1, Zenon
<1>7. (head \o d)[1] = head[1] /\ (head \o d)[2] = head[2]
    <2>1. 1 \in 1 .. Len(head) /\ 2 \in 1 .. Len(head)
        BY <1>2
    <2> QED
        BY <1>5, <2>1, Zenon
<1> QED
    BY <1>2, <1>3, <1>4, <1>6, <1>7

Of(B, n) == [i \in 1 .. n |-> Len(B[i])]

\* Argument i of the arguments B lies in the array b.
Laid(b, B, n, i) ==
    /\ b[Off(Of(B, n), i) + 1] = <<"len", Len(B[i])>>
    /\ b[Off(Of(B, n), i) + 2] = <<"ref", i>>
    /\ \A k \in 1 .. Len(B[i]) : b[Off(Of(B, n), i) + 2 + k] = B[i][k]

LEMMA OfType ==
    ASSUME NEW n \in 0 .. 5, NEW B \in [1 .. n -> Seq(Cell)]
    PROVE  Of(B, n) \in Lengths(n) /\ \A i \in 1 .. n : Of(B, n)[i] = Len(B[i])
<1>1. \A i \in 1 .. n : Len(B[i]) \in Nat
    OBVIOUS
<1> QED
    BY <1>1 DEF Of, Lengths

\* RPC_CLI_CALL and RPC_SRV_END: every argument is laid, and nothing behind the last.
LEMMA Layout ==
    ASSUME NEW n \in 0 .. 5, NEW B \in [1 .. n -> Seq(Cell)]
    PROVE  /\ Array(B) \in Seq(Cell) /\ Len(Array(B)) = Off(Of(B, n), n + 1)
           /\ \A i \in 1 .. n : Laid(Array(B), B, n, i)
<1> DEFINE L == Of(B, n)
           S == [i \in 1 .. n |-> Packed(i, B[i])]
<1>1. L \in Lengths(n) /\ \A i \in 1 .. n : L[i] = Len(B[i])
    BY OfType
<1>2. Array(B) = FlattenSeq(S)
    BY DEF Array
<1>3. ASSUME NEW i \in 1 .. n
      PROVE  /\ S[i] \in Seq(Cell) /\ Len(S[i]) = 2 + L[i]
             /\ S[i][1] = <<"len", L[i]>> /\ S[i][2] = <<"ref", i>>
             /\ \A k \in 1 .. L[i] : S[i][2 + k] = B[i][k]
    <2>1. i \in Nat /\ B[i] \in Seq(Cell) /\ S[i] = Packed(i, B[i]) /\ L[i] = Len(B[i])
        BY <1>1
    <2> HIDE DEF L, S
    <2> QED
        <3>1. Packed(i, B[i]) \in Seq(Cell) /\ Len(Packed(i, B[i])) = 2 + Len(B[i])
            BY <2>1, PackedIs
        <3>2. Packed(i, B[i])[1] = <<"len", Len(B[i])>> /\ Packed(i, B[i])[2] = <<"ref", i>>
            BY <2>1, PackedIs
        <3>3. \A k \in 1 .. Len(B[i]) : Packed(i, B[i])[2 + k] = B[i][k]
            BY <2>1, PackedIs
        <3> QED
            BY <2>1, <3>1, <3>2, <3>3
<1>4. /\ Off(L, 1) = 0
      /\ \A i \in 1 .. n : Off(L, i + 1) = Off(L, i) + 2 + L[i] /\ L[i] \in Nat
      /\ \A i \in 1 .. n + 1 : Off(L, i) \in Nat
    <2> HIDE DEF L
    <2>1. \A i \in 1 .. n : Size(L, i) = 2 + L[i] /\ L[i] \in Nat
        BY <1>1, SizeType
    <2>2. Off(L, 1) = 0 /\ \A i \in 1 .. n + 1 : Off(L, i) \in Nat
        BY <1>1, OffStep
    <2>3. ASSUME NEW i \in 1 .. n PROVE Off(L, i + 1) = Off(L, i) + 2 + L[i]
        <3>1. Off(L, i + 1) = Off(L, i) + Size(L, i)
            BY <1>1, OffStep
        <3>2. i \in 1 .. n + 1
            OBVIOUS
        <3>3. Off(L, i) \in Nat /\ Size(L, i) = 2 + L[i] /\ L[i] \in Nat
            BY <2>1, <2>2, <3>2
        <3> QED
            BY <3>1, <3>3
    <2> QED
        BY <2>1, <2>2, <2>3
<1>5. CASE n = 0
    <2>1. S = <<>> /\ Len(S) = 0
        BY <1>5
    <2>2. FlattenSeq(S) = <<>>
        BY <2>1 DEF FlattenSeq
    <2> HIDE DEF L, S
    <2> QED
        BY <1>2, <1>4, <1>5, <2>2 DEF L
<1>6. CASE n # 0
    <2>1. n \in 1 .. 5 /\ S \in [1 .. n -> Seq(Cell)]
        BY <1>3, <1>6
    <2> HIDE DEF S
    <2>2. PICK f : /\ f = [i \in 1 .. n |-> IF i = 1 THEN S[i] ELSE f[i - 1] \o S[i]]
                   /\ FlattenSeq(S) = f[n]
        BY <2>1, FlattenSteps
    <2> DEFINE Good(k) == /\ f[k] \in Seq(Cell) /\ Len(f[k]) = Off(L, k + 1)
                          /\ \A i \in 1 .. k : Laid(f[k], B, n, i)
               T == {k \in 1 .. n : Good(k)}
    <2>3. 1 \in T
        <3>1. 1 \in 1 .. n /\ f[1] = S[1]
            BY <2>1, <2>2
        <3>2. Off(L, 2) = 2 + L[1] /\ Off(L, 1) = 0 /\ L[1] \in Nat
            BY <1>4, <3>1
        <3>3. Laid(f[1], B, n, 1)
            <4> HIDE DEF L
            <4>1. L[1] = Len(B[1])
                BY <1>1, <3>1
            <4>2. f[1][1] = <<"len", L[1]>> /\ f[1][2] = <<"ref", 1>>
                  /\ \A k \in 1 .. L[1] : f[1][2 + k] = B[1][k]
                BY <1>3, <3>1
            <4>3. \A k \in 1 .. L[1] : Off(L, 1) + 2 + k = 2 + k
                BY <3>2
            <4> QED
                BY <3>2, <4>1, <4>2, <4>3 DEF Laid, L
        <3>4. f[1] \in Seq(Cell) /\ Len(f[1]) = Off(L, 1 + 1)
            BY <1>3, <3>1, <3>2
        <3> HIDE DEF L
        <3> QED
            BY <3>1, <3>3, <3>4
    <2>4. ASSUME NEW k \in 1 .. n - 1, k \in T PROVE k + 1 \in T
        <3>1. k + 1 \in 1 .. n /\ k \in 1 .. n /\ (k + 1) - 1 = k /\ k + 1 # 1
            OBVIOUS
        <3>2. f[k] \in Seq(Cell) /\ Len(f[k]) = Off(L, k + 1) /\ \A i \in 1 .. k : Laid(f[k], B, n, i)
            BY <2>4
        <3>3. f[k + 1] = f[k] \o S[k + 1]
            BY <2>2, <3>1
        <3> HIDE DEF L
        <3>4. S[k + 1] \in Seq(Cell) /\ Len(S[k + 1]) = 2 + L[k + 1]
            BY <1>3, <3>1
        <3>5. /\ f[k + 1] \in Seq(Cell) /\ Len(f[k + 1]) = Len(f[k]) + Len(S[k + 1])
              /\ \A w \in 1 .. Len(f[k]) : f[k + 1][w] = f[k][w]
              /\ \A w \in 1 .. Len(S[k + 1]) : f[k + 1][Len(f[k]) + w] = S[k + 1][w]
            <4>1. f[k] \o S[k + 1] \in Seq(Cell) /\ Len(f[k] \o S[k + 1]) = Len(f[k]) + Len(S[k + 1])
                BY <3>2, <3>4, Joined
            <4>2. \A w \in 1 .. Len(f[k]) : (f[k] \o S[k + 1])[w] = f[k][w]
                BY <3>2, <3>4, Joined
            <4>3. \A w \in 1 .. Len(S[k + 1]) : (f[k] \o S[k + 1])[Len(f[k]) + w] = S[k + 1][w]
                <5>1. ASSUME NEW w \in 1 .. Len(S[k + 1])
                      PROVE  (f[k] \o S[k + 1])[Len(f[k]) + w] = S[k + 1][w]
                    <6>1. f[k] \in Seq(Cell) /\ S[k + 1] \in Seq(Cell)
                        BY <3>2, <3>4
                    <6> QED
                        BY <6>1, JoinedBack, Zenon
                <5> QED
                    BY <5>1, Zenon
            <4> HIDE DEF T
            <4> QED
                BY <3>3, <4>1, <4>2, <4>3, Zenon
        <3>6. Len(f[k + 1]) = Off(L, (k + 1) + 1)
            <4>1. Off(L, (k + 1) + 1) = Off(L, k + 1) + 2 + L[k + 1] /\ L[k + 1] \in Nat
                BY <1>4, <3>1
            <4>2. k + 1 \in 1 .. n + 1
                OBVIOUS
            <4>3. Off(L, k + 1) \in Nat
                BY <1>4, <4>2
            <4>4. Len(f[k + 1]) = Off(L, k + 1) + (2 + L[k + 1])
                BY <3>2, <3>4, <3>5
            <4> HIDE DEF T
            <4>5. Off(L, k + 1) + (2 + L[k + 1]) = Off(L, k + 1) + 2 + L[k + 1]
                BY <4>1, <4>3, Sum3
            <4> QED
                BY <4>1, <4>4, <4>5, Zenon
        <3>7. ASSUME NEW i \in 1 .. k PROVE Laid(f[k + 1], B, n, i)
            <4>1. i \in 1 .. n /\ k + 1 \in 1 .. n + 1 /\ i < k + 1
                BY <3>1
            <4>2. Off(L, i) + 2 + L[i] <= Off(L, k + 1) /\ Off(L, i) \in Nat /\ L[i] \in Nat
                  /\ L[i] = Len(B[i])
                <5>1. Off(L, i) + 2 + L[i] <= Off(L, k + 1)
                    BY <1>1, <4>1, OffOrder
                <5>2. i \in 1 .. n + 1
                    BY <4>1
                <5>3. Off(L, i) \in Nat
                    BY <1>4, <5>2
                <5>4. L[i] \in Nat /\ L[i] = Len(B[i])
                    BY <1>1, <1>4, <4>1
                <5> QED
                    BY <5>1, <5>3, <5>4
            <4>3. ASSUME NEW w \in 1 .. 2 + L[i]
                  PROVE  f[k + 1][Off(L, i) + w] = f[k][Off(L, i) + w]
                <5>1. Off(L, i) + w \in 1 .. Len(f[k])
                    <6>1. Len(f[k]) = Off(L, k + 1)
                        BY <3>2
                    <6>2. Off(L, i) + 2 + L[i] <= Len(f[k]) /\ Off(L, i) \in Nat /\ L[i] \in Nat
                        BY <4>2, <6>1
                    <6>3. Len(f[k]) \in Nat
                        BY <3>2
                    <6> HIDE DEF T
                    <6> QED
                        BY <6>2, <6>3, Within
                <5> QED
                    BY <3>5, <5>1
            <4>4. f[k + 1][Off(L, i) + 1] = f[k][Off(L, i) + 1]
                BY <4>2, <4>3
            <4>5. f[k + 1][Off(L, i) + 2] = f[k][Off(L, i) + 2]
                BY <4>2, <4>3
            <4>6. ASSUME NEW w \in 1 .. Len(B[i])
                  PROVE  f[k + 1][Off(L, i) + 2 + w] = f[k][Off(L, i) + 2 + w]
                <5>1. 2 + w \in 1 .. 2 + L[i] /\ Off(L, i) + (2 + w) = Off(L, i) + 2 + w
                    <6>1. w \in 1 .. L[i] /\ L[i] \in Nat /\ Off(L, i) \in Nat
                        BY <4>2
                    <6> DEFINE o == Off(L, i)
                    <6>2. o \in Nat
                        BY <6>1
                    <6> HIDE DEF T, o
                    <6>3. 2 + w \in 1 .. 2 + L[i] /\ o + (2 + w) = o + 2 + w
                        BY <6>1, <6>2
                    <6> QED
                        BY <6>3 DEF o
                <5> QED
                    BY <4>3, <5>1
            <4> QED
                BY <3>2, <4>4, <4>5, <4>6 DEF Laid, L
        <3>8. Laid(f[k + 1], B, n, k + 1)
            <4>1. L[k + 1] = Len(B[k + 1]) /\ L[k + 1] \in Nat /\ Off(L, k + 1) \in Nat
                <5>1. k + 1 \in 1 .. n + 1
                    OBVIOUS
                <5>2. Off(L, k + 1) \in Nat
                    BY <1>4, <5>1
                <5>3. L[k + 1] = Len(B[k + 1]) /\ L[k + 1] \in Nat
                    BY <1>1, <1>4, <3>1
                <5> QED
                    BY <5>2, <5>3
            <4>2. /\ S[k + 1][1] = <<"len", L[k + 1]>> /\ S[k + 1][2] = <<"ref", k + 1>>
                  /\ \A w \in 1 .. L[k + 1] : S[k + 1][2 + w] = B[k + 1][w]
                BY <1>3, <3>1
            <4>3. \A w \in 1 .. 2 + L[k + 1] : f[k + 1][Off(L, k + 1) + w] = S[k + 1][w]
                BY <3>2, <3>4, <3>5
            <4>4. f[k + 1][Off(L, k + 1) + 1] = <<"len", L[k + 1]>>
                <5> HIDE DEF T
                <5>1. 1 \in 1 .. 2 + L[k + 1] /\ 2 \in 1 .. 2 + L[k + 1]
                    BY <4>1
                <5> QED
                    BY <4>2, <4>3, <5>1
            <4>5. f[k + 1][Off(L, k + 1) + 2] = <<"ref", k + 1>>
                <5> HIDE DEF T
                <5>1. 1 \in 1 .. 2 + L[k + 1] /\ 2 \in 1 .. 2 + L[k + 1]
                    BY <4>1
                <5> QED
                    BY <4>2, <4>3, <5>1
            <4>6. ASSUME NEW w \in 1 .. Len(B[k + 1])
                  PROVE  f[k + 1][Off(L, k + 1) + 2 + w] = B[k + 1][w]
                <5>1. 2 + w \in 1 .. 2 + L[k + 1] /\ Off(L, k + 1) + (2 + w) = Off(L, k + 1) + 2 + w
                    BY <4>1
                <5> QED
                    BY <4>1, <4>2, <4>3, <5>1
            <4> QED
                BY <4>1, <4>4, <4>5, <4>6 DEF Laid, L
        <3>9. \A i \in 1 .. k + 1 : Laid(f[k + 1], B, n, i)
            <4>1. \A i \in 1 .. k + 1 : i \in 1 .. k \/ i = k + 1
                OBVIOUS
            <4> QED
                BY <3>7, <3>8, <4>1
        <3> QED
            BY <3>1, <3>5, <3>6, <3>9
    <2> HIDE DEF L
    <2>5. \A k \in 1 .. n : k \in T
        <3> HIDE DEF T
        <3> QED
            BY <2>3, <2>4, AllOf
    <2>6. n \in T
        BY <2>1, <2>5
    <2> QED
        BY <1>2, <2>2, <2>6 DEF L
<1> QED
    BY <1>5, <1>6

\* RPC_SRV_BEGIN and RPC_CLI_END walk from header to header.
LEMMA OffsetsAre ==
    ASSUME NEW n \in 0 .. 5, NEW L \in Lengths(n), NEW b,
           \A i \in 1 .. n : LenAt(b, Off(L, i)) = L[i]
    PROVE  Offsets(b, n) = [i \in 1 .. n |-> Off(L, i)]
<1> DEFINE f == Offsets(b, n)
           T == {k \in 1 .. n : f[k] = Off(L, k)}
<1>1. f = [i \in 1 .. n |-> IF i = 1 THEN 0 ELSE Step(b, f[i - 1])]
    BY OffsetSteps
<1> HIDE DEF f
<1>2. n >= 1 => 1 \in T
    BY <1>1, OffStep
<1>3. ASSUME NEW k \in 1 .. n - 1, k \in T PROVE k + 1 \in T
    <2>1. k + 1 \in 1 .. n /\ k \in 1 .. n /\ (k + 1) - 1 = k /\ k + 1 # 1
        OBVIOUS
    <2>2. f[k + 1] = Step(b, Off(L, k))
        BY <1>1, <1>3, <2>1
    <2>3. Step(b, Off(L, k)) = Off(L, k) + L[k] + 2
        BY <2>1 DEF Step, Header
    <2>4. Off(L, k + 1) = Off(L, k) + Size(L, k) /\ Size(L, k) = 2 + L[k] /\ L[k] \in Nat
        BY <2>1, OffStep, SizeType
    <2>5. Off(L, k) \in Nat
        <3>1. k \in 1 .. n + 1
            BY <2>1
        <3> QED
            BY <3>1, OffStep
    <2> QED
        BY <2>1, <2>2, <2>3, <2>4, <2>5
<1>4. \A k \in 1 .. n : k \in T
    <2> HIDE DEF T
    <2> QED
        BY <1>2, <1>3, AllOf
<1> QED
    BY <1>1, <1>4 DEF f

\* An argument that lies in an array is what is read there.
LEMMA Found ==
    ASSUME NEW d \in Seq(Cell), NEW o \in Nat, NEW b,
           b[o + 1] = <<"len", Len(d)>>,
           \A k \in 1 .. Len(d) : b[o + 2 + k] = d[k]
    PROVE  LenAt(b, o) = Len(d) /\ DataAt(b, o) = d
<1> DEFINE lo == o + Header + 1
           hi == o + Header + Len(d)
<1>1. LenAt(b, o) = Len(d)
    BY DEF LenAt
<1>2. lo \in Int /\ hi \in Int /\ lo = o + 3 /\ hi - lo + 1 = Len(d) /\ Len(d) \in Nat
    BY DEF Header
<1>3. DataAt(b, o) = SubSeq(b, lo, hi)
    BY <1>1 DEF DataAt
<1>4. ASSUME NEW i \in lo .. hi PROVE b[i] \in Cell
    <2>1. i - o - 2 \in 1 .. Len(d) /\ o + 2 + (i - o - 2) = i
        BY <1>2 DEF Header
    <2>2. b[i] = d[i - o - 2]
        BY <2>1
    <2> QED
        BY <2>1, <2>2
<1> HIDE DEF lo, hi
<1>5. /\ SubSeq(b, lo, hi) \in Seq(Cell)
      /\ Len(SubSeq(b, lo, hi)) = IF lo <= hi THEN hi - lo + 1 ELSE 0
      /\ \A i \in 1 .. hi - lo + 1 : SubSeq(b, lo, hi)[i] = b[lo + i - 1]
    BY <1>2, <1>4, SubSeqProperties
<1>6. Len(SubSeq(b, lo, hi)) = Len(d)
    BY <1>2, <1>5
<1>7. ASSUME NEW i \in 1 .. Len(d) PROVE SubSeq(b, lo, hi)[i] = d[i]
    <2>1. i \in 1 .. hi - lo + 1 /\ lo + i - 1 = o + 2 + i
        BY <1>2
    <2> QED
        BY <1>5, <2>1
<1>8. SubSeq(b, lo, hi) = d
    BY <1>5, <1>6, <1>7, SeqEqual
<1> QED
    BY <1>1, <1>3, <1>8

\* Both together: what was laid is found again, one argument after the other.
LEMMA ReadBack ==
    ASSUME NEW n \in 0 .. 5, NEW B \in [1 .. n -> Seq(Cell)]
    PROVE  /\ Offsets(Array(B), n) = [i \in 1 .. n |-> Off(Of(B, n), i)]
           /\ \A i \in 1 .. n : /\ LenAt(Array(B), Off(Of(B, n), i)) = Len(B[i])
                                /\ DataAt(Array(B), Off(Of(B, n), i)) = B[i]
<1> DEFINE L == Of(B, n)
           b == Array(B)
<1>1. L \in Lengths(n) /\ \A i \in 1 .. n : L[i] = Len(B[i])
    BY OfType
<1>2. \A i \in 1 .. n : Laid(b, B, n, i)
    BY Layout
<1> HIDE DEF b
<1>3. ASSUME NEW i \in 1 .. n
      PROVE  LenAt(b, Off(L, i)) = Len(B[i]) /\ DataAt(b, Off(L, i)) = B[i]
    <2>1. Off(L, i) \in Nat
        <3>1. i \in 1 .. n + 1
            OBVIOUS
        <3> HIDE DEF L
        <3> QED
            BY <1>1, <3>1, OffStep
    <2>2. b[Off(L, i) + 1] = <<"len", Len(B[i])>>
          /\ \A k \in 1 .. Len(B[i]) : b[Off(L, i) + 2 + k] = B[i][k]
        BY <1>2 DEF Laid
    <2>3. B[i] \in Seq(Cell)
        OBVIOUS
    <2> HIDE DEF L
    <2> QED
        BY <2>1, <2>2, <2>3, Found
<1>4. \A i \in 1 .. n : LenAt(b, Off(L, i)) = L[i]
    <2> HIDE DEF L
    <2> QED
        BY <1>1, <1>3
<1>5. Offsets(b, n) = [i \in 1 .. n |-> Off(L, i)]
    <2> HIDE DEF L
    <2> QED
        BY <1>1, <1>4, OffsetsAre
<1> QED
    BY <1>3, <1>5 DEF b

\* Longer arguments do not start earlier.
LEMMA OffGrows ==
    ASSUME NEW n \in 0 .. 5, NEW L \in Lengths(n), NEW M \in Lengths(n),
           \A i \in 1 .. n : L[i] <= M[i]
    PROVE  Off(L, n + 1) <= Off(M, n + 1)
<1>1. \A i \in 1 .. n : Size(L, i) \in Nat /\ Size(M, i) \in Nat /\ Size(L, i) <= Size(M, i)
    BY SizeType
<1> QED
    BY <1>1 DEF Off

-----------------------------------------------------------------------------
(* The invariant.                                                          *)

Datum(i, k) == {<<"old", i, k>>, <<"new", i, k>>}
Made(d, i) == \A k \in 1 .. Len(d) : d[k] \in Datum(i, k)

\* Arguments that may come of a call of s: only out arguments change their length.
Served(B, s) ==
    /\ B \in [1 .. Len(s) -> Seq(Cell)]
    /\ \A i \in 1 .. Len(s) : Made(B[i], i) /\ (Len(B[i]) = s[i] \/ s[i] = OUT_SIZE)

Exposing(s) == \E i \in 1 .. Len(s) : s[i] = OUT_SIZE /\ i < Len(s)

Caller ==
    /\ pc \in {"idle", "call", "handler", "reply", "fault", "abort"} /\ ret \in {SUCCESS, FAILURE}
    /\ sig \in Sig \cup {<<>>} /\ wait \in BOOLEAN
    /\ Served(mem, sig) /\ made \in {{}, Outs(sig)}
    /\ pc # "idle" => mem = Given(sig) /\ cli = Array(Given(sig))

Quiet == pc \in {"idle", "call"} => args = <<>> /\ heap = <<>> /\ done = {}

\* The server's pointers: to where the arguments of the request lie, or to blocks.
Pointing ==
    pc \in {"handler", "reply", "fault", "abort"} =>
        /\ wait /\ done \subseteq 1 .. Len(sig)
        /\ args \in [1 .. Len(sig) -> Int] /\ heap \in [1 .. Len(sig) -> Seq(Cell)]
        /\ \A i \in 1 .. Len(sig) :
               \/ args[i] = Heap /\ sig[i] = OUT_SIZE /\ Made(heap[i], i)
               \/ args[i] = Off(sig, i)
        /\ Off(sig, Len(sig) + 1) <= Len(srv) /\ Len(srv) \in Nat

\* The request in the handler's hands: a header is what it was, or the pointer of the
\* out argument in front; the data stays the argument's.
HeaderKept(i) ==
    \/ srv[Off(sig, i) + 1] = <<"len", sig[i]>>
    \/ srv[Off(sig, i) + 1][1] = "ptr" /\ Exposing(sig)
DataKept(i) == \A k \in 1 .. sig[i] : srv[Off(sig, i) + 2 + k] \in Datum(i, k)

Working ==
    pc = "handler" =>
        /\ srv \in Seq(Cell) /\ Len(srv) = Off(sig, Len(sig) + 1)
        /\ \A i \in 1 .. Len(sig) : HeaderKept(i) /\ DataKept(i)

Answered == pc = "reply" => \E B : Served(B, sig) /\ srv = Array(B)
Faulty == pc = "fault" => Exposing(sig)

IInv == Caller /\ Quiet /\ Pointing /\ Working /\ Answered /\ Faulty

LEMMA SigIs ==
    ASSUME NEW s \in Sig \cup {<<>>}
    PROVE  Len(s) \in 0 .. 5 /\ s \in Lengths(Len(s)) /\ DOMAIN s = 1 .. Len(s)
<1>1. s \in Seq(Nat) /\ Len(s) <= 5
    <2>1. CASE s \in Sig
        BY <2>1, SigAssumption
    <2>2. CASE s = <<>>
        BY <2>2
    <2> QED
        BY <2>1, <2>2
<1>2. Len(s) \in Nat /\ DOMAIN s = 1 .. Len(s)
    BY <1>1
<1>3. s \in [1 .. Len(s) -> Nat]
    BY <1>1
<1>4. Len(s) \in 0 .. 5
    <2> DEFINE l == Len(s)
    <2>1. l \in Nat /\ l <= 5
        BY <1>1, <1>2, Zenon
    <2> HIDE DEF l
    <2>2. l \in 0 .. 5
        BY <2>1
    <2> QED
        BY <2>2 DEF l
<1> QED
    BY <1>2, <1>3, <1>4 DEF Lengths

LEMMA DatumIsCell == ASSUME NEW i \in Nat, NEW k \in Nat PROVE Datum(i, k) \subseteq Cell
BY DEF Datum, Cell

LEMMA WordIs ==
    ASSUME NEW origin \in {"old", "new"}, NEW i \in Nat, NEW n \in Nat
    PROVE  /\ Word(origin, i, n) \in Seq(Cell) /\ Len(Word(origin, i, n)) = n
           /\ Made(Word(origin, i, n), i)
           /\ \A k \in 1 .. n : Word(origin, i, n)[k] = <<origin, i, k>>
<1>1. ASSUME NEW k \in 1 .. n PROVE <<origin, i, k>> \in Datum(i, k) /\ <<origin, i, k>> \in Cell
    BY DEF Datum, Cell
<1>2. Word(origin, i, n) \in Seq(Cell) /\ Len(Word(origin, i, n)) = n
    BY <1>1 DEF Word
<1>3. \A k \in 1 .. n : Word(origin, i, n)[k] = <<origin, i, k>>
    BY DEF Word
<1> QED
    BY <1>1, <1>2, <1>3 DEF Made

\* The arguments of a call before the call.
LEMMA GivenIs ==
    ASSUME NEW s \in Sig \cup {<<>>}
    PROVE  /\ Served(Given(s), s) /\ Of(Given(s), Len(s)) = s
           /\ \A i \in 1 .. Len(s) : Given(s)[i] = Word("old", i, s[i]) /\ Len(Given(s)[i]) = s[i]
<1>1. Len(s) \in 0 .. 5 /\ s \in Lengths(Len(s)) /\ DOMAIN s = 1 .. Len(s)
    BY SigIs
<1>2. Given(s) = [i \in 1 .. Len(s) |-> Word("old", i, s[i])]
    BY <1>1 DEF Given
<1>3. ASSUME NEW i \in 1 .. Len(s)
      PROVE  /\ Given(s)[i] = Word("old", i, s[i])
             /\ Given(s)[i] \in Seq(Cell) /\ Len(Given(s)[i]) = s[i] /\ Made(Given(s)[i], i)
    <2>1. i \in Nat /\ s[i] \in Nat
        BY <1>1 DEF Lengths
    <2>2. Given(s)[i] = Word("old", i, s[i])
        BY <1>2
    <2> QED
        BY <2>1, <2>2, WordIs
<1>4. Given(s) \in [1 .. Len(s) -> Seq(Cell)]
    BY <1>2, <1>3
<1>5. Of(Given(s), Len(s)) = [i \in 1 .. Len(s) |-> s[i]]
    BY <1>3 DEF Of
<1>6. s = [i \in 1 .. Len(s) |-> s[i]]
    BY <1>1 DEF Lengths
<1> QED
    BY <1>3, <1>4, <1>5, <1>6 DEF Served

LEMMA InitInv == Init => IInv
<1> SUFFICES ASSUME Init PROVE IInv
    OBVIOUS
<1>1. Len(<<>>) = 0 /\ Served(<<>>, <<>>)
    BY DEF Served
<1> QED
    BY <1>1 DEF Init, IInv, Caller, Quiet, Pointing, Working, Answered, Faulty

\* RPC_CLI_END of an array that holds arguments a call may have made.
LEMMA EndIs ==
    ASSUME IInv, NEW B, Served(B, sig), cli_end(Array(B))
    PROVE  mem' = B /\ made' = Outs(sig)
<1> DEFINE n == Len(sig)
<1>1. n \in 0 .. 5 /\ DOMAIN sig = 1 .. n
    BY SigIs DEF IInv, Caller
<1>2. B \in [1 .. n -> Seq(Cell)]
    BY DEF Served
<1>3. mem' = [i \in 1 .. n |-> Result(i, Array(B), Offsets(Array(B), n)[i])]
    BY <1>1 DEF cli_end
<1> HIDE DEF n
<1>4. Offsets(Array(B), n) = [i \in 1 .. n |-> Off(Of(B, n), i)]
    BY <1>1, <1>2, ReadBack
<1>5. ASSUME NEW i \in 1 .. n PROVE Result(i, Array(B), Offsets(Array(B), n)[i]) = B[i]
    <2>1. LenAt(Array(B), Off(Of(B, n), i)) = Len(B[i])
        BY <1>1, <1>2, ReadBack
    <2>2. DataAt(Array(B), Off(Of(B, n), i)) = B[i]
        BY <1>1, <1>2, ReadBack
    <2>3. Offsets(Array(B), n)[i] = Off(Of(B, n), i)
        BY <1>4
    <2>4. Len(B[i]) = sig[i] \/ sig[i] = OUT_SIZE
        BY DEF Served, n
    <2> QED
        BY <2>1, <2>2, <2>3, <2>4 DEF Result
<1>6. mem' = [i \in 1 .. n |-> B[i]]
    BY <1>3, <1>5
<1>7. made' = Outs(sig)
    BY DEF cli_end
<1> QED
    BY <1>2, <1>6, <1>7

LEMMA CallInv == ASSUME IInv, NEW s \in Sig, cli_call(s) \/ cli_null(s) PROVE IInv'
<1>1. Served(Given(s), s)
    BY GivenIs
<1>2. /\ sig' = s /\ mem' = Given(s) /\ made' = {} /\ wait' \in BOOLEAN /\ ret' \in {SUCCESS, FAILURE}
      /\ (pc' = "call" /\ cli' = Array(Given(s))) \/ pc' = "idle"
      /\ pc = "idle" /\ args' = args /\ heap' = heap /\ done' = done
    BY DEF IInv, Caller, cli_call, cli_null, server
<1>3. Quiet'
    BY <1>2 DEF IInv, Quiet
<1>4. Caller'
    BY <1>1, <1>2 DEF Caller
<1> QED
    BY <1>2, <1>3, <1>4 DEF IInv, Pointing, Working, Answered, Faulty

\* The stub returns: nothing is left of the call but its results.
LEMMA LeaveInv ==
    ASSUME IInv, NEW r \in {SUCCESS, FAILURE}, Leave(r),
           Served(mem', sig), made' \in {{}, Outs(sig)}
    PROVE  IInv'
<1>1. /\ pc' = "idle" /\ ret' = r /\ args' = <<>> /\ heap' = <<>> /\ done' = {}
      /\ sig' = sig /\ wait' = wait
    BY DEF Leave
<1>2. Caller'
    BY <1>1 DEF IInv, Caller, Served, Outs
<1>3. Quiet'
    BY <1>1 DEF Quiet
<1> QED
    BY <1>1, <1>2, <1>3 DEF IInv, Pointing, Working, Answered, Faulty

\* The array of a reply comes back as the arguments in it.
LEMMA ReplyIs ==
    ASSUME IInv, pc = "reply", cli_end(srv)
    PROVE  Served(mem', sig) /\ made' = Outs(sig) /\ srv = Array(mem')
<1>1. PICK B : Served(B, sig) /\ srv = Array(B)
    BY DEF IInv, Answered
<1>2. mem' = B /\ made' = Outs(sig)
    BY <1>1, EndIs
<1> QED
    BY <1>1, <1>2

LEMMA AbortInv ==
    ASSUME IInv, pc = "reply", pc' = "abort",
           UNCHANGED <<sig, wait, mem, made, cli, server, ret>>
    PROVE  IInv'
<1>1. UNCHANGED <<sig, wait, mem, made, cli, srv, args, heap, done, ret>>
    BY DEF server
<1> QED
    BY <1>1 DEF IInv, Caller, Quiet, Pointing, Working, Answered, Faulty, Served

LEMMA ReturnInv == ASSUME IInv, cli_sent \/ cli_return \/ cli_return_bare \/ cli_fails PROVE IInv'
<1>1. CASE cli_sent
    <2>1. mem' = mem /\ made' = made /\ Leave(SUCCESS)
        BY <1>1 DEF cli_sent
    <2> QED
        BY <2>1, LeaveInv DEF IInv, Caller
<1>2. CASE cli_return
    <2>1. pc = "reply" /\ cli_end(srv) /\ Leave(SUCCESS)
        BY <1>2 DEF cli_return
    <2>2. Served(mem', sig) /\ made' = Outs(sig)
        BY <2>1, ReplyIs
    <2> QED
        BY <2>1, <2>2, LeaveInv
<1>3. CASE cli_fails
    <2>1. pc # "idle" /\ cli_end(cli) /\ Leave(FAILURE)
        BY <1>3 DEF cli_fails
    <2>2. cli = Array(Given(sig)) /\ sig \in Sig \cup {<<>>}
        BY <2>1 DEF IInv, Caller
    <2>3. Served(Given(sig), sig)
        BY <2>2, GivenIs
    <2>4. mem' = Given(sig) /\ made' = Outs(sig)
        BY <2>1, <2>2, <2>3, EndIs
    <2> QED
        BY <2>1, <2>3, <2>4, LeaveInv
<1>4. CASE cli_return_bare
    <2>1. CASE pc = "reply" /\ cli_end(srv) /\ Leave(SUCCESS)
        <3>1. Served(mem', sig) /\ made' = Outs(sig)
            BY <2>1, ReplyIs
        <3> QED
            BY <2>1, <3>1, LeaveInv
    <2> QED
        BY <1>4, <2>1, AbortInv DEF cli_return_bare
<1> QED
    BY <1>1, <1>2, <1>3, <1>4

\* Every word of an argument lies in the request.
LEMMA InRequest ==
    ASSUME NEW n \in 0 .. 5, NEW L \in Lengths(n), NEW i \in 1 .. n, NEW p \in 1 .. 2 + L[i]
    PROVE  Off(L, i) + p \in 1 .. Off(L, n + 1)
<1>1. Off(L, i) + 2 + L[i] <= Off(L, n + 1)
    <2>1. n + 1 \in 1 .. n + 1 /\ i < n + 1
        OBVIOUS
    <2> QED
        BY <2>1, OffOrder
<1>2. Off(L, i) \in Nat /\ Off(L, n + 1) \in Nat
    <2>1. i \in 1 .. n + 1 /\ n + 1 \in 1 .. n + 1
        OBVIOUS
    <2> QED
        BY <2>1, OffStep
<1>3. L[i] \in Nat
    BY SizeType
<1> QED
    BY <1>1, <1>2, <1>3, Within

\* What the lemmas about the layout need to know of the call under way.
LEMMA Request ==
    ASSUME IInv, pc # "idle"
    PROVE  /\ Len(sig) \in 0 .. 5 /\ sig \in Lengths(Len(sig)) /\ DOMAIN sig = 1 .. Len(sig)
           /\ cli \in Seq(Cell) /\ Len(cli) = Off(sig, Len(sig) + 1)
           /\ \A i \in 1 .. Len(sig) : Laid(cli, Given(sig), Len(sig), i)
           /\ Offsets(cli, Len(sig)) = [i \in 1 .. Len(sig) |-> Off(sig, i)]
           /\ \A i \in 1 .. Len(sig) : LenAt(cli, Off(sig, i)) = sig[i]
<1> DEFINE n == Len(sig)
           B == Given(sig)
<1>1. sig \in Sig \cup {<<>>} /\ cli = Array(B)
    BY DEF IInv, Caller
<1>2. n \in 0 .. 5 /\ sig \in Lengths(n) /\ DOMAIN sig = 1 .. n
    BY <1>1, SigIs
<1>3. B \in [1 .. n -> Seq(Cell)] /\ Of(B, n) = sig /\ \A i \in 1 .. n : Len(B[i]) = sig[i]
    BY <1>1, GivenIs DEF Served
<1> HIDE DEF n, B
<1>4. Array(B) \in Seq(Cell) /\ Len(Array(B)) = Off(Of(B, n), n + 1)
    BY <1>2, <1>3, Layout
<1>5. \A i \in 1 .. n : Laid(Array(B), B, n, i)
    BY <1>2, <1>3, Layout
<1>6. Offsets(Array(B), n) = [i \in 1 .. n |-> Off(Of(B, n), i)]
    BY <1>2, <1>3, ReadBack
<1>7. \A i \in 1 .. n : LenAt(Array(B), Off(Of(B, n), i)) = Len(B[i])
    BY <1>2, <1>3, ReadBack
<1> QED
    BY <1>1, <1>2, <1>3, <1>4, <1>5, <1>6, <1>7 DEF n, B

\* RPC_SRV_BEGIN: only the refs of out arguments change.
LEMMA BeginInv == ASSUME IInv, srv_begin PROVE IInv'
<1> DEFINE n == Len(sig)
<1>1. /\ pc = "call" /\ wait /\ pc' = "handler"
      /\ args' = Offsets(cli, n) /\ heap' = [i \in DOMAIN sig |-> <<>>] /\ done' = {}
      /\ UNCHANGED <<sig, wait, mem, made, cli, ret>>
    BY DEF srv_begin
<1>2. srv' = [w \in DOMAIN cli |->
           IF \E i \in DOMAIN sig : w = args'[i] + 2 /\ LenAt(cli, args'[i]) = OUT_SIZE
           THEN <<"ref", 0>> ELSE cli[w]]
    BY DEF srv_begin
<1>3. /\ n \in 0 .. 5 /\ sig \in Lengths(n) /\ DOMAIN sig = 1 .. n
      /\ cli \in Seq(Cell) /\ Len(cli) = Off(sig, n + 1)
    BY <1>1, Request
<1>4. Offsets(cli, n) = [i \in 1 .. n |-> Off(sig, i)]
    BY <1>1, Request
<1>5. \A i \in 1 .. n : Laid(cli, Given(sig), n, i)
    BY <1>1, Request
<1>6. sig \in Sig \cup {<<>>}
    BY DEF IInv, Caller
<1>7. /\ Of(Given(sig), n) = sig
      /\ \A i \in 1 .. n : Given(sig)[i] = Word("old", i, sig[i]) /\ Len(Given(sig)[i]) = sig[i]
    BY <1>6, GivenIs
<1> HIDE DEF n
<1>8. \A i \in 1 .. n : args'[i] = Off(sig, i)
    BY <1>1, <1>4
<1>9. \A i \in 1 .. n : Off(sig, i) \in Nat
    <2>1. \A i \in 1 .. n : i \in 1 .. n + 1
        BY <1>3
    <2> QED
        BY <1>3, <2>1, OffStep
<1>10. srv' \in Seq(Cell) /\ Len(srv') = Off(sig, n + 1)
    <2>1. <<"ref", 0>> \in Cell
        BY DEF Cell
    <2>2. DOMAIN cli = 1 .. Len(cli) /\ Len(cli) \in Nat /\ \A w \in 1 .. Len(cli) : cli[w] \in Cell
        BY <1>3
    <2>3. srv' \in [1 .. Len(cli) -> Cell]
        BY <1>2, <2>1, <2>2
    <2> QED
        BY <1>3, <2>2, <2>3
\* A word of an argument that is not its ref.
<1>11. ASSUME NEW j \in 1 .. n, NEW p \in 1 .. 2 + sig[j], p # 2
       PROVE  srv'[Off(sig, j) + p] = cli[Off(sig, j) + p]
    <2>1. Off(sig, j) + p \in DOMAIN cli
        <3>1. Off(sig, j) + p \in 1 .. Off(sig, n + 1)
            BY <1>3, InRequest
        <3>2. DOMAIN cli = 1 .. Off(sig, n + 1)
            BY <1>3
        <3> QED
            BY <3>1, <3>2
    <2>2. ASSUME NEW i \in 1 .. n PROVE Off(sig, j) + p # Off(sig, i) + 2
        <3>1. sig[i] \in Nat
            BY <1>3, SizeType
        <3>2. 2 \in 1 .. 2 + sig[i]
            BY <3>1
        <3> QED
            BY <1>3, <1>11, <3>2, Apart
    <2> QED
        BY <1>2, <1>3, <1>8, <2>1, <2>2
<1>12. ASSUME NEW j \in 1 .. n PROVE HeaderKept(j)' /\ DataKept(j)'
    <2>1. sig[j] \in Nat /\ j \in Nat
        <3>1. sig[j] \in Nat
            BY <1>3, SizeType
        <3>2. j \in Nat
            BY <1>3
        <3> QED
            BY <3>1, <3>2
    <2>2. cli[Off(sig, j) + 1] = <<"len", sig[j]>>
          /\ \A k \in 1 .. sig[j] : cli[Off(sig, j) + 2 + k] = Given(sig)[j][k]
        BY <1>5, <1>7 DEF Laid
    <2>3. srv'[Off(sig, j) + 1] = <<"len", sig[j]>>
        <3>1. 1 \in 1 .. 2 + sig[j]
            BY <2>1
        <3> QED
            BY <1>11, <2>2, <3>1
    <2>4. ASSUME NEW k \in 1 .. sig[j] PROVE srv'[Off(sig, j) + 2 + k] \in Datum(j, k)
        <3>1. 2 + k \in 1 .. 2 + sig[j] /\ 2 + k # 2
            BY <2>1
        <3>2. Off(sig, j) + (2 + k) = Off(sig, j) + 2 + k
            BY <1>9, Sum3
        <3>3. srv'[Off(sig, j) + 2 + k] = Given(sig)[j][k]
            BY <1>11, <2>2, <3>1, <3>2
        <3>4. Given(sig)[j][k] = <<"old", j, k>>
            BY <1>7 DEF Word
        <3> QED
            BY <3>3, <3>4 DEF Datum
    <2> QED
        BY <1>1, <2>3, <2>4 DEF HeaderKept, DataKept
<1>13. Caller'
    BY <1>1 DEF IInv, Caller, Served
<1>14. Pointing'
    <2>1. Off(sig, n + 1) \in Nat
        <3>1. n + 1 \in 1 .. n + 1
            BY <1>3
        <3> QED
            BY <1>3, <3>1, OffStep
    <2>2. args' \in [1 .. n -> Int] /\ heap' \in [1 .. n -> Seq(Cell)]
        BY <1>1, <1>3, <1>4, <1>9
    <2>3. Off(sig, n + 1) <= Len(srv') /\ Len(srv') \in Nat
        BY <1>10, <2>1
    <2> QED
        BY <1>1, <1>8, <2>2, <2>3 DEF Pointing, n
<1>15. Working'
    BY <1>1, <1>10, <1>12 DEF Working, n
<1> QED
    BY <1>1, <1>13, <1>14, <1>15 DEF IInv, Quiet, Answered, Faulty

\* The array with new data in an argument.
LEMMA FilledIs ==
    ASSUME srv \in Seq(Cell), NEW o \in Nat, NEW d \in Seq(Cell)
    PROVE  /\ Filled(o, d) \in Seq(Cell) /\ Len(Filled(o, d)) = Len(srv)
           /\ \A w \in 1 .. Len(srv) :
                  Filled(o, d)[w] = IF w - o - 2 \in 1 .. Len(d) THEN d[w - o - 2] ELSE srv[w]
<1>1. DOMAIN srv = 1 .. Len(srv) /\ DOMAIN d = 1 .. Len(d) /\ Len(srv) \in Nat
    OBVIOUS
<1>2. Filled(o, d) = [w \in 1 .. Len(srv) |->
          IF w - o - 2 \in 1 .. Len(d) THEN d[w - o - 2] ELSE srv[w]]
    BY <1>1 DEF Filled, Header
<1>3. ASSUME NEW w \in 1 .. Len(srv)
      PROVE  (IF w - o - 2 \in 1 .. Len(d) THEN d[w - o - 2] ELSE srv[w]) \in Cell
    OBVIOUS
<1>4. Filled(o, d) \in [1 .. Len(srv) -> Cell]
    BY <1>2, <1>3
<1>5. Filled(o, d) \in Seq(Cell) /\ Len(Filled(o, d)) = Len(srv)
    BY <1>1, <1>4
<1> QED
    BY <1>2, <1>5

\* A write of argument i puts its words into its data and nowhere else.
LEMMA FilledOwn ==
    ASSUME IInv, pc = "handler", NEW i \in 1 .. Len(sig), NEW d \in Seq(Cell), Len(d) = sig[i],
           NEW j \in 1 .. Len(sig), NEW p \in 1 .. 2 + sig[j]
    PROVE  Filled(At(i), d)[Off(sig, j) + p] =
               IF j = i /\ p > 2 THEN d[p - 2] ELSE srv[Off(sig, j) + p]
<1> DEFINE n == Len(sig)
           w == Off(sig, j) + p
<1>1. n \in 0 .. 5 /\ sig \in Lengths(n)
    BY Request
<1>2. At(i) = Off(sig, i)
    <2>1. Offsets(cli, n) = [k \in 1 .. n |-> Off(sig, k)]
        BY Request
    <2> QED
        BY <2>1 DEF At
<1>3. srv \in Seq(Cell) /\ Len(srv) = Off(sig, n + 1)
    BY DEF IInv, Working
<1> HIDE DEF n
<1>4. /\ Off(sig, i) \in Nat /\ Off(sig, j) \in Nat /\ sig[i] \in Nat /\ sig[j] \in Nat
    <2>1. i \in 1 .. n + 1 /\ j \in 1 .. n + 1 /\ i \in 1 .. n /\ j \in 1 .. n
        BY <1>1 DEF n
    <2> QED
        BY <1>1, <2>1, OffStep, SizeType
<1>5. w \in 1 .. Len(srv)
    BY <1>1, <1>3, InRequest DEF n
<1>6. Filled(At(i), d)[w] = IF w - Off(sig, i) - 2 \in 1 .. sig[i]
                             THEN d[w - Off(sig, i) - 2] ELSE srv[w]
    <2> HIDE DEF w
    <2>1. srv \in Seq(Cell) /\ Off(sig, i) \in Nat
        BY <1>3, <1>4
    <2>2. \A v \in 1 .. Len(srv) : Filled(Off(sig, i), d)[v] =
              IF v - Off(sig, i) - 2 \in 1 .. Len(d) THEN d[v - Off(sig, i) - 2] ELSE srv[v]
        BY <2>1, FilledIs
    <2> QED
        BY <1>2, <1>5, <2>2
<1>7. CASE w - Off(sig, i) - 2 \in 1 .. sig[i]
    <2> DEFINE q == w - Off(sig, i)
    <2>1. q \in 1 .. 2 + sig[i] /\ q > 2 /\ Off(sig, j) + p = Off(sig, i) + q
        BY <1>4, <1>7
    <2>2. q = w - Off(sig, i)
        OBVIOUS
    <2> HIDE DEF q, w
    <2>3. j = i /\ p = q
        <3>1. i \in 1 .. n /\ j \in 1 .. n
            BY DEF n
        <3>2. q \in 1 .. 2 + sig[i] /\ Off(sig, j) + p = Off(sig, i) + q
            BY <2>1
        <3>3. ~ (i < j)
            <4>1. i < j => Off(sig, i) + 2 + sig[i] <= Off(sig, j)
                <5>1. j \in 1 .. n + 1
                    BY <1>1, <3>1
                <5> QED
                    BY <1>1, <3>1, <5>1, OffOrder
            <4> QED
                BY <1>4, <3>2, <4>1
        <3>4. ~ (j < i)
            <4>1. j < i => Off(sig, j) + 2 + sig[j] <= Off(sig, i)
                <5>1. i \in 1 .. n + 1
                    BY <1>1, <3>1
                <5> QED
                    BY <1>1, <3>1, <5>1, OffOrder
            <4> QED
                BY <1>4, <3>2, <4>1
        <3>5. i = j
            BY <1>1, <3>1, <3>3, <3>4
        <3> QED
            BY <1>4, <3>2, <3>5
    <2> QED
        BY <1>6, <1>7, <2>1, <2>2, <2>3 DEF w
<1>8. CASE ~ (w - Off(sig, i) - 2 \in 1 .. sig[i])
    <2>1. ~ (j = i /\ p > 2)
        BY <1>4, <1>8
    <2> QED
        BY <1>6, <1>8, <2>1
<1> QED
    BY <1>7, <1>8

LEMMA WriteInv == ASSUME IInv, NEW i \in 1 .. 5, handler_write(i) PROVE IInv'
<1> DEFINE n == Len(sig)
           d == Word("new", i, sig[i])
<1>1. /\ pc = "handler" /\ i \in DOMAIN sig \ done /\ done' = done \cup {i}
      /\ srv' = Filled(At(i), d)
      /\ UNCHANGED <<pc, sig, wait, mem, made, cli, args, heap, ret>>
    BY DEF handler_write
<1>2. n \in 0 .. 5 /\ sig \in Lengths(n) /\ DOMAIN sig = 1 .. n
    BY <1>1, Request
<1>3. i \in 1 .. n /\ i \in Nat /\ sig[i] \in Nat
    <2>1. i \in 1 .. n /\ i \in Nat
        BY <1>1, <1>2
    <2>2. sig[i] \in Nat
        BY <1>2, <2>1, SizeType
    <2> QED
        BY <2>1, <2>2
<1>4. d \in Seq(Cell) /\ Len(d) = sig[i] /\ \A k \in 1 .. sig[i] : d[k] = <<"new", i, k>>
    BY <1>3, WordIs
<1>5. srv \in Seq(Cell) /\ Len(srv) = Off(sig, n + 1)
    BY <1>1 DEF IInv, Working
<1>6. At(i) \in Nat
    <2>1. Offsets(cli, n) = [k \in 1 .. n |-> Off(sig, k)]
        BY <1>1, Request
    <2>2. i \in 1 .. n + 1
        BY <1>2, <1>3
    <2>3. Off(sig, i) \in Nat
        BY <1>2, <2>2, OffStep
    <2> QED
        BY <1>3, <2>1, <2>3 DEF At
<1> HIDE DEF d
<1>7. srv' \in Seq(Cell) /\ Len(srv') = Len(srv)
    BY <1>1, <1>4, <1>5, <1>6, FilledIs
<1>8. ASSUME NEW j \in 1 .. n PROVE HeaderKept(j)' /\ DataKept(j)'
    <2>1. sig[j] \in Nat /\ Off(sig, j) \in Nat
        <3>1. j \in 1 .. n + 1
            BY <1>2
        <3> QED
            BY <1>2, <3>1, OffStep, SizeType
    <2>2. ASSUME NEW p \in 1 .. 2 + sig[j]
          PROVE  srv'[Off(sig, j) + p] = IF j = i /\ p > 2 THEN d[p - 2] ELSE srv[Off(sig, j) + p]
        BY <1>1, <1>3, <1>4, FilledOwn
    <2>3. srv'[Off(sig, j) + 1] = srv[Off(sig, j) + 1]
        <3>1. 1 \in 1 .. 2 + sig[j]
            BY <2>1
        <3> QED
            BY <2>2, <3>1
    <2>4. ASSUME NEW k \in 1 .. sig[j] PROVE srv'[Off(sig, j) + 2 + k] \in Datum(j, k)
        <3>1. 2 + k \in 1 .. 2 + sig[j] /\ 2 + k > 2 /\ (2 + k) - 2 = k
            BY <2>1
        <3>2. Off(sig, j) + (2 + k) = Off(sig, j) + 2 + k
            BY <2>1, Sum3
        <3>3. srv'[Off(sig, j) + 2 + k] = IF j = i THEN d[k] ELSE srv[Off(sig, j) + 2 + k]
            BY <2>2, <3>1, <3>2
        <3>4. srv[Off(sig, j) + 2 + k] \in Datum(j, k)
            BY <1>1 DEF IInv, Working, DataKept
        <3>5. j = i => d[k] \in Datum(j, k)
            BY <1>4 DEF Datum
        <3> QED
            BY <3>3, <3>4, <3>5
    <2>5. HeaderKept(j)
        BY <1>1 DEF IInv, Working
    <2> QED
        BY <1>1, <2>3, <2>4, <2>5 DEF HeaderKept, DataKept
<1>9. Caller'
    BY <1>1 DEF IInv, Caller, Served
<1>10. Pointing'
    <2>1. UNCHANGED <<pc, sig, wait, args, heap>> /\ Len(srv') = Len(srv) /\ done' = done \cup {i}
        BY <1>1, <1>7
    <2>2. Pointing /\ done' \subseteq 1 .. n
        BY <1>1, <1>3 DEF IInv, Pointing
    <2> QED
        BY <2>1, <2>2 DEF Pointing
<1>11. Working'
    BY <1>1, <1>5, <1>7, <1>8 DEF Working
<1> QED
    BY <1>1, <1>9, <1>10, <1>11 DEF IInv, Quiet, Answered, Faulty

\* rpc_arg_malloc: the pointer goes to the word behind the out argument's header.
LEMMA MallocInv ==
    ASSUME IInv, NEW i \in 1 .. 5, NEW m \in OutLen, rpc_arg_malloc(i, m)
    PROVE  IInv'
<1> DEFINE n == Len(sig)
           d == <<<<"ptr", i>>>>
<1>1. /\ pc = "handler" /\ i \in DOMAIN sig \ done /\ sig[i] = 0
      /\ done' = done \cup {i} /\ UNCHANGED <<sig, wait, mem, made, cli, ret>>
    BY DEF rpc_arg_malloc, OUT_SIZE
<1>2. n \in 0 .. 5 /\ sig \in Lengths(n) /\ DOMAIN sig = 1 .. n
    BY <1>1, Request
<1>3. i \in 1 .. n /\ i \in Nat /\ m \in Nat
    BY <1>1, <1>2, ResultAssumption
<1>4. d \in Seq(Cell) /\ Len(d) = 1 /\ d[1] = <<"ptr", i>>
    BY <1>3 DEF Cell
<1>5. srv \in Seq(Cell) /\ Len(srv) = Off(sig, n + 1)
    BY <1>1 DEF IInv, Working
<1>6. At(i) = Off(sig, i) /\ Off(sig, i) \in Nat
    <2>1. Offsets(cli, n) = [k \in 1 .. n |-> Off(sig, k)]
        BY <1>1, Request
    <2>2. i \in 1 .. n + 1
        BY <1>2, <1>3
    <2>3. Off(sig, i) \in Nat
        BY <1>2, <2>2, OffStep
    <2> QED
        BY <1>3, <2>1, <2>3 DEF At
<1>7. Caller'
    BY <1>1 DEF IInv, Caller, Served, rpc_arg_malloc
<1> HIDE DEF d
<1>8. CASE srv[At(i) + 1] = <<"len", OUT_SIZE>>
    <2>1. /\ args' = [args EXCEPT ![i] = Heap]
          /\ heap' = [heap EXCEPT ![i] = Word("new", i, m)]
          /\ srv' = Filled(At(i), d) /\ pc' = pc
        BY <1>8 DEF rpc_arg_malloc, d
    <2>2. srv' \in Seq(Cell) /\ Len(srv') = Len(srv)
        BY <1>4, <1>5, <1>6, <2>1, FilledIs
    <2>3. \A w \in 1 .. Len(srv) : srv'[w] = IF w = Off(sig, i) + 3 THEN <<"ptr", i>> ELSE srv[w]
        <3>1. \A w \in 1 .. Len(srv) : Filled(At(i), d)[w] =
                  IF w - At(i) - 2 \in 1 .. Len(d) THEN d[w - At(i) - 2] ELSE srv[w]
            BY <1>4, <1>5, <1>6, FilledIs
        <3>2. ASSUME NEW w \in 1 .. Len(srv)
              PROVE  w - At(i) - 2 \in 1 .. Len(d) <=> w = Off(sig, i) + 3
            BY <1>4, <1>6
        <3>3. Off(sig, i) + 3 - At(i) - 2 = 1
            BY <1>6
        <3> QED
            BY <1>4, <2>1, <3>1, <3>2, <3>3
    <2>4. ASSUME NEW j \in 1 .. n, NEW p \in 1 .. 2 + sig[j]
          PROVE  srv'[Off(sig, j) + p] = srv[Off(sig, j) + p] \/
                 (p = 1 /\ i < j /\ srv'[Off(sig, j) + p] = <<"ptr", i>>)
        <3>1. Off(sig, j) + p \in 1 .. Len(srv)
            BY <1>2, <1>5, InRequest
        <3>2. Off(sig, j) \in Nat /\ sig[j] \in Nat
            <4>1. j \in 1 .. n + 1
                BY <1>2
            <4> QED
                BY <1>2, <4>1, OffStep, SizeType
        <3>3. CASE j <= i /\ Off(sig, j) + p = Off(sig, i) + 3
            <4>1. j < i => Off(sig, j) + 2 + sig[j] <= Off(sig, i)
                <5>1. i \in 1 .. n + 1
                    BY <1>2, <1>3
                <5> QED
                    BY <1>2, <5>1, OffOrder
            <4>2. j = i => sig[j] = 0
                BY <1>1
            <4>3. p \in Nat /\ p <= 2 + sig[j]
                BY <3>2
            <4> QED
                BY <1>3, <1>6, <3>2, <3>3, <4>1, <4>2, <4>3
        <3>4. CASE i < j /\ Off(sig, j) + p = Off(sig, i) + 3
            <4>1. Off(sig, i) + 2 + sig[i] <= Off(sig, j)
                <5>1. j \in 1 .. n + 1
                    BY <1>2
                <5> QED
                    BY <1>2, <1>3, <3>4, <5>1, OffOrder
            <4>2. p = 1
                BY <1>1, <1>6, <3>2, <3>4, <4>1
            <4> QED
                BY <2>3, <3>1, <3>4, <4>2
        <3>5. CASE Off(sig, j) + p # Off(sig, i) + 3
            BY <2>3, <3>1, <3>5
        <3> QED
            BY <1>3, <3>3, <3>4, <3>5
    <2>5. ASSUME NEW j \in 1 .. n PROVE HeaderKept(j)' /\ DataKept(j)'
        <3>1. sig[j] \in Nat /\ Off(sig, j) \in Nat
            <4>1. j \in 1 .. n + 1
                BY <1>2
            <4> QED
                BY <1>2, <4>1, OffStep, SizeType
        <3>2. HeaderKept(j)'
            <4>1. 1 \in 1 .. 2 + sig[j]
                BY <3>1
            <4>2. srv'[Off(sig, j) + 1] = srv[Off(sig, j) + 1]
                  \/ (i < j /\ srv'[Off(sig, j) + 1] = <<"ptr", i>>)
                BY <2>4, <4>1
            <4>3. i < j => Exposing(sig)
                <5>1. i < j => i < n
                    BY <1>2, <1>3
                <5> QED
                    BY <1>1, <1>3, <5>1 DEF Exposing, OUT_SIZE
            <4>4. HeaderKept(j)
                BY <1>1 DEF IInv, Working
            <4> QED
                BY <1>1, <4>2, <4>3, <4>4 DEF HeaderKept
        <3>3. ASSUME NEW k \in 1 .. sig[j] PROVE srv'[Off(sig, j) + 2 + k] \in Datum(j, k)
            <4>1. 2 + k \in 1 .. 2 + sig[j] /\ 2 + k # 1
                BY <3>1
            <4>2. Off(sig, j) + (2 + k) = Off(sig, j) + 2 + k
                BY <3>1, Sum3
            <4>3. srv'[Off(sig, j) + 2 + k] = srv[Off(sig, j) + 2 + k]
                BY <2>4, <4>1, <4>2
            <4>4. srv[Off(sig, j) + 2 + k] \in Datum(j, k)
                BY <1>1 DEF IInv, Working, DataKept
            <4> QED
                BY <4>3, <4>4
        <3>4. DataKept(j)'
            BY <1>1, <3>3 DEF DataKept
        <3> QED
            BY <3>2, <3>4
    <2>6. Pointing'
        <3>1. /\ wait /\ done \subseteq 1 .. n
              /\ args \in [1 .. n -> Int] /\ heap \in [1 .. n -> Seq(Cell)]
              /\ Off(sig, n + 1) <= Len(srv) /\ Len(srv) \in Nat
            BY <1>1 DEF IInv, Pointing
        <3>2. Word("new", i, m) \in Seq(Cell) /\ Made(Word("new", i, m), i)
            BY <1>3, WordIs
        <3>3. args' \in [1 .. n -> Int] /\ heap' \in [1 .. n -> Seq(Cell)]
            <4>1. args' \in [1 .. n -> Int]
                <5>1. Heap \in Int
                    BY DEF Heap
                <5>2. args \in [1 .. n -> Int] /\ args' = [args EXCEPT ![i] = Heap]
                    BY <2>1, <3>1
                <5> QED
                    BY <5>1, <5>2
            <4>2. heap' \in [1 .. n -> Seq(Cell)]
                <5> DEFINE word == Word("new", i, m)
                <5>1. word \in Seq(Cell) /\ heap' = [heap EXCEPT ![i] = word]
                    BY <2>1, <3>2
                <5> HIDE DEF word
                <5> QED
                    BY <3>1, <5>1
            <4> QED
                BY <4>1, <4>2
        <3>4. args'[i] = Heap /\ heap'[i] = Word("new", i, m)
            BY <1>3, <2>1, <3>1
        <3>5. \A j \in 1 .. n : j # i => args'[j] = args[j] /\ heap'[j] = heap[j]
            BY <2>1, <3>1
        <3>6. \A j \in 1 .. n : \/ args[j] = Heap /\ sig[j] = OUT_SIZE /\ Made(heap[j], j)
                                \/ args[j] = Off(sig, j)
            BY <1>1 DEF IInv, Pointing
        <3>7. ASSUME NEW j \in 1 .. n
              PROVE  \/ args'[j] = Heap /\ sig[j] = OUT_SIZE /\ Made(heap'[j], j)
                     \/ args'[j] = Off(sig, j)
            BY <1>1, <3>2, <3>4, <3>5, <3>6 DEF OUT_SIZE
        <3>8. wait' /\ done' \subseteq 1 .. n /\ Off(sig, n + 1) <= Len(srv') /\ Len(srv') \in Nat
            BY <1>1, <1>3, <2>2, <3>1
        <3> QED
            BY <1>1, <3>3, <3>7, <3>8 DEF Pointing
    <2>7. Working'
        BY <1>1, <1>5, <2>2, <2>5 DEF Working
    <2> QED
        BY <1>1, <1>7, <2>1, <2>6, <2>7 DEF IInv, Quiet, Answered, Faulty
<1>9. CASE srv[At(i) + 1] # <<"len", OUT_SIZE>>
    <2>1. pc' = "fault" /\ UNCHANGED <<args, heap, srv>>
        BY <1>9 DEF rpc_arg_malloc
    <2>2. Exposing(sig)
        <3>1. HeaderKept(i)
            BY <1>1, <1>3 DEF IInv, Working
        <3> QED
            BY <1>1, <1>6, <1>9, <3>1 DEF HeaderKept, OUT_SIZE
    <2>3. Pointing'
        <3>1. Pointing
            BY DEF IInv
        <3>2. done' \subseteq 1 .. n
            BY <1>1, <1>3, <3>1 DEF Pointing
        <3> QED
            BY <1>1, <2>1, <3>1, <3>2 DEF Pointing
    <2> QED
        BY <1>1, <1>7, <2>1, <2>2, <2>3 DEF IInv, Quiet, Working, Answered, Faulty
<1> QED
    BY <1>8, <1>9

\* What RPC_SRV_END finds of an argument it can read.
LEMMA BlockIs ==
    ASSUME IInv, pc = "handler", NEW i \in 1 .. Len(sig), Readable(i)
    PROVE  /\ Block(i) \in Seq(Cell) /\ Made(Block(i), i)
           /\ Len(Block(i)) = sig[i] \/ sig[i] = OUT_SIZE
           /\ args[i] # Heap =>
                  /\ Len(Block(i)) = sig[i]
                  /\ \A k \in 1 .. sig[i] : Block(i)[k] = srv[Off(sig, i) + 2 + k]
<1> DEFINE n == Len(sig)
<1>1. n \in 0 .. 5 /\ sig \in Lengths(n)
    BY Request
<1>2. /\ heap \in [1 .. n -> Seq(Cell)]
      /\ \/ args[i] = Heap /\ sig[i] = OUT_SIZE /\ Made(heap[i], i)
         \/ args[i] = Off(sig, i)
    BY DEF IInv, Pointing
<1>3. CASE args[i] = Heap
    <2>1. Off(sig, i) # Heap
        <3>1. i \in 1 .. n + 1
            BY <1>1
        <3>2. Off(sig, i) \in Nat
            BY <1>1, <3>1, OffStep
        <3> QED
            BY <3>2 DEF Heap
    <2>2. Block(i) = heap[i] /\ sig[i] = OUT_SIZE /\ Made(heap[i], i)
        BY <1>2, <1>3, <2>1 DEF Block
    <2> QED
        BY <1>2, <1>3, <2>2
<1>4. CASE args[i] # Heap
    <2> DEFINE o == Off(sig, i)
               d == [k \in 1 .. sig[i] |-> srv[o + 2 + k]]
    <2>1. args[i] = o /\ srv[o + 1][1] = "len"
        BY <1>2, <1>4 DEF Readable
    <2>2. o \in Nat /\ sig[i] \in Nat /\ i \in Nat
        <3>1. i \in 1 .. n + 1 /\ i \in Nat
            BY <1>1
        <3>2. Off(sig, i) \in Nat
            BY <1>1, <3>1, OffStep
        <3>3. sig[i] \in Nat
            BY <1>1, SizeType
        <3> QED
            BY <3>1, <3>2, <3>3
    <2>3. HeaderKept(i) /\ DataKept(i)
        BY DEF IInv, Working
    <2>4. srv[o + 1] = <<"len", sig[i]>>
        BY <2>1, <2>3 DEF HeaderKept
    <2>5. ASSUME NEW k \in 1 .. sig[i] PROVE srv[o + 2 + k] \in Datum(i, k) /\ srv[o + 2 + k] \in Cell
        <3>1. srv[o + 2 + k] \in Datum(i, k)
            BY <2>3 DEF DataKept
        <3>2. k \in Nat
            BY <2>2
        <3> QED
            BY <2>2, <3>1, <3>2, DatumIsCell
    <2>6. d \in Seq(Cell) /\ Len(d) = sig[i] /\ \A k \in 1 .. sig[i] : d[k] = srv[o + 2 + k]
        BY <2>2, <2>5
    <2> HIDE DEF d, o
    <2>7. DataAt(srv, o) = d
        <3>1. srv[o + 1] = <<"len", Len(d)>> /\ \A k \in 1 .. Len(d) : srv[o + 2 + k] = d[k]
            BY <2>4, <2>6
        <3>2. d \in Seq(Cell) /\ o \in Nat
            BY <2>2, <2>6
        <3> QED
            BY <3>1, <3>2, Found
    <2>8. Block(i) = d
        BY <1>4, <2>1, <2>7 DEF Block
    <2>9. Made(d, i)
        BY <2>5, <2>6 DEF Made
    <2> QED
        BY <2>6, <2>8, <2>9 DEF o
<1> QED
    BY <1>3, <1>4

\* RPC_SRV_END: the reply is laid out anew, and is no shorter than the request.
LEMMA SrvEndInv == ASSUME IInv, srv_end PROVE IInv'
<1> DEFINE n == Len(sig)
           B == [i \in 1 .. n |-> Block(i)]
<1>1. pc = "handler" /\ UNCHANGED <<sig, wait, mem, made, cli, args, heap, done, ret>>
    BY DEF srv_end
<1>2. n \in 0 .. 5 /\ sig \in Lengths(n) /\ DOMAIN sig = 1 .. n
    BY <1>1, Request
<1>3. Pointing
    BY DEF IInv
<1>4. CASE \A i \in 1 .. n : Readable(i)
    <2>1. srv' = Array(B) /\ pc' = "reply"
        BY <1>2, <1>4 DEF srv_end, Reply
    <2>2. ASSUME NEW i \in 1 .. n
          PROVE  /\ B[i] \in Seq(Cell) /\ Made(B[i], i)
                 /\ Len(B[i]) = sig[i] \/ sig[i] = OUT_SIZE
        <3>1. Block(i) \in Seq(Cell) /\ Made(Block(i), i)
            BY <1>1, <1>4, BlockIs
        <3>2. Len(Block(i)) = sig[i] \/ sig[i] = OUT_SIZE
            BY <1>1, <1>4, BlockIs
        <3> QED
            BY <3>1, <3>2
    <2>3. Served(B, sig)
        BY <2>2 DEF Served
    <2>4. B \in [1 .. n -> Seq(Cell)]
        BY <2>2
    <2> HIDE DEF B, n
    <2>5. Of(B, n) \in Lengths(n) /\ \A i \in 1 .. n : Of(B, n)[i] = Len(B[i])
        BY <1>2, <2>4, OfType
    <2>6. \A i \in 1 .. n : sig[i] <= Of(B, n)[i]
        <3>1. ASSUME NEW i \in 1 .. n PROVE sig[i] <= Of(B, n)[i]
            <4>1. sig[i] \in Nat /\ Len(B[i]) \in Nat /\ Of(B, n)[i] = Len(B[i])
                BY <1>2, <2>4, <2>5, SizeType
            <4>2. Len(B[i]) = sig[i] \/ sig[i] = 0
                BY <2>2 DEF OUT_SIZE
            <4> QED
                BY <4>1, <4>2
        <3> QED
            BY <3>1
    <2>7. Off(sig, n + 1) <= Off(Of(B, n), n + 1)
        BY <1>2, <2>5, <2>6, OffGrows
    <2>8. Array(B) \in Seq(Cell) /\ Len(Array(B)) = Off(Of(B, n), n + 1)
        BY <1>2, <2>4, Layout
    <2>9. Off(sig, n + 1) <= Len(srv') /\ Len(srv') \in Nat
        BY <2>1, <2>7, <2>8
    <2>10. Pointing'
        BY <1>1, <1>3, <2>1, <2>9 DEF Pointing, n
    <2>11. Answered'
        BY <1>1, <2>1, <2>3 DEF Answered
    <2>12. Caller'
        BY <1>1, <2>1 DEF IInv, Caller, Served
    <2> QED
        BY <2>1, <2>10, <2>11, <2>12 DEF IInv, Quiet, Working, Faulty
<1>5. CASE ~ \A i \in 1 .. n : Readable(i)
    <2>1. pc' = "fault" /\ srv' = srv
        BY <1>2, <1>5 DEF srv_end
    <2>2. PICK i \in 1 .. n : ~Readable(i)
        BY <1>5
    <2>3. args[i] = Off(sig, i) /\ srv[Off(sig, i) + 1][1] # "len"
        BY <1>1, <1>3, <2>2 DEF Pointing, Readable
    <2>4. Exposing(sig)
        <3>1. HeaderKept(i)
            BY <1>1 DEF IInv, Working
        <3> QED
            BY <2>3, <3>1 DEF HeaderKept
    <2>5. Pointing'
        BY <1>1, <1>3, <2>1 DEF Pointing
    <2>6. Caller'
        BY <1>1, <2>1 DEF IInv, Caller, Served
    <2> QED
        BY <1>1, <2>1, <2>4, <2>5, <2>6 DEF IInv, Quiet, Working, Answered, Faulty
<1> QED
    BY <1>4, <1>5

LEMMA NextInv == IInv /\ [Next]_vars => IInv'
<1> SUFFICES ASSUME IInv, [Next]_vars PROVE IInv'
    OBVIOUS
<1>1. ASSUME NEW s \in Sig, cli_call(s) \/ cli_null(s) PROVE IInv'
    BY <1>1, CallInv
<1>2. CASE cli_sent \/ cli_return \/ cli_return_bare \/ cli_fails
    BY <1>2, ReturnInv
<1>3. CASE srv_begin
    BY <1>3, BeginInv
<1>4. ASSUME NEW i \in 1 .. 5, handler_write(i) PROVE IInv'
    BY <1>4, WriteInv
<1>5. ASSUME NEW i \in 1 .. 5, NEW n \in OutLen, rpc_arg_malloc(i, n) PROVE IInv'
    BY <1>5, MallocInv
<1>6. CASE srv_end
    BY <1>6, SrvEndInv
<1>7. CASE UNCHANGED vars
    BY <1>7 DEF vars, IInv, Caller, Quiet, Pointing, Working, Answered, Faulty, Served, HeaderKept, DataKept
<1> QED
    BY <1>1, <1>2, <1>3, <1>4, <1>5, <1>6, <1>7 DEF Next

LEMMA ExposedIs == IInv => (Exposed <=> Exposing(sig))
<1> SUFFICES ASSUME IInv PROVE Exposed <=> Exposing(sig)
    OBVIOUS
<1>1. DOMAIN sig = 1 .. Len(sig)
    BY SigIs DEF IInv, Caller
<1> QED
    BY <1>1 DEF Exposed, Exposing

\* Whatever the signatures and the lengths of out arguments: the caller's arguments are
\* made of words that were given or that the handler wrote for that argument, and the
\* server's pointers point at whole headers (rpc_helper.h:178-270).
THEOREM TypeCorrect == Spec => []TypeOK
<1>1. IInv => TypeOK
    <2> SUFFICES ASSUME IInv PROVE TypeOK
        OBVIOUS
    <2> DEFINE n == Len(sig)
    <2>1. n \in 0 .. 5 /\ sig \in Lengths(n) /\ DOMAIN sig = 1 .. n
        BY SigIs DEF IInv, Caller
    <2>2. DOMAIN mem = 1 .. n /\ \A i \in 1 .. n : Made(mem[i], i) /\ DOMAIN mem[i] = 1 .. Len(mem[i])
        BY DEF IInv, Caller, Served
    <2>3. \A i \in DOMAIN mem : \A k \in DOMAIN mem[i] : mem[i][k] \in {<<"old", i, k>>, <<"new", i, k>>}
        BY <2>2 DEF Made, Datum
    <2>4. pc \in {"idle", "call"} \/ pc \in {"handler", "reply", "fault", "abort"}
        BY DEF IInv, Caller
    <2>5. done \subseteq 1 .. n /\ DOMAIN heap = DOMAIN args
        BY <2>4 DEF IInv, Quiet, Pointing
    <2>6. ASSUME NEW i \in DOMAIN args PROVE args[i] = Heap \/ args[i] + Header <= Len(srv)
        <3>1. pc \in {"handler", "reply", "fault", "abort"}
            <4>1. DOMAIN <<>> = {}
                OBVIOUS
            <4> QED
                BY <2>4, <4>1 DEF IInv, Quiet
        <3>2. /\ i \in 1 .. n
              /\ args[i] = Heap \/ args[i] = Off(sig, i)
              /\ Off(sig, n + 1) <= Len(srv) /\ Len(srv) \in Nat
            BY <3>1 DEF IInv, Pointing
        <3> HIDE DEF n
        <3>3. Off(sig, i) + 2 + sig[i] <= Off(sig, n + 1)
            <4>1. n + 1 \in 1 .. n + 1 /\ i < n + 1
                BY <2>1, <3>2
            <4> QED
                BY <2>1, <3>2, <4>1, OffOrder
        <3>4. Off(sig, i) \in Nat /\ Off(sig, n + 1) \in Nat /\ sig[i] \in Nat
            <4>1. i \in 1 .. n + 1 /\ n + 1 \in 1 .. n + 1
                BY <2>1, <3>2
            <4> QED
                BY <2>1, <3>2, <4>1, OffStep, SizeType
        <3> QED
            BY <3>2, <3>3, <3>4 DEF Header
    <2> QED
        BY <2>1, <2>2, <2>3, <2>5, <2>6 DEF TypeOK, IInv, Caller
<1> QED
    BY InitInv, NextInv, <1>1, PTL DEF Spec

\* The stubs fault on no signature but those with an argument behind an out argument,
\* where rpc_arg_malloc stores its pointer in the next header (module.c:439).
THEOREM FaultsBehindOut == Spec => []FaultOnlyBehindOut
<1>1. IInv => FaultOnlyBehindOut
    BY ExposedIs DEF IInv, Faulty, FaultOnlyBehindOut
<1> QED
    BY InitInv, NextInv, <1>1, PTL DEF Spec

-----------------------------------------------------------------------------
(* The call seen by its caller: the steps of LocalCall.                    *)

LEMMA ViewIs ==
    /\ pc = "handler" => View = [i \in DOMAIN sig |-> Block(i)]
    /\ pc \notin {"handler", "reply"} => View = mem
BY DEF View

\* Between the stubs the reply holds what the handler has made.
LEMMA ViewOfReply ==
    ASSUME IInv, pc = "reply", NEW B, Served(B, sig), srv = Array(B)
    PROVE  View = B
<1> DEFINE n == Len(sig)
<1>1. n \in 0 .. 5 /\ DOMAIN sig = 1 .. n
    BY SigIs DEF IInv, Caller
<1>2. B \in [1 .. n -> Seq(Cell)]
    BY DEF Served
<1>3. View = [i \in 1 .. n |-> DataAt(srv, Offsets(srv, n)[i])]
    BY <1>1 DEF View
<1> HIDE DEF n
<1>4. Offsets(srv, n) = [i \in 1 .. n |-> Off(Of(B, n), i)]
    BY <1>1, <1>2, ReadBack
<1>5. \A i \in 1 .. n : DataAt(srv, Off(Of(B, n), i)) = B[i]
    BY <1>1, <1>2, ReadBack
<1>6. View = [i \in 1 .. n |-> B[i]]
    BY <1>3, <1>4, <1>5
<1> QED
    BY <1>2, <1>6

LEMMA LocalData == \A origin, i, n : Local!Data(origin, i, n) = Word(origin, i, n)
BY DEF Local!Data, Word

LEMMA LocalOuts == Local!Outs = Outs(sig)
BY DEF Local!Outs, Outs, OUT_SIZE

LEMMA CallRefines ==
    ASSUME IInv, NEW s \in Sig, cli_call(s) \/ cli_null(s)
    PROVE  Local!Next
<1>1. mem' = [i \in DOMAIN s |-> Local!Data("old", i, s[i])]
    BY LocalData DEF cli_call, cli_null, Given
<1>2. CASE cli_call(s)
    <2>1. pc = "idle" /\ pc' = "call" /\ sig' = s /\ wait' \in BOOLEAN /\ made' = {} /\ ret' = ret
        BY <1>2 DEF cli_call
    <2>2. View' = mem'
        BY <2>1 DEF View
    <2>3. Local!Call(s)
        BY <1>1, <2>1, <2>2 DEF Local!Call, Local!Enter
    <2> QED
        BY <2>3 DEF Local!Next
<1>3. CASE cli_null(s)
    <2>1. pc = "idle" /\ pc' = "idle" /\ sig' = s /\ wait' = wait /\ made' = {} /\ ret' = SUCCESS
        BY <1>3 DEF cli_null
    <2>2. View' = mem'
        BY <2>1 DEF View
    <2>3. Local!Skip(s)
        BY <1>1, <2>1, <2>2 DEF Local!Skip, Local!Enter
    <2> QED
        BY <2>3 DEF Local!Next
<1> QED
    BY <1>2, <1>3

LEMMA ReturnRefines ==
    ASSUME IInv, cli_sent \/ cli_return \/ cli_return_bare \/ cli_fails, pc' # "abort"
    PROVE  Local!Next
<1>1. pc' = "idle" /\ pc \notin {"idle", "abort"} /\ UNCHANGED <<sig, wait>>
    BY DEF cli_sent, cli_return, cli_return_bare, cli_fails, Leave
<1>2. View' = mem'
    BY <1>1 DEF View
<1>3. CASE cli_sent
    <2>1. mem' = mem /\ made' = made /\ ~wait /\ ret' = SUCCESS
        BY <1>3 DEF cli_sent, Leave
    <2>2. Local!Leave
        BY <1>1, <1>2, <2>1 DEF Local!Leave
    <2> QED
        BY <2>2 DEF Local!Next
<1>4. CASE cli_return \/ cli_return_bare
    <2>1. pc = "reply" /\ cli_end(srv) /\ ret' = SUCCESS
        BY <1>4 DEF cli_return, cli_return_bare, Leave
    <2>2. Served(mem', sig) /\ srv = Array(mem') /\ made' = Outs(sig)
        BY <2>1, ReplyIs
    <2>3. View = mem'
        BY <2>1, <2>2, ViewOfReply
    <2>4. wait
        BY <2>1 DEF IInv, Pointing
    <2>5. Local!Return
        BY <1>1, <1>2, <2>1, <2>2, <2>3, <2>4, LocalOuts DEF Local!Return
    <2> QED
        BY <2>5 DEF Local!Next
<1>5. CASE cli_fails
    <2>1. pc # "idle" /\ cli_end(cli) /\ ret' = FAILURE /\ wait
        BY <1>5 DEF cli_fails, Leave
    <2>2. cli = Array(Given(sig)) /\ sig \in Sig \cup {<<>>} /\ mem = Given(sig)
        BY <2>1 DEF IInv, Caller
    <2>3. Served(Given(sig), sig)
        BY <2>2, GivenIs
    <2>4. mem' = mem /\ made' = Outs(sig)
        BY <2>1, <2>2, <2>3, EndIs
    <2>5. Local!Fail
        BY <1>1, <1>2, <2>1, <2>4, LocalOuts DEF Local!Fail
    <2> QED
        BY <2>5 DEF Local!Next
<1> QED
    BY <1>3, <1>4, <1>5

\* In the handler's hands, of a call with no argument behind an out argument, every
\* header is whole: the handler's view is its blocks.
LEMMA AllReadable ==
    ASSUME IInv, pc = "handler", ~Exposing(sig), NEW i \in 1 .. Len(sig)
    PROVE  Readable(i) /\ srv[Off(sig, i) + 1] = <<"len", sig[i]>>
<1>1. srv[Off(sig, i) + 1] = <<"len", sig[i]>>
    BY DEF IInv, Working, HeaderKept
<1>2. args[i] = Heap \/ args[i] = Off(sig, i)
    BY DEF IInv, Pointing
<1> QED
    BY <1>1, <1>2 DEF Readable

\* The server takes the arguments over as they are.
LEMMA BeginRefines ==
    ASSUME IInv, IInv', srv_begin, ~Exposing(sig)
    PROVE  UNCHANGED Local!vars
<1> DEFINE n == Len(sig)
<1>1. /\ pc = "call" /\ pc' = "handler" /\ UNCHANGED <<sig, wait, mem, made, cli, ret>>
      /\ args' = Offsets(cli, n)
    BY DEF srv_begin
<1>2. n \in 0 .. 5 /\ sig \in Lengths(n) /\ DOMAIN sig = 1 .. n
    BY <1>1, Request
<1>3. View = mem /\ mem = Given(sig) /\ View' = [i \in 1 .. n |-> Block(i)']
    BY <1>1, <1>2 DEF View, IInv, Caller
<1>4. sig \in Sig \cup {<<>>}
    BY DEF IInv, Caller
<1>5. ASSUME NEW i \in 1 .. n PROVE Block(i)' = Given(sig)[i]
    <2>1. args'[i] = Off(sig, i)
        <3>1. Offsets(cli, n) = [k \in 1 .. n |-> Off(sig, k)]
            BY <1>1, Request
        <3> QED
            BY <1>1, <3>1
    <2>2. Off(sig, i) \in Nat /\ sig[i] \in Nat
        <3>1. i \in 1 .. n + 1
            BY <1>2
        <3> QED
            BY <1>2, <3>1, OffStep, SizeType
    <2>3. Block(i)' = DataAt(srv', Off(sig, i))
        BY <2>1, <2>2 DEF Block, Heap
    <2>4. Given(sig)[i] \in Seq(Cell) /\ Len(Given(sig)[i]) = sig[i]
        BY <1>4, GivenIs DEF Served
    <2>5. srv'[Off(sig, i) + 1] = <<"len", sig[i]>>
        BY <1>1 DEF IInv, Working, HeaderKept
    <2>6. ASSUME NEW k \in 1 .. sig[i] PROVE srv'[Off(sig, i) + 2 + k] = Given(sig)[i][k]
        <3>1. srv' = [w \in DOMAIN cli |->
                  IF \E j \in DOMAIN sig : w = args'[j] + 2 /\ LenAt(cli, args'[j]) = OUT_SIZE
                  THEN <<"ref", 0>> ELSE cli[w]]
            BY DEF srv_begin
        <3>2. Off(sig, i) + 2 + k \in DOMAIN cli
            <4>1. 2 + k \in 1 .. 2 + sig[i] /\ Off(sig, i) + (2 + k) = Off(sig, i) + 2 + k
                BY <2>2
            <4>2. Off(sig, i) + (2 + k) \in 1 .. Off(sig, n + 1)
                BY <1>2, <4>1, InRequest
            <4>3. cli \in Seq(Cell) /\ Len(cli) = Off(sig, n + 1)
                BY <1>1, Request
            <4>4. DOMAIN cli = 1 .. Off(sig, n + 1)
                BY <4>3
            <4> QED
                BY <4>1, <4>2, <4>4
        <3>3. srv'[Off(sig, i) + 2 + k] = <<"ref", 0>> \/ srv'[Off(sig, i) + 2 + k] = cli[Off(sig, i) + 2 + k]
            BY <3>1, <3>2
        <3>4. srv'[Off(sig, i) + 2 + k] # <<"ref", 0>>
            <4>1. srv'[Off(sig, i) + 2 + k] \in Datum(i, k)
                BY <1>1 DEF IInv, Working, DataKept
            <4> QED
                BY <4>1 DEF Datum
        <3>5. cli[Off(sig, i) + 2 + k] = Given(sig)[i][k]
            <4>1. Laid(cli, Given(sig), n, i)
                BY <1>1, Request
            <4>2. Of(Given(sig), n) = sig
                BY <1>4, GivenIs
            <4> QED
                BY <2>4, <4>1, <4>2 DEF Laid
        <3> QED
            BY <3>3, <3>4, <3>5
    <2> DEFINE d == Given(sig)[i]
               o == Off(sig, i)
    <2>7. d \in Seq(Cell) /\ o \in Nat /\ srv'[o + 1] = <<"len", Len(d)>>
          /\ \A k \in 1 .. Len(d) : srv'[o + 2 + k] = d[k]
        BY <2>2, <2>4, <2>5, <2>6
    <2> HIDE DEF d, o
    <2>8. DataAt(srv', o) = d
        BY <2>7, Found
    <2> QED
        BY <2>3, <2>8 DEF d, o
<1>6. Given(sig) = [i \in 1 .. n |-> Given(sig)[i]]
    BY <1>4, GivenIs DEF Served
<1>7. View' = View
    BY <1>3, <1>5, <1>6
<1> QED
    BY <1>1, <1>7 DEF Local!vars

\* The handler changes one argument.
LEMMA WriteRefines ==
    ASSUME IInv, IInv', NEW i \in 1 .. 5, handler_write(i), ~Exposing(sig)
    PROVE  Local!Next
<1> DEFINE n == Len(sig)
           d == Word("new", i, sig[i])
<1>1. /\ pc = "handler" /\ i \in DOMAIN sig \ done
      /\ srv' = Filled(At(i), d)
      /\ sig[i] # OUT_SIZE
      /\ UNCHANGED <<pc, sig, wait, mem, made, cli, args, heap, ret>>
    BY DEF handler_write
<1>2. n \in 0 .. 5 /\ sig \in Lengths(n) /\ DOMAIN sig = 1 .. n
    BY <1>1, Request
<1>3. i \in 1 .. n /\ i \in Nat /\ sig[i] \in Nat
    <2>1. i \in 1 .. n /\ i \in Nat
        BY <1>1, <1>2
    <2>2. sig[i] \in Nat
        BY <1>2, <2>1, SizeType
    <2> QED
        BY <2>1, <2>2
<1>4. d \in Seq(Cell) /\ Len(d) = sig[i] /\ \A k \in 1 .. sig[i] : d[k] = <<"new", i, k>>
    BY <1>3, WordIs
<1> HIDE DEF d
<1>5. View = [j \in 1 .. n |-> Block(j)] /\ View' = [j \in 1 .. n |-> Block(j)']
    BY <1>1, <1>2 DEF View
<1>6. \A j \in 1 .. n : Readable(j) /\ Readable(j)'
    <2>1. Len(sig') = n /\ sig' = sig /\ pc' = "handler"
        BY <1>1
    <2>2. \A j \in 1 .. n : Readable(j)
        BY <1>1, AllReadable
    <2>3. ASSUME NEW j \in 1 .. n PROVE Readable(j)'
        <3>1. srv'[Off(sig, j) + 1] = <<"len", sig[j]>>
            BY <2>1 DEF IInv, Working, HeaderKept
        <3>2. args'[j] = Heap \/ args'[j] = Off(sig, j)
            BY <2>1 DEF IInv, Pointing
        <3> QED
            BY <3>1, <3>2 DEF Readable
    <2> QED
        BY <2>2, <2>3
<1>7. ASSUME NEW j \in 1 .. n PROVE Block(j)' = IF j = i THEN d ELSE Block(j)
    <2>1. args'[j] = args[j] /\ heap'[j] = heap[j]
        BY <1>1
    <2>2. CASE args[j] = Heap
        <3>1. sig[j] = OUT_SIZE
            <4>1. Off(sig, j) # Heap
                <5>1. j \in 1 .. n + 1
                    BY <1>2
                <5>2. Off(sig, j) \in Nat
                    BY <1>2, <5>1, OffStep
                <5> QED
                    BY <5>2 DEF Heap
            <4> QED
                BY <1>1, <2>2, <4>1 DEF IInv, Pointing
        <3> QED
            BY <1>1, <2>1, <2>2, <3>1 DEF Block
    <2>3. CASE args[j] # Heap
        <3>1. Block(j) \in Seq(Cell) /\ Len(Block(j)) = sig[j]
              /\ \A k \in 1 .. sig[j] : Block(j)[k] = srv[Off(sig, j) + 2 + k]
            BY <1>1, <1>6, <2>3, BlockIs
        <3>2. sig[j] \in Nat /\ Off(sig, j) \in Nat
            <4>1. j \in 1 .. n + 1
                BY <1>2
            <4> QED
                BY <1>2, <4>1, OffStep, SizeType
        <3> DEFINE new == IF j = i THEN d ELSE Block(j)
                   o == Off(sig, j)
        <3>3. new \in Seq(Cell) /\ Len(new) = sig[j]
            BY <1>4, <3>1
        <3>4. args[j] = o
            BY <1>1, <2>3 DEF IInv, Pointing
        <3>5. srv'[o + 1] = <<"len", sig[j]>>
            BY <1>1 DEF IInv, Working, HeaderKept
        <3>6. ASSUME NEW k \in 1 .. sig[j] PROVE srv'[o + 2 + k] = new[k]
            <4>1. 2 + k \in 1 .. 2 + sig[j] /\ 2 + k > 2 /\ (2 + k) - 2 = k /\ o + (2 + k) = o + 2 + k
                BY <3>2
            <4>2. srv'[o + (2 + k)] = IF j = i /\ 2 + k > 2 THEN d[(2 + k) - 2] ELSE srv[o + (2 + k)]
                BY <1>1, <1>3, <1>4, <4>1, FilledOwn
            <4> QED
                BY <3>1, <4>1, <4>2
        <3> HIDE DEF new, o
        <3>7. DataAt(srv', o) = new
            <4>1. o \in Nat /\ srv'[o + 1] = <<"len", Len(new)>> /\ \A k \in 1 .. Len(new) : srv'[o + 2 + k] = new[k]
                BY <3>2, <3>3, <3>5, <3>6 DEF o
            <4> QED
                BY <3>3, <4>1, Found
        <3>8. Block(j)' = DataAt(srv', o)
            BY <2>1, <2>3, <3>4 DEF Block
        <3> QED
            BY <3>7, <3>8 DEF new
    <2> QED
        BY <2>2, <2>3
<1>8. View' = [View EXCEPT ![i] = d]
    BY <1>3, <1>5, <1>7
<1>9. wait
    BY <1>1 DEF IInv, Pointing
<1>10. Local!Data("new", i, sig[i]) = d
    BY LocalData DEF d
<1>11. Local!Change(i, sig[i])
    BY <1>1, <1>2, <1>3, <1>8, <1>9, <1>10 DEF Local!Change
<1> QED
    BY <1>2, <1>3, <1>11 DEF Local!Next

\* The handler makes an out argument, the last: its pointer goes behind the array.
LEMMA MallocRefines ==
    ASSUME IInv, IInv', NEW i \in 1 .. 5, NEW m \in OutLen, rpc_arg_malloc(i, m), ~Exposing(sig)
    PROVE  Local!Next
<1> DEFINE n == Len(sig)
           d == Word("new", i, m)
<1>1. /\ pc = "handler" /\ i \in DOMAIN sig \ done /\ sig[i] = 0
      /\ UNCHANGED <<sig, wait, mem, made, cli, ret>>
    BY DEF rpc_arg_malloc, OUT_SIZE
<1>2. n \in 0 .. 5 /\ sig \in Lengths(n) /\ DOMAIN sig = 1 .. n
    BY <1>1, Request
<1>3. i = n /\ i \in 1 .. n
    <2>1. i \in 1 .. n
        BY <1>1, <1>2
    <2>2. ~ (i < n)
        BY <1>1, <2>1 DEF Exposing, OUT_SIZE
    <2>3. n \in 0 .. 5
        BY <1>2
    <2> HIDE DEF n
    <2>4. i = n
        BY <2>1, <2>2, <2>3
    <2> QED
        BY <2>1, <2>4
<1>4. At(i) = Off(sig, i) /\ Off(sig, i) \in Nat
    <2>1. Offsets(cli, n) = [k \in 1 .. n |-> Off(sig, k)]
        BY <1>1, Request
    <2>2. i \in 1 .. n + 1
        BY <1>2, <1>3
    <2>3. Off(sig, i) \in Nat
        BY <1>2, <2>2, OffStep
    <2> QED
        BY <1>3, <2>1, <2>3 DEF At
<1>5. srv[At(i) + 1] = <<"len", OUT_SIZE>>
    <2>1. srv[Off(sig, i) + 1] = <<"len", sig[i]>>
        BY <1>1, <1>3, AllReadable
    <2> QED
        BY <1>1, <1>4, <2>1 DEF OUT_SIZE
<1>6. /\ args' = [args EXCEPT ![i] = Heap] /\ heap' = [heap EXCEPT ![i] = d]
      /\ srv' = Filled(At(i), <<<<"ptr", i>>>>) /\ pc' = pc
    BY <1>5 DEF rpc_arg_malloc
<1>7. srv \in Seq(Cell) /\ Len(srv) = Off(sig, n + 1)
    BY <1>1 DEF IInv, Working
<1>8. srv' = srv
    <2> DEFINE p == <<<<"ptr", i>>>>
    <2>1. p \in Seq(Cell) /\ Len(p) = 1
        BY <1>3 DEF Cell
    <2>2. Off(sig, n + 1) = Off(sig, i) + 2
        <3>1. Off(sig, n + 1) = Off(sig, n) + Size(sig, n)
            BY <1>2, <1>3, OffStep
        <3> QED
            BY <1>1, <1>3, <1>4, <3>1 DEF Size, Header
    <2> HIDE DEF p
    <2>3. Filled(At(i), p) \in Seq(Cell) /\ Len(Filled(At(i), p)) = Len(srv)
        BY <1>4, <1>7, <2>1, FilledIs
    <2>4. \A w \in 1 .. Len(srv) : Filled(At(i), p)[w] =
              IF w - At(i) - 2 \in 1 .. Len(p) THEN p[w - At(i) - 2] ELSE srv[w]
        BY <1>4, <1>7, <2>1, FilledIs
    <2>5. \A w \in 1 .. Len(srv) : ~ (w - At(i) - 2 \in 1 .. Len(p))
        BY <1>4, <1>7, <2>1, <2>2
    <2>6. \A w \in 1 .. Len(srv) : Filled(At(i), p)[w] = srv[w]
        BY <2>4, <2>5
    <2>7. Filled(At(i), p) = srv
        BY <1>7, <2>3, <2>6, SeqEqual
    <2> QED
        BY <1>6, <2>7 DEF p
<1>9. args \in [1 .. n -> Int] /\ heap \in [1 .. n -> Seq(Cell)] /\ wait
    BY <1>1 DEF IInv, Pointing
<1> HIDE DEF d
<1>10. ASSUME NEW j \in 1 .. n PROVE Block(j)' = IF j = i THEN d ELSE Block(j)
    BY <1>3, <1>6, <1>8, <1>9 DEF Block
<1>11. View = [j \in 1 .. n |-> Block(j)] /\ View' = [j \in 1 .. n |-> Block(j)']
    BY <1>1, <1>2, <1>6 DEF View
<1>12. View' = [View EXCEPT ![i] = d]
    BY <1>3, <1>10, <1>11
<1>13. Local!Data("new", i, m) = d
    BY LocalData DEF d
<1>14. Local!Change(i, m)
    BY <1>1, <1>2, <1>3, <1>6, <1>9, <1>12, <1>13 DEF Local!Change
<1> QED
    BY <1>2, <1>3, <1>14 DEF Local!Next

\* Packing the reply changes nothing of what is in it.
LEMMA SrvEndRefines ==
    ASSUME IInv, IInv', srv_end, ~Exposing(sig)
    PROVE  UNCHANGED Local!vars
<1> DEFINE n == Len(sig)
           B == [i \in 1 .. n |-> Block(i)]
<1>1. pc = "handler" /\ UNCHANGED <<sig, wait, mem, made, cli, args, heap, done, ret>>
    BY DEF srv_end
<1>2. n \in 0 .. 5 /\ DOMAIN sig = 1 .. n
    BY <1>1, Request
<1>3. \A i \in 1 .. n : Readable(i)
    BY <1>1, AllReadable
<1>4. srv' = Array(B) /\ pc' = "reply"
    BY <1>2, <1>3 DEF srv_end, Reply
<1>5. ASSUME NEW i \in 1 .. n PROVE Block(i) \in Seq(Cell)
    BY <1>1, <1>3, BlockIs
<1>6. B \in [1 .. n -> Seq(Cell)]
    BY <1>5
<1>7. View = B
    BY <1>1, <1>2 DEF View
<1>8. View' = [i \in 1 .. n |-> DataAt(srv', Offsets(srv', n)[i])]
    BY <1>1, <1>2, <1>4 DEF View
<1> HIDE DEF B, n
<1>9. Offsets(srv', n) = [i \in 1 .. n |-> Off(Of(B, n), i)]
    BY <1>2, <1>4, <1>6, ReadBack
<1>10. \A i \in 1 .. n : DataAt(srv', Off(Of(B, n), i)) = B[i]
    BY <1>2, <1>4, <1>6, ReadBack
<1>11. View' = [i \in 1 .. n |-> B[i]]
    BY <1>8, <1>9, <1>10
<1>12. View' = View
    BY <1>6, <1>7, <1>11
<1> QED
    BY <1>1, <1>4, <1>12 DEF Local!vars

\* To its caller a remote call is a local one, for all signatures without an argument
\* behind an out argument and all lengths of the last, unless the caller dies of it: its
\* effects arrive together when it returns, and when it fails nothing has happened but to
\* the out pointers, which are set in either case (rpc_helper.h:178-270).
THEOREM ImplementsLocal == Spec => LocalSpec
<1>1. Init => Local!Init
    BY DEF Init, Local!Init, View
<1>2. IInv /\ IInv' /\ [Next]_vars => [~Exposed' /\ pc' # "abort" => Local!Next]_(Local!vars)
    <2> SUFFICES ASSUME IInv, IInv', [Next]_vars, ~Exposed', pc' # "abort"
                 PROVE  Local!Next \/ UNCHANGED Local!vars
        OBVIOUS
    <2>1. ~Exposing(sig')
        BY ExposedIs DEF IInv, Caller, Exposed, Exposing
    <2>2. sig' = sig => ~Exposing(sig)
        BY <2>1
    <2>3. ASSUME NEW s \in Sig, cli_call(s) \/ cli_null(s) PROVE Local!Next
        BY <2>3, CallRefines
    <2>4. CASE cli_sent \/ cli_return \/ cli_return_bare \/ cli_fails
        BY <2>4, ReturnRefines
    <2>5. CASE srv_begin
        BY <2>2, <2>5, BeginRefines DEF srv_begin
    <2>6. ASSUME NEW i \in 1 .. 5, handler_write(i) PROVE Local!Next
        BY <2>2, <2>6, WriteRefines DEF handler_write
    <2>7. ASSUME NEW i \in 1 .. 5, NEW m \in OutLen, rpc_arg_malloc(i, m) PROVE Local!Next
        BY <2>2, <2>7, MallocRefines DEF rpc_arg_malloc
    <2>8. CASE srv_end
        BY <2>2, <2>8, SrvEndRefines DEF srv_end
    <2>9. CASE UNCHANGED vars
        BY <2>9 DEF vars, Local!vars, View, Block, DataAt, LenAt, Offsets, Step
    <2> QED
        BY <2>3, <2>4, <2>5, <2>6, <2>7, <2>8, <2>9 DEF Next
<1>3. IInv /\ [Next]_vars => IInv'
    BY NextInv
<1> QED
    BY InitInv, <1>1, <1>2, <1>3, PTL DEF Spec, LocalSpec
=============================================================================
