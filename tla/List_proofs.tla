---------------------------- MODULE List_proofs ----------------------------
(***************************************************************************)
(* Proofs about List, for every set of nodes and every index, as long as   *)
(* the only node is not removed: list_remove(list, -1) of it leaves the    *)
(* tail pointing at it.                                                    *)
(***************************************************************************)
EXTENDS List, TLAPS, SequenceTheorems, FiniteSetTheorems, WellFoundedInduction

KeepsOne == MinLeft > 0

\* The element at place k, Nil before the first and behind the last.
Elem(s, k) == IF k \in 1 .. Len(s) THEN s[k] ELSE Nil

\* The pointers across the gap behind element i: to the element after it, and
\* to the one before it.
After(s, i) == IF i = 0 THEN HeadPtr ELSE NextOf(s[i])
Before(s, i) == IF i = Len(s) THEN TailPtr ELSE PrevOf(s[i + 1])

\* Pointers q link the elements of s, each once, in both directions.
Linked(q, s) ==
    /\ s \in Seq(Node)
    /\ \A i, j \in 1 .. Len(s) : s[i] = s[j] => i = j
    /\ \A i \in 0 .. Len(s) : q[After(s, i)] = Elem(s, i + 1) /\ q[Before(s, i)] = Elem(s, i)

\* A list of n nodes, of those in u, whose elements are s.
ListAs(q, n, u, s) == Linked(q, s) /\ n = Len(s) /\ \A i \in 1 .. Len(s) : s[i] \in u

\* A node that was not used yet points nowhere.
Fresh == \A x \in Node \ used : ptr[NextOf(x)] = Nil /\ ptr[PrevOf(x)] = Nil

\* What an iterator at negative index i has yet to reach.
RestOf(s, i) == [k \in 1 .. -1 - i |-> s[Len(s) + 1 + i + k]]

\* What an undisturbed iteration has seen, and has yet to reach, was there when it
\* began.
Reaches(s, i, sn, w) == i \in -1 - Len(s) .. -1 /\ w = sn \o RestOf(s, i)
Iterating == whole # Nil => Reaches(Contents, iter, seen, whole)

IInv == TypeOK /\ ~fault /\ Fresh /\ ListAs(ptr, size, used, Contents) /\ Iterating

-----------------------------------------------------------------------------
(* Numbers, pointers, and sequences with an element more or less. *)


\* There is a well-founded relation that contains < on the naturals.
LEMMA LessIsWellFounded ==
    \E R : IsWellFoundedOn(R, Nat) /\ \A a, b \in Nat : a < b => <<a, b>> \in R
<1>1. \A a, b \in Nat : a < b => <<a, b>> \in OpToRel(<, Nat)
    <2> SUFFICES ASSUME NEW a \in Nat, NEW b \in Nat, a < b
                 PROVE  <<a, b>> \in OpToRel(<, Nat)
        BY Zenon
    <2>1. <<a, b>> \in Nat \X Nat /\ <<a, b>>[1] < <<a, b>>[2]
        OBVIOUS
    <2> QED
        BY <2>1, Zenon DEF OpToRel
<1> QED
    BY <1>1, NatLessThanWellFounded, Zenon

\* A set of naturals that is not empty has a least element.
LEMMA LeastElement ==
    ASSUME NEW T, T \subseteq Nat, T # {}
    PROVE  \E i \in T : \A j \in T : i <= j
<1>1. PICK R : IsWellFoundedOn(R, Nat) /\ \A a, b \in Nat : a < b => <<a, b>> \in R
    BY LessIsWellFounded, Zenon
<1>2. IsWellFoundedOn(R, Nat)
    BY <1>1, Zenon
<1>3. PICK i \in T : \A j \in T : ~ (<<j, i>> \in R)
    BY <1>2, WFMin, Zenon
<1>4. ASSUME NEW j \in T PROVE i <= j
    <2>1. i \in Nat /\ j \in Nat
        OBVIOUS
    <2>2. ~ (j < i)
        BY <1>1, <1>3, <2>1, Zenon
    <2> QED
        BY <2>1, <2>2
<1> QED
    BY <1>4

LEMMA Distinct ==
    /\ HeadPtr # TailPtr /\ HeadPtr # Out /\ TailPtr # Out
    /\ \A x : NextOf(x) \notin {HeadPtr, TailPtr, Out} /\ PrevOf(x) \notin {HeadPtr, TailPtr, Out}
    /\ \A x, y : NextOf(x) # PrevOf(y)
    /\ \A x, y : NextOf(x) = NextOf(y) => x = y
    /\ \A x, y : PrevOf(x) = PrevOf(y) => x = y
BY DEF HeadPtr, TailPtr, Out, NextOf, PrevOf

LEMMA Located ==
    /\ HeadPtr \in Loc /\ TailPtr \in Loc
    /\ \A x \in Node : NextOf(x) \in Loc /\ PrevOf(x) \in Loc
BY DEF Loc, NextOf, PrevOf

\* Where the pointers across a gap lie, and that no two are the same.
LEMMA Gaps ==
    ASSUME NEW q, NEW s, Linked(q, s)
    PROVE  /\ Len(s) \in Nat
           /\ \A k \in 1 .. Len(s) : s[k] \in Node /\ Elem(s, k) = s[k] /\ s[k] # Nil
           /\ Elem(s, 0) = Nil /\ Elem(s, Len(s) + 1) = Nil
           /\ \A i \in 0 .. Len(s) : After(s, i) \in Loc /\ Before(s, i) \in Loc
           /\ \A i, j \in 0 .. Len(s) :
                 /\ After(s, i) # Before(s, j) /\ After(s, i) # Out /\ Before(s, i) # Out
                 /\ After(s, i) = After(s, j) => i = j
                 /\ Before(s, i) = Before(s, j) => i = j
<1> DEFINE n == Len(s)
<1>1. s \in Seq(Node) /\ n \in Nat
    BY DEF Linked
<1>2. \A k \in 1 .. n : s[k] \in Node
    BY <1>1
<1>3. \A i, j \in 1 .. n : s[i] = s[j] => i = j
    BY DEF Linked
<1> HIDE DEF n
<1>4. \A k \in 1 .. n : Elem(s, k) = s[k] /\ s[k] # Nil
    BY <1>2, NodeAssumption DEF Elem, n
<1>5. Elem(s, 0) = Nil /\ Elem(s, n + 1) = Nil
    BY <1>1 DEF Elem, n
<1>6. ASSUME NEW i \in 0 .. n PROVE After(s, i) \in Loc /\ Before(s, i) \in Loc
    <2>1. i = 0 \/ i \in 1 .. n
        BY <1>1
    <2>2. i = n \/ i + 1 \in 1 .. n
        BY <1>1
    <2> QED
        BY <1>2, <2>1, <2>2, Located DEF After, Before, n
<1>7. ASSUME NEW i \in 0 .. n, NEW j \in 0 .. n
      PROVE  /\ After(s, i) # Before(s, j) /\ After(s, i) # Out /\ Before(s, i) # Out
             /\ After(s, i) = After(s, j) => i = j
             /\ Before(s, i) = Before(s, j) => i = j
    <2>1. /\ i = 0 \/ i \in 1 .. n
          /\ j = 0 \/ j \in 1 .. n
        BY <1>1
    <2>2. /\ i = n \/ i + 1 \in 1 .. n
          /\ j = n \/ j + 1 \in 1 .. n
          /\ i + 1 = j + 1 => i = j
        BY <1>1
    <2>3. After(s, i) # Before(s, j) /\ After(s, i) # Out /\ Before(s, i) # Out
        BY Distinct DEF After, Before
    <2>4. After(s, i) = After(s, j) => i = j
        BY <1>3, <2>1, Distinct DEF After
    <2>5. Before(s, i) = Before(s, j) => i = j
        BY <1>3, <2>2, Distinct DEF Before, n
    <2> QED
        BY <2>3, <2>4, <2>5
<1> QED
    BY <1>1, <1>2, <1>4, <1>5, <1>6, <1>7 DEF n

\* x behind the first g elements of s.
Added(s, g, x) == [i \in 1 .. Len(s) + 1 |-> IF i <= g THEN s[i] ELSE IF i = g + 1 THEN x ELSE s[i - 1]]

\* s without its element k.
Dropped(s, k) == [i \in 1 .. Len(s) - 1 |-> IF i < k THEN s[i] ELSE s[i + 1]]

LEMMA AddedIs ==
    ASSUME NEW s \in Seq(Node), NEW g \in 0 .. Len(s), NEW x \in Node
    PROVE  /\ Added(s, g, x) \in Seq(Node) /\ Len(Added(s, g, x)) = Len(s) + 1
           /\ \A i \in 1 .. Len(s) + 1 : Added(s, g, x)[i] = IF i <= g THEN s[i] ELSE IF i = g + 1 THEN x ELSE s[i - 1]
<1> DEFINE n == Len(s)
           t == Added(s, g, x)
<1>1. n \in Nat
    OBVIOUS
<1>2. ASSUME NEW i \in 1 .. n + 1 PROVE t[i] = (IF i <= g THEN s[i] ELSE IF i = g + 1 THEN x ELSE s[i - 1]) /\ t[i] \in Node
    <2>1. i <= g => i \in 1 .. n
        BY <1>1
    <2>2. i > g + 1 => i - 1 \in 1 .. n
        BY <1>1
    <2> QED
        BY <2>1, <2>2 DEF Added
<1>3. t = [i \in 1 .. n + 1 |-> t[i]]
    BY DEF Added
<1> HIDE DEF t, n
<1>4. t \in Seq(Node) /\ Len(t) = n + 1
    BY <1>1, <1>2, <1>3
<1> QED
    BY <1>2, <1>4 DEF n, t

LEMMA DroppedIs ==
    ASSUME NEW s \in Seq(Node), NEW k \in 1 .. Len(s)
    PROVE  /\ Dropped(s, k) \in Seq(Node) /\ Len(Dropped(s, k)) = Len(s) - 1
           /\ \A i \in 1 .. Len(s) - 1 : Dropped(s, k)[i] = IF i < k THEN s[i] ELSE s[i + 1]
<1> DEFINE n == Len(s)
           t == Dropped(s, k)
<1>1. n \in Nat /\ n - 1 \in Nat
    OBVIOUS
<1>2. ASSUME NEW i \in 1 .. n - 1 PROVE t[i] = (IF i < k THEN s[i] ELSE s[i + 1]) /\ t[i] \in Node
    BY DEF Dropped
<1>3. t = [i \in 1 .. n - 1 |-> t[i]]
    BY DEF Dropped
<1> HIDE DEF t
<1>4. t \in Seq(Node) /\ Len(t) = n - 1
    BY <1>1, <1>2, <1>3
<1> QED
    BY <1>2, <1>4 DEF t

-----------------------------------------------------------------------------
(* The walks. *)

\* A cursor that walked i steps from the head.
LEMMA WalkForth ==
    ASSUME NEW s, Linked(ptr, s)
    PROVE  \A i \in Nat : Fwd[i] = IF i <= Len(s) THEN After(s, i) ELSE Out
<1> DEFINE n == Len(s)
           f == [i \in Nat |-> IF i <= n THEN After(s, i) ELSE Out]
           Step(c) == IF At(c) = Nil THEN Out ELSE NextOf(At(c))
<1>1. n \in Nat
    BY Gaps
<1>2. ASSUME NEW i \in Nat, i # 0
      PROVE  Step(IF i - 1 <= n THEN After(s, i - 1) ELSE Out) = IF i <= n THEN After(s, i) ELSE Out
    <2>1. CASE i - 1 <= n
        <3>1. i - 1 \in 0 .. n
            BY <1>1, <1>2, <2>1
        <3>2. At(After(s, i - 1)) = Elem(s, i)
            <4>1. After(s, i - 1) # Out
                BY <3>1, Gaps
            <4>2. ptr[After(s, i - 1)] = Elem(s, (i - 1) + 1)
                BY <3>1 DEF Linked
            <4>3. (i - 1) + 1 = i
                OBVIOUS
            <4> QED
                BY <4>1, <4>2, <4>3 DEF At
        <3>3. CASE i <= n
            <4>1. i \in 1 .. n
                BY <1>1, <1>2, <3>3
            <4>2. Elem(s, i) = s[i] /\ s[i] # Nil
                BY <4>1, Gaps
            <4> QED
                BY <1>2, <2>1, <3>2, <3>3, <4>2 DEF After
        <3>4. CASE ~ (i <= n)
            <4>1. i = n + 1
                BY <1>1, <2>1, <3>4
            <4>2. Elem(s, i) = Nil
                BY <4>1, Gaps
            <4> QED
                BY <2>1, <3>2, <3>4, <4>2
        <3> QED
            BY <3>3, <3>4
    <2>2. CASE ~ (i - 1 <= n)
        <3>1. ~ (i <= n)
            BY <1>1, <2>2
        <3>2. At(Out) = Nil
            BY DEF At
        <3> QED
            BY <2>2, <3>1, <3>2
    <2> QED
        BY <2>1, <2>2
<1>3. f[0] = HeadPtr
    BY <1>1 DEF After
<1>4. f = [i \in Nat |-> IF i = 0 THEN HeadPtr ELSE IF At(f[i - 1]) = Nil THEN Out ELSE NextOf(At(f[i - 1]))]
    <2>1. ASSUME NEW i \in Nat, i # 0
          PROVE  f[i] = IF At(f[i - 1]) = Nil THEN Out ELSE NextOf(At(f[i - 1]))
        <3>1. i - 1 \in Nat
            BY <2>1
        <3>2. f[i - 1] = IF i - 1 <= n THEN After(s, i - 1) ELSE Out
            BY <3>1
        <3>3. f[i] = IF i <= n THEN After(s, i) ELSE Out
            OBVIOUS
        <3> HIDE DEF f
        <3> QED
            BY <1>2, <2>1, <3>2, <3>3
    <2>2. f = [i \in Nat |-> f[i]]
        OBVIOUS
    <2> HIDE DEF f
    <2>3. \A i \in Nat :
             f[i] = IF i = 0 THEN HeadPtr ELSE IF At(f[i - 1]) = Nil THEN Out ELSE NextOf(At(f[i - 1]))
        BY <1>3, <2>1
    <2> QED
        BY <2>2, <2>3, Zenon
<1> HIDE DEF f
<1>5. Fwd = [i \in Nat |-> IF i = 0 THEN HeadPtr ELSE IF At(Fwd[i - 1]) = Nil THEN Out ELSE NextOf(At(Fwd[i - 1]))]
    BY <1>4, Zenon DEF Fwd
<1>6. /\ Fwd[0] = HeadPtr
      /\ \A i \in Nat : i # 0 => Fwd[i] = IF At(Fwd[i - 1]) = Nil THEN Out ELSE NextOf(At(Fwd[i - 1]))
    BY <1>5
<1>7. /\ \A i \in Nat : i # 0 => f[i] = IF At(f[i - 1]) = Nil THEN Out ELSE NextOf(At(f[i - 1]))
    BY <1>4
<1>8. ASSUME NEW i \in Nat, Fwd[i] # f[i] PROVE FALSE
    <2> DEFINE T == {k \in Nat : Fwd[k] # f[k]}
    <2>1. T \subseteq Nat /\ T # {}
        BY <1>8
    <2>2. PICK m \in T : \A k \in T : m <= k
        BY <2>1, LeastElement
    <2>3. m \in Nat /\ m # 0
        BY <1>3, <1>6
    <2>4. m - 1 \in Nat /\ m - 1 \notin T
        <3>1. m - 1 \in Nat /\ ~ (m <= m - 1)
            BY <2>3
        <3> QED
            BY <2>2, <3>1
    <2>5. Fwd[m - 1] = f[m - 1]
        BY <2>4
    <2>6. Fwd[m] = f[m]
        BY <1>6, <1>7, <2>3, <2>5
    <2> QED
        BY <2>6
<1> QED
    BY <1>8 DEF f

\* A cursor that walked i steps from the tail.
LEMMA WalkBack ==
    ASSUME NEW s, Linked(ptr, s)
    PROVE  \A i \in Nat : Back[i] = IF i <= Len(s) THEN Before(s, Len(s) - i) ELSE Out
<1> DEFINE n == Len(s)
           f == [i \in Nat |-> IF i <= n THEN Before(s, n - i) ELSE Out]
           Step(c) == IF At(c) = Nil THEN Out ELSE PrevOf(At(c))
<1>1. n \in Nat
    BY Gaps
<1>2. ASSUME NEW i \in Nat, i # 0
      PROVE  Step(IF i - 1 <= n THEN Before(s, n - (i - 1)) ELSE Out) = IF i <= n THEN Before(s, n - i) ELSE Out
    <2>1. CASE i - 1 <= n
        <3>1. n - (i - 1) \in 0 .. n
            BY <1>1, <1>2, <2>1
        <3>2. At(Before(s, n - (i - 1))) = Elem(s, n - i + 1)
            <4>1. Before(s, n - (i - 1)) # Out
                BY <3>1, Gaps
            <4>2. ptr[Before(s, n - (i - 1))] = Elem(s, n - (i - 1))
                BY <3>1 DEF Linked
            <4>3. n - (i - 1) = n - i + 1
                BY <1>1
            <4> QED
                BY <4>1, <4>2, <4>3 DEF At
        <3>3. CASE i <= n
            <4>1. n - i + 1 \in 1 .. n /\ n - i # n
                BY <1>1, <1>2, <3>3
            <4>2. Elem(s, n - i + 1) = s[n - i + 1] /\ s[n - i + 1] # Nil
                BY <4>1, Gaps
            <4> QED
                BY <1>2, <2>1, <3>2, <3>3, <4>1, <4>2 DEF Before
        <3>4. CASE ~ (i <= n)
            <4>1. n - i + 1 = 0
                BY <1>1, <2>1, <3>4
            <4>2. Elem(s, n - i + 1) = Nil
                BY <4>1, Gaps
            <4> QED
                BY <2>1, <3>2, <3>4, <4>2
        <3> QED
            BY <3>3, <3>4
    <2>2. CASE ~ (i - 1 <= n)
        <3>1. ~ (i <= n)
            BY <1>1, <2>2
        <3>2. At(Out) = Nil
            BY DEF At
        <3> QED
            BY <2>2, <3>1, <3>2
    <2> QED
        BY <2>1, <2>2
<1>3. f[0] = TailPtr
    BY <1>1 DEF Before
<1>4. f = [i \in Nat |-> IF i = 0 THEN TailPtr ELSE IF At(f[i - 1]) = Nil THEN Out ELSE PrevOf(At(f[i - 1]))]
    <2>1. ASSUME NEW i \in Nat, i # 0
          PROVE  f[i] = IF At(f[i - 1]) = Nil THEN Out ELSE PrevOf(At(f[i - 1]))
        <3>1. i - 1 \in Nat
            BY <2>1
        <3>2. f[i - 1] = IF i - 1 <= n THEN Before(s, n - (i - 1)) ELSE Out
            BY <3>1
        <3>3. f[i] = IF i <= n THEN Before(s, n - i) ELSE Out
            OBVIOUS
        <3> HIDE DEF f
        <3> QED
            BY <1>2, <2>1, <3>2, <3>3
    <2>2. f = [i \in Nat |-> f[i]]
        OBVIOUS
    <2> HIDE DEF f
    <2>3. \A i \in Nat :
             f[i] = IF i = 0 THEN TailPtr ELSE IF At(f[i - 1]) = Nil THEN Out ELSE PrevOf(At(f[i - 1]))
        BY <1>3, <2>1
    <2> QED
        BY <2>2, <2>3, Zenon
<1> HIDE DEF f
<1>5. Back = [i \in Nat |-> IF i = 0 THEN TailPtr ELSE IF At(Back[i - 1]) = Nil THEN Out ELSE PrevOf(At(Back[i - 1]))]
    BY <1>4, Zenon DEF Back
<1>6. /\ Back[0] = TailPtr
      /\ \A i \in Nat : i # 0 => Back[i] = IF At(Back[i - 1]) = Nil THEN Out ELSE PrevOf(At(Back[i - 1]))
    BY <1>5
<1>7. /\ \A i \in Nat : i # 0 => f[i] = IF At(f[i - 1]) = Nil THEN Out ELSE PrevOf(At(f[i - 1]))
    BY <1>4
<1>8. ASSUME NEW i \in Nat, Back[i] # f[i] PROVE FALSE
    <2> DEFINE T == {k \in Nat : Back[k] # f[k]}
    <2>1. T \subseteq Nat /\ T # {}
        BY <1>8
    <2>2. PICK m \in T : \A k \in T : m <= k
        BY <2>1, LeastElement
    <2>3. m \in Nat /\ m # 0
        BY <1>3, <1>6
    <2>4. m - 1 \in Nat /\ m - 1 \notin T
        <3>1. m - 1 \in Nat /\ ~ (m <= m - 1)
            BY <2>3
        <3> QED
            BY <2>2, <3>1
    <2>5. Back[m - 1] = f[m - 1]
        BY <2>4
    <2>6. Back[m] = f[m]
        BY <1>6, <1>7, <2>3, <2>5
    <2> QED
        BY <2>6
<1> QED
    BY <1>8 DEF f

\* The elements are what the walk from the head meets.
LEMMA ContentsIs == \A s : ListAs(ptr, size, used, s) => Contents = s
<1> SUFFICES ASSUME NEW s, ListAs(ptr, size, used, s) PROVE Contents = s
    OBVIOUS
<1>1. Linked(ptr, s) /\ size = Len(s) /\ s \in Seq(Node) /\ size \in Nat
    BY DEF ListAs, Linked
<1>2. ASSUME NEW i \in 1 .. size PROVE At(Fwd[i - 1]) = s[i]
    <2>1. i - 1 \in Nat /\ i - 1 \in 0 .. size /\ (i - 1) + 1 = i
        BY <1>1
    <2>2. Fwd[i - 1] = After(s, i - 1)
        BY <1>1, <2>1, WalkForth
    <2>3. After(s, i - 1) # Out /\ ptr[After(s, i - 1)] = Elem(s, i)
        BY <1>1, <2>1, Gaps DEF Linked
    <2>4. Elem(s, i) = s[i]
        BY <1>1, Gaps
    <2> QED
        BY <2>2, <2>3, <2>4 DEF At
<1>3. Contents = [i \in 1 .. size |-> s[i]]
    BY <1>2 DEF Contents
<1>4. s = [i \in 1 .. Len(s) |-> s[i]]
    BY <1>1
<1> QED
    BY <1>1, <1>3, <1>4

LEMMA ContentsNext == \A s : ListAs(ptr', size', used', s) => Contents' = s
<1>1. (\A s : ListAs(ptr, size, used, s) => Contents = s)'
    BY ContentsIs, PTL
<1> QED
    BY <1>1

\* The gap index i names, and the element.
GapOf(s, i) == IF i >= 0 THEN i ELSE Len(s) + 1 + i
PlaceOf(s, i) == IF i >= 0 THEN i + 1 ELSE Len(s) + 1 + i

LEMMA CursorIs ==
    ASSUME NEW s, Linked(ptr, s), NEW i \in Int
    PROVE  /\ list_cursor(i) = IF GapOf(s, i) \in 0 .. Len(s)
                               THEN IF i >= 0 THEN After(s, GapOf(s, i)) ELSE Before(s, GapOf(s, i))
                               ELSE Out
           /\ list_get(i) = Elem(s, PlaceOf(s, i))
<1> DEFINE n == Len(s)
           g == GapOf(s, i)
<1>1. n \in Nat
    BY Gaps
<1>2. CASE i >= 0
    <2>1. g = i /\ i \in Nat /\ (g \in 0 .. n <=> i <= n)
        BY <1>1, <1>2 DEF GapOf
    <2>2. list_cursor(i) = IF i <= n THEN After(s, i) ELSE Out
        BY <1>2, <2>1, WalkForth DEF list_cursor
    <2>3. PlaceOf(s, i) = i + 1
        BY <1>2 DEF PlaceOf
    <2>4. CASE i <= n
        <3>1. After(s, i) # Out /\ ptr[After(s, i)] = Elem(s, i + 1)
            BY <2>1, <2>4, Gaps DEF Linked
        <3> QED
            BY <1>2, <2>1, <2>2, <2>3, <2>4, <3>1 DEF list_get, At
    <2>5. CASE ~ (i <= n)
        <3>1. Elem(s, i + 1) = Nil
            BY <1>1, <2>1, <2>5 DEF Elem
        <3> QED
            BY <2>1, <2>2, <2>3, <2>5, <3>1 DEF list_get, At
    <2> QED
        BY <2>4, <2>5
<1>3. CASE i < 0
    <2> DEFINE j == -i - 1
    <2>1. ~ (i >= 0) /\ j \in Nat /\ g = n - j /\ (g \in 0 .. n <=> j <= n)
        <3>1. ~ (i >= 0) /\ j \in Nat
            BY <1>3
        <3>2. g = n + 1 + i
            BY <3>1 DEF GapOf
        <3> HIDE DEF n, g
        <3>3. g = n - j
            BY <1>1, <3>2
        <3> QED
            BY <1>1, <3>1, <3>3
    <2>2. list_cursor(i) = IF j <= n THEN Before(s, n - j) ELSE Out
        <3>1. list_cursor(i) = Back[j]
            BY <2>1 DEF list_cursor
        <3>2. \A k \in Nat : Back[k] = IF k <= Len(s) THEN Before(s, Len(s) - k) ELSE Out
            BY WalkBack
        <3> HIDE DEF j
        <3> QED
            BY <2>1, <3>1, <3>2
    <2>3. PlaceOf(s, i) = g
        BY <2>1 DEF PlaceOf, GapOf
    <2> HIDE DEF g, j
    <2>4. CASE j <= n
        <3>1. Before(s, g) # Out /\ ptr[Before(s, g)] = Elem(s, g)
            BY <2>1, <2>4, Gaps DEF Linked
        <3> QED
            BY <2>1, <2>2, <2>3, <2>4, <3>1 DEF list_get, At, g
    <2>5. CASE ~ (j <= n)
        <3>1. Elem(s, g) = Nil
            BY <1>1, <2>1, <2>5 DEF Elem
        <3> QED
            BY <2>1, <2>2, <2>3, <2>5, <3>1 DEF list_get, At, g
    <2> QED
        BY <2>4, <2>5
<1> QED
    BY <1>2, <1>3

-----------------------------------------------------------------------------
(* What is written to put a node into a gap, and to take one out. *)

Pointers == [Loc -> Node \cup {Nil}]

\* x is written into gap g of s.
Splices(q, r, s, g, x) ==
    /\ q \in Pointers /\ r \in Pointers
    /\ r[NextOf(x)] = Elem(s, g + 1) /\ r[PrevOf(x)] = Elem(s, g)
    /\ r[After(s, g)] = x /\ r[Before(s, g)] = x
    /\ \A c \in Loc \ {NextOf(x), PrevOf(x), After(s, g), Before(s, g)} : r[c] = q[c]

LEMMA SpliceLinks ==
    ASSUME NEW q, NEW r, NEW s, Linked(q, s), NEW g \in 0 .. Len(s), NEW x \in Node,
           \A k \in 1 .. Len(s) : s[k] # x, Splices(q, r, s, g, x)
    PROVE  Linked(r, Added(s, g, x))
<1> DEFINE n == Len(s)
           t == Added(s, g, x)
<1>1. n \in Nat /\ s \in Seq(Node) /\ g \in 0 .. n
    BY DEF Linked
<1>2. /\ t \in Seq(Node) /\ Len(t) = n + 1
      /\ \A i \in 1 .. n + 1 : t[i] = IF i <= g THEN s[i] ELSE IF i = g + 1 THEN x ELSE s[i - 1]
    BY <1>1, AddedIs
<1>3. x # Nil
    BY NodeAssumption
<1>4. \A i, j \in 1 .. n : s[i] = s[j] => i = j
    BY DEF Linked
<1>5. \A k \in 1 .. n : s[k] # x
    OBVIOUS
<1> HIDE DEF n, t
<1>6. ASSUME NEW i \in 1 .. n + 1, NEW j \in 1 .. n + 1, t[i] = t[j] PROVE i = j
    <2>1. i > g + 1 => i - 1 \in 1 .. n
        BY <1>1
    <2>2. j > g + 1 => j - 1 \in 1 .. n
        BY <1>1
    <2>3. /\ i <= g => i \in 1 .. n
          /\ j <= g => j \in 1 .. n
        BY <1>1
    <2> QED
        BY <1>1, <1>2, <1>4, <1>5, <1>6, <2>1, <2>2, <2>3
<1>7. /\ \A k \in 0 .. g : Elem(t, k) = Elem(s, k)
      /\ Elem(t, g + 1) = x
      /\ \A k \in g + 2 .. n + 2 : Elem(t, k) = Elem(s, k - 1)
    <2>1. ASSUME NEW k \in 0 .. g PROVE Elem(t, k) = Elem(s, k)
        BY <1>1, <1>2 DEF Elem, n
    <2>2. Elem(t, g + 1) = x
        BY <1>1, <1>2 DEF Elem, n
    <2>3. ASSUME NEW k \in g + 2 .. n + 2 PROVE Elem(t, k) = Elem(s, k - 1)
        <3>1. k - 1 \in 1 .. n <=> k \in 1 .. n + 1
            BY <1>1
        <3> QED
            BY <1>1, <1>2, <3>1 DEF Elem, n
    <2> QED
        BY <2>1, <2>2, <2>3
<1>8. /\ \A i \in 0 .. g : After(t, i) = After(s, i)
      /\ After(t, g + 1) = NextOf(x)
      /\ \A i \in g + 2 .. n + 1 : After(t, i) = After(s, i - 1)
    <2>1. ASSUME NEW i \in 0 .. g PROVE After(t, i) = After(s, i)
        BY <1>1, <1>2 DEF After
    <2>2. After(t, g + 1) = NextOf(x)
        BY <1>1, <1>2 DEF After
    <2>3. ASSUME NEW i \in g + 2 .. n + 1 PROVE After(t, i) = After(s, i - 1)
        BY <1>1, <1>2 DEF After
    <2> QED
        BY <2>1, <2>2, <2>3
<1>9. /\ \A i \in 0 .. g - 1 : Before(t, i) = Before(s, i)
      /\ Before(t, g) = PrevOf(x)
      /\ \A i \in g + 1 .. n + 1 : Before(t, i) = Before(s, i - 1)
    <2>1. ASSUME NEW i \in 0 .. g - 1 PROVE Before(t, i) = Before(s, i)
        <3>1. i + 1 \in 1 .. n + 1 /\ i + 1 <= g /\ i # n /\ i # n + 1
            BY <1>1
        <3> QED
            BY <1>2, <3>1 DEF Before, n
    <2>2. Before(t, g) = PrevOf(x)
        <3>1. g + 1 \in 1 .. n + 1 /\ g # n + 1 /\ ~ (g + 1 <= g)
            BY <1>1
        <3> QED
            BY <1>2, <3>1 DEF Before
    <2>3. ASSUME NEW i \in g + 1 .. n + 1 PROVE Before(t, i) = Before(s, i - 1)
        <3>1. CASE i = n + 1
            BY <1>1, <1>2, <3>1 DEF Before, n
        <3>2. CASE i # n + 1
            <4>1. /\ i + 1 \in 1 .. n + 1 /\ ~ (i + 1 <= g) /\ i + 1 # g + 1
                  /\ (i + 1) - 1 = i /\ (i - 1) + 1 = i /\ i - 1 # n
                BY <1>1, <3>2
            <4> QED
                BY <1>2, <3>2, <4>1 DEF Before, n
        <3> QED
            BY <3>1, <3>2
    <2> QED
        BY <2>1, <2>2, <2>3
<1>10. \A i \in 0 .. n : i # g => r[After(s, i)] = Elem(s, i + 1) /\ r[Before(s, i)] = Elem(s, i)
    <2> SUFFICES ASSUME NEW i \in 0 .. n, i # g
                 PROVE  r[After(s, i)] = Elem(s, i + 1) /\ r[Before(s, i)] = Elem(s, i)
        OBVIOUS
    <2>1. q[After(s, i)] = Elem(s, i + 1) /\ q[Before(s, i)] = Elem(s, i)
        BY DEF Linked, n
    <2>2. /\ After(s, i) \in Loc /\ Before(s, i) \in Loc
          /\ After(s, i) # After(s, g) /\ After(s, i) # Before(s, g)
          /\ Before(s, i) # After(s, g) /\ Before(s, i) # Before(s, g)
        BY <1>1, Gaps DEF n
    <2>3. After(s, i) # NextOf(x) /\ After(s, i) # PrevOf(x)
        <3>1. i = 0 \/ i \in 1 .. n
            BY <1>1
        <3> QED
            BY <1>5, <3>1, Distinct DEF After
    <2>4. Before(s, i) # NextOf(x) /\ Before(s, i) # PrevOf(x)
        <3>1. i = n \/ i + 1 \in 1 .. n
            BY <1>1
        <3> QED
            BY <1>5, <3>1, Distinct DEF Before, n
    <2> QED
        BY <2>1, <2>2, <2>3, <2>4 DEF Splices
<1>11. ASSUME NEW i \in 0 .. n + 1 PROVE r[After(t, i)] = Elem(t, i + 1)
    <2>1. CASE i < g
        <3>1. i \in 0 .. g /\ i \in 0 .. n /\ i # g /\ i + 1 \in 0 .. g
            BY <1>1, <2>1
        <3> QED
            BY <1>7, <1>8, <1>10, <3>1
    <2>2. CASE i = g
        <3>1. i \in 0 .. g
            BY <1>1, <2>2
        <3> QED
            BY <1>7, <1>8, <2>2, <3>1 DEF Splices
    <2>3. CASE i = g + 1
        <3>1. g + 2 \in g + 2 .. n + 2 /\ (g + 2) - 1 = g + 1 /\ (g + 1) + 1 = g + 2
            BY <1>1
        <3> QED
            BY <1>7, <1>8, <2>3, <3>1 DEF Splices
    <2>4. CASE i > g + 1
        <3>1. i \in g + 2 .. n + 1 /\ i - 1 \in 0 .. n /\ i - 1 # g /\ (i - 1) + 1 = i
            BY <1>1, <2>4
        <3>2. i + 1 \in g + 2 .. n + 2 /\ (i + 1) - 1 = i
            BY <1>1, <2>4
        <3> QED
            BY <1>7, <1>8, <1>10, <3>1, <3>2
    <2> QED
        BY <1>1, <2>1, <2>2, <2>3, <2>4
<1>12. ASSUME NEW i \in 0 .. n + 1 PROVE r[Before(t, i)] = Elem(t, i)
    <2>1. CASE i < g
        <3>1. i \in 0 .. g /\ i \in 0 .. n /\ i # g /\ i \in 0 .. g - 1
            BY <1>1, <2>1
        <3> QED
            BY <1>7, <1>9, <1>10, <3>1
    <2>2. CASE i = g
        <3>1. i \in 0 .. g
            BY <1>1, <2>2
        <3> QED
            BY <1>7, <1>9, <2>2, <3>1 DEF Splices
    <2>3. CASE i = g + 1
        <3>1. g + 1 \in g + 1 .. n + 1 /\ (g + 1) - 1 = g
            BY <1>1
        <3> QED
            BY <1>7, <1>9, <2>3, <3>1 DEF Splices
    <2>4. CASE i > g + 1
        <3>1. i \in g + 1 .. n + 1 /\ i - 1 \in 0 .. n /\ i - 1 # g
            BY <1>1, <2>4
        <3>2. i \in g + 2 .. n + 2
            BY <1>1, <2>4
        <3> QED
            BY <1>7, <1>9, <1>10, <3>1, <3>2
    <2> QED
        BY <1>1, <2>1, <2>2, <2>3, <2>4
<1> QED
    BY <1>2, <1>6, <1>11, <1>12 DEF Linked, t

\* Element k of s is bypassed.
Cuts(q, r, s, k) ==
    /\ q \in Pointers /\ r \in Pointers
    /\ r[After(s, k - 1)] = Elem(s, k + 1) /\ r[Before(s, k)] = Elem(s, k - 1)
    /\ \A c \in Loc \ {After(s, k - 1), Before(s, k)} : r[c] = q[c]

LEMMA CutLinks ==
    ASSUME NEW q, NEW r, NEW s, Linked(q, s), NEW k \in 1 .. Len(s), Cuts(q, r, s, k)
    PROVE  Linked(r, Dropped(s, k))
<1> DEFINE n == Len(s)
           t == Dropped(s, k)
<1>1. n \in Nat /\ s \in Seq(Node) /\ k \in 1 .. n
    BY DEF Linked
<1>2. /\ t \in Seq(Node) /\ Len(t) = n - 1
      /\ \A i \in 1 .. n - 1 : t[i] = IF i < k THEN s[i] ELSE s[i + 1]
    BY <1>1, DroppedIs
<1>3. \A i, j \in 1 .. n : s[i] = s[j] => i = j
    BY DEF Linked
<1> HIDE DEF n, t
<1>4. ASSUME NEW i \in 1 .. n - 1, NEW j \in 1 .. n - 1, t[i] = t[j] PROVE i = j
    <2>1. i \in 1 .. n /\ i + 1 \in 1 .. n /\ j \in 1 .. n /\ j + 1 \in 1 .. n
        BY <1>1
    <2> QED
        BY <1>1, <1>2, <1>3, <1>4, <2>1
<1>5. /\ \A j \in 0 .. k - 1 : Elem(t, j) = Elem(s, j)
      /\ \A j \in k .. n : Elem(t, j) = Elem(s, j + 1)
    <2>1. ASSUME NEW j \in 0 .. k - 1 PROVE Elem(t, j) = Elem(s, j)
        BY <1>1, <1>2 DEF Elem, n
    <2>2. ASSUME NEW j \in k .. n PROVE Elem(t, j) = Elem(s, j + 1)
        <3>1. j + 1 \in 1 .. n <=> j \in 1 .. n - 1
            BY <1>1
        <3> QED
            BY <1>1, <1>2, <3>1 DEF Elem, n
    <2> QED
        BY <2>1, <2>2
<1>6. /\ \A i \in 0 .. k - 1 : After(t, i) = After(s, i)
      /\ \A i \in k .. n - 1 : After(t, i) = After(s, i + 1)
    <2>1. ASSUME NEW i \in 0 .. k - 1 PROVE After(t, i) = After(s, i)
        <3>1. i = 0 \/ (i \in 1 .. n - 1 /\ i < k)
            BY <1>1
        <3> QED
            BY <1>2, <3>1 DEF After
    <2>2. ASSUME NEW i \in k .. n - 1 PROVE After(t, i) = After(s, i + 1)
        <3>1. i \in 1 .. n - 1 /\ ~ (i < k) /\ i # 0 /\ i + 1 # 0
            BY <1>1
        <3> QED
            BY <1>2, <3>1 DEF After
    <2> QED
        BY <2>1, <2>2
<1>7. /\ \A i \in 0 .. k - 2 : Before(t, i) = Before(s, i)
      /\ \A i \in k - 1 .. n - 1 : Before(t, i) = Before(s, i + 1)
    <2>1. ASSUME NEW i \in 0 .. k - 2 PROVE Before(t, i) = Before(s, i)
        <3>1. i + 1 \in 1 .. n - 1 /\ i + 1 < k /\ i # n /\ i # n - 1
            BY <1>1
        <3> QED
            BY <1>2, <3>1 DEF Before, n
    <2>2. ASSUME NEW i \in k - 1 .. n - 1 PROVE Before(t, i) = Before(s, i + 1)
        <3>1. CASE i = n - 1
            BY <1>1, <1>2, <3>1 DEF Before, n
        <3>2. CASE i # n - 1
            <4>1. i + 1 \in 1 .. n - 1 /\ ~ (i + 1 < k) /\ i + 1 # n
                BY <1>1, <3>2
            <4> QED
                BY <1>2, <3>2, <4>1 DEF Before, n
        <3> QED
            BY <3>1, <3>2
    <2> QED
        BY <2>1, <2>2
<1>8. ASSUME NEW i \in 0 .. n
      PROVE  /\ i # k - 1 => r[After(s, i)] = Elem(s, i + 1)
             /\ i # k => r[Before(s, i)] = Elem(s, i)
    <2>1. q[After(s, i)] = Elem(s, i + 1) /\ q[Before(s, i)] = Elem(s, i)
        BY DEF Linked, n
    <2>2. k - 1 \in 0 .. n /\ k \in 0 .. n
        BY <1>1
    <2>3. /\ After(s, i) \in Loc /\ Before(s, i) \in Loc
          /\ i # k - 1 => After(s, i) # After(s, k - 1)
          /\ After(s, i) # Before(s, k) /\ Before(s, i) # After(s, k - 1)
          /\ i # k => Before(s, i) # Before(s, k)
        BY <2>2, Gaps DEF n
    <2> QED
        BY <2>1, <2>3 DEF Cuts
<1>9. ASSUME NEW i \in 0 .. n - 1 PROVE r[After(t, i)] = Elem(t, i + 1)
    <2>1. CASE i < k - 1
        <3>1. i \in 0 .. n /\ i \in 0 .. k - 1 /\ i # k - 1 /\ i + 1 \in 0 .. k - 1
            BY <1>1, <2>1
        <3> QED
            BY <1>5, <1>6, <1>8, <3>1
    <2>2. CASE i = k - 1
        <3>1. i \in 0 .. k - 1 /\ i + 1 = k /\ k \in k .. n
            BY <1>1, <2>2
        <3> QED
            BY <1>5, <1>6, <2>2, <3>1 DEF Cuts
    <2>3. CASE i > k - 1
        <3>1. i \in k .. n - 1 /\ i + 1 \in 0 .. n /\ i + 1 # k - 1 /\ i + 1 \in k .. n
            BY <1>1, <2>3
        <3> QED
            BY <1>5, <1>6, <1>8, <3>1
    <2> QED
        BY <1>1, <2>1, <2>2, <2>3
<1>10. ASSUME NEW i \in 0 .. n - 1 PROVE r[Before(t, i)] = Elem(t, i)
    <2>1. CASE i < k - 1
        <3>1. i \in 0 .. n /\ i \in 0 .. k - 1 /\ i # k /\ i \in 0 .. k - 2
            BY <1>1, <2>1
        <3> QED
            BY <1>5, <1>7, <1>8, <3>1
    <2>2. CASE i = k - 1
        <3>1. i \in 0 .. k - 1 /\ i \in k - 1 .. n - 1 /\ i + 1 = k
            BY <1>1, <2>2
        <3> QED
            BY <1>5, <1>7, <2>2, <3>1 DEF Cuts
    <2>3. CASE i > k - 1
        <3>1. i \in k - 1 .. n - 1 /\ i + 1 \in 0 .. n /\ i + 1 # k /\ i \in k .. n
            BY <1>1, <2>3
        <3> QED
            BY <1>5, <1>7, <1>8, <3>1
    <2> QED
        BY <1>1, <2>1, <2>2, <2>3
<1>11. Len(t) = n - 1 /\ t \in Seq(Node)
    BY <1>2
<1> QED
    BY <1>4, <1>9, <1>10, <1>11 DEF Linked, t

LEMMA Wrote2 ==
    ASSUME NEW q \in Pointers, NEW a \in Loc, NEW b \in Loc,
           NEW t \in Node \cup {Nil}, NEW u \in Node \cup {Nil},
           NEW r, r = [q EXCEPT ![a] = t, ![b] = u]
    PROVE  /\ r \in Pointers /\ r[b] = u
           /\ a # b => r[a] = t
           /\ \A l \in Loc : l # a /\ l # b => r[l] = q[l]
BY DEF Pointers

\* The pointers of a node that is not in s are not those across its gaps.
LEMMA Apart ==
    ASSUME NEW q, NEW s, Linked(q, s), NEW x \in Node, \A k \in 1 .. Len(s) : s[k] # x,
           NEW g \in 0 .. Len(s)
    PROVE  /\ NextOf(x) \in Loc /\ PrevOf(x) \in Loc /\ NextOf(x) # PrevOf(x)
           /\ After(s, g) # NextOf(x) /\ After(s, g) # PrevOf(x)
           /\ Before(s, g) # NextOf(x) /\ Before(s, g) # PrevOf(x)
<1>1. Len(s) \in Nat
    BY Gaps
<1>2. /\ g = 0 \/ g \in 1 .. Len(s)
      /\ g = Len(s) \/ g + 1 \in 1 .. Len(s)
    BY <1>1
<1>3. After(s, g) # NextOf(x) /\ After(s, g) # PrevOf(x)
    BY <1>2, Distinct DEF After
<1>4. Before(s, g) # NextOf(x) /\ Before(s, g) # PrevOf(x)
    BY <1>2, Distinct DEF Before
<1> QED
    BY <1>3, <1>4, Located, Distinct

\* Put, with an index that names a gap, links the node into it.
LEMMA PutSplices ==
    ASSUME NEW s, ListAs(ptr, size, used, s), ptr \in Pointers, Fresh,
           NEW x \in Node \ used, NEW i \in Int, GapOf(s, i) \in 0 .. Len(s),
           NEW c, c = list_cursor(i),
           ptr' = IF ptr[c] = Nil THEN LinkEnd(i, c, x) ELSE Link(i, c, x, ptr[c])
    PROVE  Splices(ptr, ptr', s, GapOf(s, i), x)
<1> DEFINE n == Len(s)
           g == GapOf(s, i)
           A == After(s, g)
           B == Before(s, g)
<1>1. Linked(ptr, s) /\ n \in Nat /\ g \in 0 .. n /\ x \in Node
    BY Gaps DEF ListAs
<1>2. \A k \in 1 .. n : s[k] # x
    BY DEF ListAs
<1>3. c = IF i >= 0 THEN A ELSE B
    BY <1>1, CursorIs
<1>4. ptr[A] = Elem(s, g + 1) /\ ptr[B] = Elem(s, g)
    BY <1>1 DEF Linked
<1>5. A \in Loc /\ B \in Loc /\ A # B
    BY <1>1, Gaps
<1>6. NextOf(x) \in Loc /\ PrevOf(x) \in Loc /\ NextOf(x) # PrevOf(x)
    BY <1>1, <1>2, Apart
<1>7. A # NextOf(x) /\ A # PrevOf(x) /\ B # NextOf(x) /\ B # PrevOf(x)
    BY <1>1, <1>2, Apart
<1>8. ptr[NextOf(x)] = Nil /\ ptr[PrevOf(x)] = Nil
    BY DEF Fresh
<1>9. /\ g = 0 => Elem(s, g) = Nil /\ A = HeadPtr
      /\ g # 0 => Elem(s, g) # Nil /\ A = NextOf(Elem(s, g))
    <2>1. g # 0 => g \in 1 .. n
        BY <1>1
    <2> QED
        BY <1>1, <2>1, Gaps DEF After
<1>10. /\ g = n => Elem(s, g + 1) = Nil /\ B = TailPtr
       /\ g # n => Elem(s, g + 1) # Nil /\ B = PrevOf(Elem(s, g + 1))
    <2>1. g # n => g + 1 \in 1 .. n
        BY <1>1
    <2> QED
        BY <1>1, <2>1, Gaps DEF Before
<1>11. Elem(s, g) \in Node \cup {Nil} /\ Elem(s, g + 1) \in Node \cup {Nil}
    BY <1>4, <1>5 DEF Pointers
<1>12. ptr[TailPtr] = Elem(s, n) /\ ptr[HeadPtr] = Elem(s, 1)
    <2>1. 0 \in 0 .. n /\ n \in 0 .. n /\ 0 + 1 = 1
        BY <1>1
    <2>2. After(s, 0) = HeadPtr /\ Before(s, n) = TailPtr
        BY DEF After, Before
    <2>3. ptr[After(s, 0)] = Elem(s, 0 + 1) /\ ptr[Before(s, n)] = Elem(s, n)
        BY <1>1, <2>1 DEF Linked
    <2> QED
        BY <2>1, <2>2, <2>3
<1>13. x \in Node \cup {Nil}
    BY <1>1
<1> HIDE DEF g, A, B, n
<1>14. CASE i >= 0 /\ ptr[c] # Nil
    <2>1. c = A /\ ptr[c] = Elem(s, g + 1) /\ g # n /\ B = PrevOf(Elem(s, g + 1))
        BY <1>3, <1>4, <1>10, <1>14
    <2>2. ptr' = [ptr EXCEPT ![PrevOf(x)] = Elem(s, g), ![NextOf(x)] = Elem(s, g + 1), ![B] = x, ![A] = x]
        BY <1>4, <1>14, <2>1 DEF Link
    <2>3. /\ ptr' \in Pointers /\ ptr'[A] = x /\ ptr'[B] = x
          /\ ptr'[NextOf(x)] = Elem(s, g + 1) /\ ptr'[PrevOf(x)] = Elem(s, g)
          /\ \A l \in Loc : l # PrevOf(x) /\ l # NextOf(x) /\ l # B /\ l # A => ptr'[l] = ptr[l]
        BY <1>5, <1>6, <1>7, <1>11, <1>13, <2>2 DEF Pointers
    <2> QED
        BY <2>3 DEF Splices, A, B, g
<1>15. CASE i < 0 /\ ptr[c] # Nil
    <2>1. ~ (i >= 0) /\ c = B /\ ptr[c] = Elem(s, g) /\ A = NextOf(Elem(s, g))
        BY <1>3, <1>4, <1>9, <1>15
    <2>2. ptr' = [ptr EXCEPT ![NextOf(x)] = Elem(s, g + 1), ![PrevOf(x)] = Elem(s, g), ![A] = x, ![B] = x]
        BY <1>4, <1>15, <2>1 DEF Link
    <2>3. /\ ptr' \in Pointers /\ ptr'[A] = x /\ ptr'[B] = x
          /\ ptr'[NextOf(x)] = Elem(s, g + 1) /\ ptr'[PrevOf(x)] = Elem(s, g)
          /\ \A l \in Loc : l # NextOf(x) /\ l # PrevOf(x) /\ l # A /\ l # B => ptr'[l] = ptr[l]
        BY <1>5, <1>6, <1>7, <1>11, <1>13, <2>2 DEF Pointers
    <2> QED
        BY <2>3 DEF Splices, A, B, g
<1>16. CASE i >= 0 /\ ptr[c] = Nil
    <2>1. c = A /\ Elem(s, g + 1) = Nil /\ g = n /\ B = TailPtr /\ ptr[TailPtr] = Elem(s, g)
        BY <1>3, <1>4, <1>10, <1>12, <1>16
    <2>2. ptr' = LinkEnd(i, c, x)
        BY <1>16
    <2>3. CASE Elem(s, g) = Nil
        <3>1. ptr' = [ptr EXCEPT ![A] = x, ![B] = x]
            BY <1>16, <2>1, <2>2, <2>3 DEF LinkEnd
        <3>2. /\ ptr' \in Pointers /\ ptr'[A] = x /\ ptr'[B] = x
              /\ \A l \in Loc : l # A /\ l # B => ptr'[l] = ptr[l]
            BY <1>5, <1>13, <3>1, Wrote2
        <3>3. ptr'[NextOf(x)] = Elem(s, g + 1) /\ ptr'[PrevOf(x)] = Elem(s, g)
            BY <1>6, <1>7, <1>8, <2>1, <2>3, <3>2
        <3> QED
            BY <3>2, <3>3 DEF Splices, A, B, g
    <2>4. CASE Elem(s, g) # Nil
        <3>1. A = NextOf(Elem(s, g))
            BY <1>9, <2>4
        <3>2. ptr' = [ptr EXCEPT ![A] = x, ![PrevOf(x)] = Elem(s, g), ![A] = x, ![B] = x]
            BY <1>16, <2>1, <2>2, <2>4, <3>1 DEF LinkEnd
        <3>3. /\ ptr' \in Pointers /\ ptr'[A] = x /\ ptr'[B] = x /\ ptr'[PrevOf(x)] = Elem(s, g)
              /\ \A l \in Loc : l # A /\ l # PrevOf(x) /\ l # B => ptr'[l] = ptr[l]
            BY <1>5, <1>6, <1>7, <1>11, <1>13, <3>2 DEF Pointers
        <3>4. ptr'[NextOf(x)] = Elem(s, g + 1)
            BY <1>6, <1>7, <1>8, <2>1, <3>3
        <3> QED
            BY <3>3, <3>4 DEF Splices, A, B, g
    <2> QED
        BY <2>3, <2>4
<1>17. CASE i < 0 /\ ptr[c] = Nil
    <2>1. ~ (i >= 0) /\ c = B /\ Elem(s, g) = Nil /\ g = 0 /\ A = HeadPtr /\ ptr[HeadPtr] = Elem(s, g + 1)
        <3>1. ~ (i >= 0) /\ c = B /\ Elem(s, g) = Nil /\ g = 0 /\ A = HeadPtr
            BY <1>3, <1>4, <1>9, <1>17
        <3>2. g + 1 = 1
            BY <3>1
        <3> QED
            BY <1>12, <3>1, <3>2
    <2>2. ptr' = LinkEnd(i, c, x)
        BY <1>17
    <2>3. CASE Elem(s, g + 1) = Nil
        <3>1. ptr' = [ptr EXCEPT ![B] = x, ![A] = x]
            BY <2>1, <2>2, <2>3 DEF LinkEnd
        <3>2. /\ ptr' \in Pointers /\ ptr'[A] = x /\ ptr'[B] = x
              /\ \A l \in Loc : l # B /\ l # A => ptr'[l] = ptr[l]
            BY <1>5, <1>13, <3>1, Wrote2
        <3>3. ptr'[NextOf(x)] = Elem(s, g + 1) /\ ptr'[PrevOf(x)] = Elem(s, g)
            BY <1>6, <1>7, <1>8, <2>1, <2>3, <3>2
        <3> QED
            BY <3>2, <3>3 DEF Splices, A, B, g
    <2>4. CASE Elem(s, g + 1) # Nil
        <3>1. B = PrevOf(Elem(s, g + 1))
            BY <1>10, <2>4
        <3>2. ptr' = [ptr EXCEPT ![B] = x, ![NextOf(x)] = Elem(s, g + 1), ![B] = x, ![A] = x]
            BY <2>1, <2>2, <2>4, <3>1 DEF LinkEnd
        <3>3. /\ ptr' \in Pointers /\ ptr'[A] = x /\ ptr'[B] = x /\ ptr'[NextOf(x)] = Elem(s, g + 1)
              /\ \A l \in Loc : l # B /\ l # NextOf(x) /\ l # A => ptr'[l] = ptr[l]
            BY <1>5, <1>6, <1>7, <1>11, <1>13, <3>2 DEF Pointers
        <3>4. ptr'[PrevOf(x)] = Elem(s, g)
            BY <1>6, <1>7, <1>8, <2>1, <3>3
        <3> QED
            BY <3>3, <3>4 DEF Splices, A, B, g
    <2> QED
        BY <2>3, <2>4
<1> QED
    BY <1>14, <1>15, <1>16, <1>17

\* Unlink, through the cursor of an element that is not the only one, cuts it out.
LEMMA UnlinkCuts ==
    ASSUME NEW s, ListAs(ptr, size, used, s), ptr \in Pointers, size > 1,
           NEW i \in Int, PlaceOf(s, i) \in 1 .. Len(s),
           ptr' = Unlink(i, list_cursor(i), s[PlaceOf(s, i)])
    PROVE  Cuts(ptr, ptr', s, PlaceOf(s, i))
<1> DEFINE n == Len(s)
           k == PlaceOf(s, i)
           y == s[k]
           N == Elem(s, k + 1)
           P == Elem(s, k - 1)
           A == After(s, k - 1)
           B == Before(s, k)
<1>1. Linked(ptr, s) /\ n \in Nat /\ k \in 1 .. n /\ k - 1 \in 0 .. n /\ k \in 0 .. n /\ n > 1
    <2>1. Linked(ptr, s) /\ n \in Nat /\ k \in 1 .. n /\ n > 1
        BY Gaps DEF ListAs
    <2> HIDE DEF n, k
    <2> QED
        BY <2>1
<1>2. list_cursor(i) = IF i >= 0 THEN A ELSE B
    <2>1. i >= 0 => GapOf(s, i) = k - 1
        BY <1>1 DEF GapOf, PlaceOf
    <2>2. ~ (i >= 0) => GapOf(s, i) = k
        BY <1>1 DEF GapOf, PlaceOf
    <2> HIDE DEF k, n
    <2> QED
        BY <1>1, <2>1, <2>2, CursorIs DEF n
<1>3. A \in Loc /\ B \in Loc /\ A # B
    BY <1>1, Gaps
<1>4. k \in 0 .. n /\ k - 1 \in 0 .. n /\ (k - 1) + 1 = k
    BY <1>1
<1>5. /\ ptr[After(s, k)] = N /\ ptr[Before(s, k - 1)] = P
    BY <1>1, <1>4 DEF Linked
<1>6. After(s, k) = NextOf(y) /\ Before(s, k - 1) = PrevOf(y)
    <2>1. k # 0 /\ k - 1 # n
        BY <1>1
    <2> HIDE DEF k, n
    <2> QED
        BY <1>4, <2>1 DEF After, Before, n
<1>7. N \in Node \cup {Nil} /\ P \in Node \cup {Nil}
    <2>1. After(s, k) \in Loc /\ Before(s, k - 1) \in Loc
        BY <1>1, Gaps
    <2> QED
        BY <1>5, <2>1 DEF Pointers
<1>8. /\ k = 1 => P = Nil /\ A = HeadPtr
      /\ k # 1 => P # Nil /\ A = NextOf(P)
    <2>1. k # 1 => k - 1 \in 1 .. n
        BY <1>1
    <2>2. k = 1 => k - 1 = 0
        BY <1>1
    <2>3. k # 1 => k - 1 # 0
        BY <1>1
    <2> QED
        BY <1>1, <2>1, <2>2, <2>3, Gaps DEF After
<1>9. /\ k = n => N = Nil /\ B = TailPtr
      /\ k # n => N # Nil /\ B = PrevOf(N)
    <2>1. k # n => k + 1 \in 1 .. n
        BY <1>1
    <2> QED
        BY <1>1, <2>1, Gaps DEF Before
<1>10. k = 1 => k # n
    <2> HIDE DEF n, k
    <2> QED
        BY <1>1
<1>11. Nil \in Node \cup {Nil}
    OBVIOUS
<1>12. ptr' = Unlink(i, list_cursor(i), y)
    OBVIOUS
<1> HIDE DEF n, k, y, N, P, A, B
<1>13. ASSUME \/ ptr' = [ptr EXCEPT ![B] = P, ![A] = N]
              \/ ptr' = [ptr EXCEPT ![A] = N, ![B] = P]
       PROVE  Cuts(ptr, ptr', s, k)
    <2>1. /\ ptr' \in Pointers /\ ptr'[A] = N /\ ptr'[B] = P
          /\ \A l \in Loc : l # A /\ l # B => ptr'[l] = ptr[l]
        <3>1. CASE ptr' = [ptr EXCEPT ![B] = P, ![A] = N]
            BY <1>3, <1>7, <3>1 DEF Pointers
        <3>2. CASE ptr' = [ptr EXCEPT ![A] = N, ![B] = P]
            BY <1>3, <1>7, <3>2 DEF Pointers
        <3> QED
            BY <1>13, <3>1, <3>2
    <2> QED
        BY <2>1 DEF Cuts, A, B, N, P
<1>14. CASE i >= 0 /\ N # Nil
    <2>1. ptr' = [ptr EXCEPT ![B] = P, ![A] = N]
        BY <1>2, <1>5, <1>6, <1>9, <1>12, <1>14 DEF Unlink
    <2> QED
        BY <1>13, <2>1 DEF k
<1>15. CASE i >= 0 /\ N = Nil
    <2>1. k = n /\ B = TailPtr /\ k # 1 /\ A = NextOf(P)
        BY <1>8, <1>9, <1>10, <1>15
    <2>2. ptr' = [ptr EXCEPT ![B] = P, ![A] = N]
        BY <1>5, <1>6, <1>12, <1>15, <2>1 DEF Unlink
    <2> QED
        BY <1>13, <2>2 DEF k
<1>16. CASE i < 0 /\ P # Nil
    <2>1. ~ (i >= 0) /\ A = NextOf(P)
        BY <1>8, <1>16
    <2>2. ptr' = [ptr EXCEPT ![A] = N, ![B] = P]
        BY <1>2, <1>5, <1>6, <1>12, <1>16, <2>1 DEF Unlink
    <2> QED
        BY <1>13, <2>2 DEF k
<1>17. CASE i < 0 /\ P = Nil
    <2>1. ~ (i >= 0) /\ k = 1 /\ A = HeadPtr /\ N # Nil /\ B = PrevOf(N)
        BY <1>8, <1>9, <1>10, <1>17
    <2>2. ptr' = [ptr EXCEPT ![A] = N, ![B] = P]
        BY <1>5, <1>6, <1>12, <1>17, <2>1 DEF Unlink
    <2> QED
        BY <1>13, <2>2 DEF k
<1> QED
    BY <1>14, <1>15, <1>16, <1>17 DEF k

LEMMA UsedCount == ASSUME TypeOK PROVE IsFiniteSet(used) /\ Cardinality(used) \in Nat
                                       /\ Cardinality(used) <= Cardinality(Node) /\ Cardinality(Node) \in Nat
BY NodeAssumption, FS_Subset, FS_CardinalityType DEF TypeOK

\* Put links a fresh node into the gap the index names, if there is one.
LEMMA PutIs ==
    ASSUME TypeOK, Fresh, NEW s, ListAs(ptr, size, used, s), NEW x, NEW i \in Int, Put(i, x)
    PROVE  /\ x \in Node \ used /\ Fresh'
           /\ ptr' \in Pointers /\ used' \subseteq Node /\ size' \in 0 .. Cardinality(used')
           /\ Cardinality(used') <= Cardinality(Node)
           /\ GapOf(s, i) \in 0 .. Len(s) =>
                  ListAs(ptr', size', used', Added(s, GapOf(s, i), x))
           /\ GapOf(s, i) \notin 0 .. Len(s) => UNCHANGED <<ptr, size, used>>
<1> DEFINE n == Len(s)
           g == GapOf(s, i)
<1>1. ptr \in Pointers /\ used \subseteq Node /\ size \in 0 .. Cardinality(used)
    BY DEF TypeOK, Pointers
<1>2. Linked(ptr, s) /\ n \in Nat /\ size = n /\ s \in Seq(Node)
    BY Gaps DEF ListAs, Linked
<1>3. x \in Node \ used
    BY DEF Put
<1>4. IsFiniteSet(used) /\ Cardinality(used) \in Nat /\ Cardinality(used) <= Cardinality(Node)
    BY UsedCount
<1>5. CASE g \notin 0 .. n
    <2>1. list_cursor(i) = Out
        BY <1>2, <1>5, CursorIs
    <2>2. UNCHANGED <<ptr, size, used>>
        BY <2>1 DEF Put
    <2>3. Fresh'
        BY <2>2 DEF Fresh
    <2> QED
        BY <1>1, <1>3, <1>4, <1>5, <2>2, <2>3
<1>6. CASE g \in 0 .. n
    <2> DEFINE c == list_cursor(i)
               t == Added(s, g, x)
    <2>1. c = (IF i >= 0 THEN After(s, g) ELSE Before(s, g)) /\ c # Out
        BY <1>2, <1>6, CursorIs, Gaps
    <2>2. /\ ptr' = IF ptr[c] = Nil THEN LinkEnd(i, c, x) ELSE Link(i, c, x, ptr[c])
          /\ size' = size + 1 /\ used' = used \cup {x}
        BY <2>1 DEF Put
    <2> HIDE DEF c
    <2>3. Splices(ptr, ptr', s, g, x)
        BY <1>1, <1>3, <1>6, <2>2, PutSplices DEF c
    <2>4. \A k \in 1 .. n : s[k] # x /\ s[k] \in used
        BY <1>3 DEF ListAs
    <2>5. Linked(ptr', t)
        BY <1>2, <1>3, <1>6, <2>3, <2>4, SpliceLinks
    <2>6. Len(t) = n + 1 /\ \A k \in 1 .. n + 1 : t[k] \in used'
        <3>1. /\ Len(t) = n + 1
              /\ \A k \in 1 .. n + 1 : t[k] = IF k <= g THEN s[k] ELSE IF k = g + 1 THEN x ELSE s[k - 1]
            <4>1. x \in Node /\ s \in Seq(Node) /\ g \in 0 .. Len(s)
                BY <1>2, <1>3, <1>6
            <4> HIDE DEF g
            <4>2. /\ Len(Added(s, g, x)) = Len(s) + 1
                  /\ \A k \in 1 .. Len(s) + 1 :
                        Added(s, g, x)[k] = IF k <= g THEN s[k] ELSE IF k = g + 1 THEN x ELSE s[k - 1]
                BY <4>1, AddedIs
            <4> QED
                BY <4>2
        <3>2. \A k \in 1 .. n + 1 : /\ k <= g => k \in 1 .. n
                                    /\ ~ (k <= g) /\ k # g + 1 => k - 1 \in 1 .. n
            <4> HIDE DEF n, g
            <4> QED
                BY <1>2, <1>6
        <3> HIDE DEF t, n, g
        <3> QED
            BY <2>2, <2>4, <3>1, <3>2
    <2>7. ListAs(ptr', size', used', t)
        BY <1>2, <2>2, <2>5, <2>6 DEF ListAs
    <2>8. IsFiniteSet(used') /\ Cardinality(used') = Cardinality(used) + 1 /\ used' \subseteq Node
        BY <1>1, <1>3, <1>4, <2>2, FS_AddElement
    <2>9. Cardinality(used') <= Cardinality(Node)
        BY <2>8, NodeAssumption, FS_Subset
    <2>10. Fresh'
        <3> SUFFICES ASSUME NEW z \in Node \ used' PROVE ptr'[NextOf(z)] = Nil /\ ptr'[PrevOf(z)] = Nil
            BY DEF Fresh
        <3>1. z \in Node \ used /\ z # x
            BY <2>2
        <3>2. \A k \in 1 .. n : s[k] # z
            BY <3>1 DEF ListAs
        <3>3. NextOf(z) \in Loc /\ PrevOf(z) \in Loc
            BY <3>1, Located
        <3>4. /\ After(s, g) # NextOf(z) /\ After(s, g) # PrevOf(z)
              /\ Before(s, g) # NextOf(z) /\ Before(s, g) # PrevOf(z)
            BY <1>2, <1>6, <3>1, <3>2, Apart
        <3>5. /\ NextOf(z) # NextOf(x) /\ NextOf(z) # PrevOf(x)
              /\ PrevOf(z) # NextOf(x) /\ PrevOf(z) # PrevOf(x)
            BY <3>1, Distinct
        <3>6. ptr'[NextOf(z)] = ptr[NextOf(z)] /\ ptr'[PrevOf(z)] = ptr[PrevOf(z)]
            BY <2>3, <3>3, <3>4, <3>5 DEF Splices
        <3> QED
            BY <3>1, <3>6 DEF Fresh
    <2>11. size' \in 0 .. Cardinality(used')
        BY <1>1, <1>4, <2>2, <2>8
    <2>12. ptr' \in Pointers
        BY <2>3 DEF Splices
    <2> QED
        BY <1>3, <1>6, <2>7, <2>8, <2>9, <2>10, <2>11, <2>12
<1> QED
    BY <1>5, <1>6

\* Take cuts out the element the index names, if there is one.
LEMMA TakeIs ==
    ASSUME KeepsOne, TypeOK, Fresh, NEW s, ListAs(ptr, size, used, s), NEW i \in Int, Take(i), used' = used
    PROVE  /\ fault' = fault /\ Fresh'
           /\ ptr' \in Pointers /\ size' \in 0 .. Cardinality(used')
           /\ PlaceOf(s, i) \in 1 .. Len(s) =>
                  ListAs(ptr', size', used', Dropped(s, PlaceOf(s, i))) /\ ret' = s[PlaceOf(s, i)]
           /\ PlaceOf(s, i) \notin 1 .. Len(s) => UNCHANGED <<ptr, size>> /\ ret' = Nil
<1> DEFINE n == Len(s)
           k == PlaceOf(s, i)
           y == At(list_cursor(i))
<1>1. ptr \in Pointers /\ used \subseteq Node /\ size \in 0 .. Cardinality(used) /\ Cardinality(used) \in Nat
    BY UsedCount DEF TypeOK, Pointers
<1>2. Linked(ptr, s) /\ n \in Nat /\ size = n /\ s \in Seq(Node)
    BY Gaps DEF ListAs, Linked
<1>3. y = Elem(s, k)
    BY <1>2, CursorIs DEF list_get
<1>4. CASE k \notin 1 .. n
    <2>1. y = Nil
        BY <1>3, <1>4 DEF Elem
    <2>2. UNCHANGED <<ptr, size, fault>> /\ ret' = Nil
        BY <2>1 DEF Take
    <2>3. Fresh'
        BY <2>2 DEF Fresh
    <2> QED
        BY <1>1, <1>4, <2>2, <2>3
<1>5. CASE k \in 1 .. n
    <2>1. y = s[k] /\ y # Nil
        BY <1>2, <1>3, <1>5, Gaps
    <2>2. n > 1
        <3>1. size > MinLeft
            BY <2>1 DEF Take
        <3> QED
            BY <1>2, <3>1, BoundAssumption DEF KeepsOne
    <2>3. ~ (ptr[NextOf(y)] = Nil /\ ptr[PrevOf(y)] = Nil)
        <3> HIDE DEF n, k, y
        <3>1. k \in 0 .. n /\ k - 1 \in 0 .. n /\ (k - 1) + 1 = k /\ k # 0 /\ k - 1 # n
            BY <1>2, <1>5
        <3>2. After(s, k) = NextOf(y) /\ Before(s, k - 1) = PrevOf(y)
            BY <2>1, <3>1 DEF After, Before, n
        <3>3. ptr[NextOf(y)] = Elem(s, k + 1) /\ ptr[PrevOf(y)] = Elem(s, k - 1)
            BY <1>2, <3>1, <3>2 DEF Linked, n
        <3>4. k + 1 \in 1 .. n \/ k - 1 \in 1 .. n
            BY <1>2, <1>5, <2>2
        <3> QED
            BY <1>2, <3>3, <3>4, Gaps DEF n
    <2>4. ptr' = Unlink(i, list_cursor(i), y) /\ size' = size - 1 /\ ret' = y /\ UNCHANGED fault
        BY <2>1, <2>3 DEF Take
    <2>5. Cuts(ptr, ptr', s, k)
        BY <1>1, <1>2, <1>5, <2>1, <2>2, <2>4, UnlinkCuts
    <2>6. Linked(ptr', Dropped(s, k))
        BY <1>2, <1>5, <2>5, CutLinks
    <2>7. /\ Len(Dropped(s, k)) = n - 1
          /\ \A j \in 1 .. n - 1 : Dropped(s, k)[j] = IF j < k THEN s[j] ELSE s[j + 1]
        BY <1>2, <1>5, DroppedIs
    <2>8. \A j \in 1 .. n - 1 : Dropped(s, k)[j] \in used'
        <3>1. \A j \in 1 .. n : s[j] \in used'
            BY DEF ListAs
        <3>2. \A j \in 1 .. n - 1 : j \in 1 .. n /\ j + 1 \in 1 .. n
            <4> HIDE DEF n
            <4> QED
                BY <1>2
        <3> HIDE DEF n, k
        <3> QED
            BY <2>7, <3>1, <3>2
    <2>9. ListAs(ptr', size', used', Dropped(s, k))
        BY <1>2, <2>4, <2>6, <2>7, <2>8 DEF ListAs
    <2>10. Fresh'
        <3> SUFFICES ASSUME NEW z \in Node \ used PROVE ptr'[NextOf(z)] = Nil /\ ptr'[PrevOf(z)] = Nil
            BY DEF Fresh
        <3>1. \A j \in 1 .. n : s[j] # z
            BY DEF ListAs
        <3>2. k \in 0 .. n /\ k - 1 \in 0 .. n
            <4> HIDE DEF n, k
            <4> QED
                BY <1>2, <1>5
        <3>3. NextOf(z) \in Loc /\ PrevOf(z) \in Loc
            BY Located
        <3>4. /\ After(s, k - 1) # NextOf(z) /\ After(s, k - 1) # PrevOf(z)
              /\ Before(s, k) # NextOf(z) /\ Before(s, k) # PrevOf(z)
            BY <1>2, <3>1, <3>2, Apart
        <3>5. ptr'[NextOf(z)] = ptr[NextOf(z)] /\ ptr'[PrevOf(z)] = ptr[PrevOf(z)]
            BY <2>5, <3>3, <3>4 DEF Cuts
        <3> QED
            BY <3>5 DEF Fresh
    <2>11. size' \in 0 .. Cardinality(used')
        BY <1>1, <1>2, <2>2, <2>4
    <2>12. ptr' \in Pointers
        BY <2>5 DEF Cuts
    <2> QED
        BY <1>5, <2>1, <2>4, <2>9, <2>10, <2>11, <2>12
<1> QED
    BY <1>4, <1>5

\* The iterator has an element to go to unless it is at the last or there is none.
LEMMA HasNextIs ==
    ASSUME NEW s, ListAs(ptr, size, used, s), iter \in Int, iter < 0
    PROVE  list_iter_has_next <=> size # 0 /\ iter < -1
<1> DEFINE n == Len(s)
           k == n + 1 + iter
<1>1. Linked(ptr, s) /\ n \in Nat /\ size = n
    BY Gaps DEF ListAs
<1>2. list_get(iter) = Elem(s, k)
    BY <1>1, CursorIs DEF PlaceOf
<1>3. CASE k \in 1 .. n
    <2> HIDE DEF n, k
    <2>1. k \in 0 .. n /\ k # 0
        BY <1>1, <1>3
    <2>2. Elem(s, k) = s[k] /\ s[k] # Nil
        BY <1>1, <1>3, Gaps DEF n
    <2>3. After(s, k) = NextOf(s[k])
        BY <2>1 DEF After
    <2>4. ptr[NextOf(s[k])] = Elem(s, k + 1)
        BY <1>1, <2>1, <2>3 DEF Linked, n
    <2>5. list_iter_has_next <=> n # 0 /\ Elem(s, k + 1) # Nil
        BY <1>1, <1>2, <2>2, <2>4 DEF list_iter_has_next
    <2>6. Elem(s, k + 1) # Nil <=> k + 1 <= n
        <3>1. k + 1 <= n => k + 1 \in 1 .. n
            BY <1>1, <1>3
        <3>2. ~ (k + 1 <= n) => k + 1 = n + 1
            BY <1>1, <1>3
        <3> QED
            BY <1>1, <1>3, <3>1, <3>2, Gaps DEF n
    <2>7. k + 1 <= n <=> iter < -1
        BY <1>1 DEF k
    <2> QED
        BY <1>1, <2>5, <2>6, <2>7
<1>4. CASE k \notin 1 .. n
    <2> HIDE DEF n
    <2>1. list_get(iter) = Nil
        BY <1>2, <1>4 DEF Elem, n
    <2>2. n # 0 => iter < -1
        BY <1>1, <1>4
    <2> QED
        BY <1>1, <2>1, <2>2 DEF list_iter_has_next
<1> QED
    BY <1>3, <1>4

-----------------------------------------------------------------------------
(* The rest of an iteration, and the operations of ListSeq. *)

LEMMA RestIs ==
    ASSUME NEW s \in Seq(Node), NEW i \in -1 - Len(s) .. -1
    PROVE  /\ RestOf(s, i) \in Seq(Node) /\ Len(RestOf(s, i)) = -1 - i
           /\ \A k \in 1 .. -1 - i : RestOf(s, i)[k] = s[Len(s) + 1 + i + k]
<1> DEFINE n == Len(s)
           r == RestOf(s, i)
<1>1. n \in Nat /\ -1 - i \in Nat
    OBVIOUS
<1>2. ASSUME NEW k \in 1 .. -1 - i PROVE n + 1 + i + k \in 1 .. n
    BY <1>1
<1>3. \A k \in 1 .. -1 - i : r[k] = s[n + 1 + i + k] /\ r[k] \in Node
    BY <1>2 DEF RestOf
<1>4. r = [k \in 1 .. -1 - i |-> r[k]]
    BY DEF RestOf
<1> HIDE DEF r, n
<1>5. r \in Seq(Node) /\ Len(r) = -1 - i
    <2> DEFINE m == -1 - i
    <2>1. m \in Nat /\ r = [k \in 1 .. m |-> r[k]] /\ \A k \in 1 .. m : r[k] \in Node
        BY <1>1, <1>3, <1>4, Zenon
    <2> HIDE DEF m
    <2>2. r \in [1 .. m -> Node]
        BY <2>1
    <2>3. r \in Seq(Node) /\ Len(r) = m
        BY <2>1, <2>2
    <2> QED
        BY <2>3 DEF m
<1> QED
    BY <1>3, <1>5 DEF n, r

\* What is put in front of the rest is not in it.
LEMMA RestAdded ==
    ASSUME NEW s \in Seq(Node), NEW x \in Node, NEW i \in -1 - Len(s) .. -1,
           NEW g \in 0 .. Len(s), g <= Len(s) + 1 + i
    PROVE  RestOf(Added(s, g, x), i) = RestOf(s, i)
<1> DEFINE n == Len(s)
           t == Added(s, g, x)
<1>1. n \in Nat
    OBVIOUS
<1>2. Len(t) = n + 1 /\ \A j \in 1 .. n + 1 : t[j] = IF j <= g THEN s[j] ELSE IF j = g + 1 THEN x ELSE s[j - 1]
    BY AddedIs
<1> HIDE DEF t
<1>3. ASSUME NEW k \in 1 .. -1 - i PROVE t[Len(t) + 1 + i + k] = s[n + 1 + i + k]
    <2> DEFINE j == n + 1 + 1 + i + k
    <2>1. j \in 1 .. n + 1 /\ ~ (j <= g) /\ j # g + 1 /\ j - 1 = n + 1 + i + k
        BY <1>1
    <2>2. Len(t) + 1 + i + k = j
        BY <1>2
    <2> HIDE DEF j, n
    <2> QED
        BY <1>2, <2>1, <2>2
<1>4. RestOf(t, i) = RestOf(s, i)
    BY <1>3, Zenon DEF RestOf
<1> QED
    BY <1>4 DEF t

\* Nor is what is taken out in front of it.
LEMMA RestDropped ==
    ASSUME NEW s \in Seq(Node), NEW i \in -1 - Len(s) .. -1,
           NEW k \in 1 .. Len(s), k <= Len(s) + 1 + i
    PROVE  RestOf(Dropped(s, k), i) = RestOf(s, i)
<1> DEFINE n == Len(s)
           t == Dropped(s, k)
<1>1. n \in Nat
    OBVIOUS
<1>2. Len(t) = n - 1 /\ \A j \in 1 .. n - 1 : t[j] = IF j < k THEN s[j] ELSE s[j + 1]
    BY DroppedIs
<1> HIDE DEF t
<1>3. ASSUME NEW m \in 1 .. -1 - i PROVE t[Len(t) + 1 + i + m] = s[n + 1 + i + m]
    <2> DEFINE j == n + i + m
    <2>1. j \in 1 .. n - 1 /\ ~ (j < k) /\ j + 1 = n + 1 + i + m
        BY <1>1
    <2>2. Len(t) + 1 + i + m = j
        BY <1>1, <1>2
    <2> HIDE DEF j, n
    <2> QED
        BY <1>2, <2>1, <2>2
<1>4. RestOf(t, i) = RestOf(s, i)
    BY <1>3, Zenon DEF RestOf
<1> QED
    BY <1>4 DEF t

\* The next element is the first of the rest.
LEMMA RestNext ==
    ASSUME NEW s \in Seq(Node), NEW i \in -1 - Len(s) .. -2, NEW sn \in Seq(Node)
    PROVE  sn \o RestOf(s, i) = Append(sn, s[Len(s) + 2 + i]) \o RestOf(s, i + 1)
<1> DEFINE n == Len(s)
           e == s[n + 2 + i]
           r == RestOf(s, i)
           q == RestOf(s, i + 1)
<1>1. n \in Nat /\ i \in -1 - n .. -1 /\ i + 1 \in -1 - n .. -1 /\ n + 2 + i \in 1 .. n
    <2>1. n \in Nat
        OBVIOUS
    <2> HIDE DEF n
    <2>2. i \in -1 - n .. -2
        BY DEF n
    <2> QED
        BY <2>1, <2>2
<1>2. /\ r \in Seq(Node) /\ Len(r) = -1 - i
      /\ \A k \in 1 .. -1 - i : r[k] = s[n + 1 + i + k]
    BY <1>1, RestIs
<1>3. /\ q \in Seq(Node) /\ Len(q) = -1 - (i + 1)
      /\ \A k \in 1 .. -1 - (i + 1) : q[k] = s[n + 1 + (i + 1) + k]
    BY <1>1, RestIs
<1>4. e \in Node
    BY <1>1
<1> HIDE DEF n, e, r, q
<1>5. Len(r) = Len(q) + 1 /\ Len(q) \in Nat
    BY <1>1, <1>2, <1>3
<1>6. r[1] = e
    <2>1. 1 \in 1 .. -1 - i /\ n + 1 + i + 1 = n + 2 + i
        BY <1>1
    <2> QED
        BY <1>2, <2>1 DEF e, n
<1>7. ASSUME NEW k \in 1 .. Len(q) PROVE r[k + 1] = q[k]
    <2>1. k \in 1 .. -1 - (i + 1) /\ k + 1 \in 1 .. -1 - i /\ n + 1 + i + (k + 1) = n + 1 + (i + 1) + k
        BY <1>1, <1>3
    <2> QED
        BY <1>2, <1>3, <2>1
<1>8. r = <<e>> \o q
    <2> DEFINE u == <<e>> \o q
    <2>1. u \in Seq(Node) /\ Len(u) = Len(q) + 1 /\ u[1] = e /\ \A k \in 1 .. Len(q) : u[k + 1] = q[k]
        BY <1>3, <1>4
    <2> HIDE DEF u
    <2>2. ASSUME NEW k \in 1 .. Len(r) PROVE r[k] = u[k]
        <3>1. CASE k = 1
            BY <1>6, <2>1, <3>1
        <3>2. CASE k # 1
            <4> DEFINE j == k - 1
            <4>1. j \in 1 .. Len(q) /\ k = j + 1
                BY <1>5, <3>2
            <4> HIDE DEF j
            <4> QED
                BY <1>7, <2>1, <4>1
        <3> QED
            BY <3>1, <3>2
    <2>3. r = u
        BY <1>2, <1>5, <2>1, <2>2, SeqEqual
    <2> QED
        BY <2>3 DEF u
<1>9. sn \o (<<e>> \o q) = (sn \o <<e>>) \o q
    BY <1>3, <1>4
<1>10. Append(sn, e) = sn \o <<e>>
    BY <1>4
<1> QED
    BY <1>8, <1>9, <1>10 DEF r, q, e, n

LEMMA InsertAtIs ==
    ASSUME NEW s \in Seq(Node), NEW g \in 0 .. Len(s), NEW x \in Node
    PROVE  Sequence!InsertAt(s, g + 1, x) = Added(s, g, x)
<1> DEFINE n == Len(s)
           a == SubSeq(s, 1, g)
           b == SubSeq(s, g + 1, n)
           t == Added(s, g, x)
           u == a \o <<x>> \o b
<1>1. n \in Nat /\ g \in 0 .. n
    OBVIOUS
<1>2. /\ t \in Seq(Node) /\ Len(t) = n + 1
      /\ \A j \in 1 .. n + 1 : t[j] = IF j <= g THEN s[j] ELSE IF j = g + 1 THEN x ELSE s[j - 1]
    BY AddedIs
<1>3. a \in Seq(Node) /\ Len(a) = g /\ \A j \in 1 .. g : a[j] = s[j]
    <2>1. \A j \in 1 .. g : s[j] \in Node
        BY <1>1
    <2> QED
        BY <1>1, <2>1, SubSeqProperties
<1>4. b \in Seq(Node) /\ Len(b) = n - g /\ \A j \in 1 .. n - g : b[j] = s[g + j]
    <2>1. \A j \in g + 1 .. n : s[j] \in Node
        BY <1>1
    <2> QED
        BY <1>1, <2>1, SubSeqProperties
<1> HIDE DEF a, b, t, n
<1>5. u \in Seq(Node) /\ Len(u) = n + 1
    <2>1. a \o <<x>> \in Seq(Node) /\ Len(a \o <<x>>) = g + 1
        BY <1>3, ConcatProperties
    <2>2. u \in Seq(Node) /\ Len(u) = (g + 1) + (n - g)
        <3> DEFINE v == a \o <<x>>
        <3>1. v \in Seq(Node) /\ b \in Seq(Node)
            BY <1>4, <2>1
        <3> HIDE DEF v
        <3>2. v \o b \in Seq(Node) /\ Len(v \o b) = Len(v) + Len(b)
            BY <3>1, ConcatProperties
        <3>3. Len(v \o b) = (g + 1) + (n - g)
            BY <1>4, <2>1, <3>2 DEF v
        <3> QED
            BY <3>2, <3>3 DEF v
    <2>3. (g + 1) + (n - g) = n + 1
        BY <1>1
    <2> QED
        BY <2>2, <2>3
<1>6. ASSUME NEW j \in 1 .. n + 1 PROVE u[j] = t[j]
    <2>1. u[j] = IF j <= g THEN a[j] ELSE IF j = g + 1 THEN x ELSE b[j - g - 1]
        BY <1>1, <1>3, <1>4
    <2>2. CASE j <= g
        <3>1. j \in 1 .. g
            BY <1>1, <2>2
        <3> QED
            BY <1>2, <1>3, <2>1, <2>2, <3>1
    <2>3. CASE j = g + 1
        <3>1. ~ (j <= g)
            BY <1>1, <2>3
        <3> QED
            BY <1>2, <2>1, <2>3, <3>1
    <2>4. CASE j > g + 1
        <3>1. j - g - 1 \in 1 .. n - g /\ g + (j - g - 1) = j - 1 /\ ~ (j <= g) /\ j # g + 1
            BY <1>1, <2>4
        <3> QED
            BY <1>2, <1>4, <2>1, <3>1
    <2>5. j <= g \/ j = g + 1 \/ j > g + 1
        BY <1>1
    <2> QED
        BY <2>2, <2>3, <2>4, <2>5
<1>7. u = t
    <2> HIDE DEF u
    <2> QED
        BY <1>2, <1>5, <1>6, SeqEqual
<1>8. (g + 1) - 1 = g
    BY <1>1
<1> QED
    BY <1>7, <1>8 DEF Sequence!InsertAt, a, b, n, t

LEMMA RemoveAtIs ==
    ASSUME NEW s \in Seq(Node), NEW k \in 1 .. Len(s)
    PROVE  Sequence!RemoveAt(s, k) = Dropped(s, k)
<1> DEFINE n == Len(s)
           a == SubSeq(s, 1, k - 1)
           b == SubSeq(s, k + 1, n)
           t == Dropped(s, k)
           u == a \o b
<1>1. n \in Nat /\ k \in 1 .. n
    OBVIOUS
<1>2. /\ t \in Seq(Node) /\ Len(t) = n - 1
      /\ \A j \in 1 .. n - 1 : t[j] = IF j < k THEN s[j] ELSE s[j + 1]
    BY DroppedIs
<1>3. a \in Seq(Node) /\ Len(a) = k - 1 /\ \A j \in 1 .. k - 1 : a[j] = s[j]
    <2>1. \A j \in 1 .. k - 1 : s[j] \in Node
        BY <1>1
    <2> QED
        BY <1>1, <2>1, SubSeqProperties
<1>4. b \in Seq(Node) /\ Len(b) = n - k /\ \A j \in 1 .. n - k : b[j] = s[k + j]
    <2>1. \A j \in k + 1 .. n : s[j] \in Node
        BY <1>1
    <2> QED
        BY <1>1, <2>1, SubSeqProperties
<1> HIDE DEF a, b, t, n
<1>5. u \in Seq(Node) /\ Len(u) = n - 1
    <2>1. u \in Seq(Node) /\ Len(u) = (k - 1) + (n - k)
        <3>1. a \o b \in Seq(Node) /\ Len(a \o b) = Len(a) + Len(b)
            BY <1>3, <1>4, ConcatProperties
        <3> QED
            BY <1>3, <1>4, <3>1
    <2>2. (k - 1) + (n - k) = n - 1
        BY <1>1
    <2> QED
        BY <2>1, <2>2
<1>6. ASSUME NEW j \in 1 .. n - 1 PROVE u[j] = t[j]
    <2>1. u[j] = IF j <= k - 1 THEN a[j] ELSE b[j - (k - 1)]
        BY <1>1, <1>3, <1>4
    <2>2. CASE j < k
        <3>1. j \in 1 .. k - 1 /\ j <= k - 1
            BY <1>1, <2>2
        <3> QED
            BY <1>2, <1>3, <2>1, <2>2, <3>1
    <2>3. CASE ~ (j < k)
        <3>1. j - (k - 1) \in 1 .. n - k /\ k + (j - (k - 1)) = j + 1 /\ ~ (j <= k - 1)
            BY <1>1, <2>3
        <3> QED
            BY <1>2, <1>4, <2>1, <2>3, <3>1
    <2> QED
        BY <2>2, <2>3
<1>7. u = t
    <2> HIDE DEF u
    <2> QED
        BY <1>2, <1>5, <1>6, SeqEqual
<1> QED
    BY <1>7 DEF Sequence!RemoveAt, a, b, n, t

-----------------------------------------------------------------------------
(* Every operation keeps the invariant, and is one of ListSeq. *)

IterRange == -Cardinality(Node) - 1 .. 0

LEMMA Keeps ==
    ASSUME NEW t, ListAs(ptr', size', used', t), ptr' \in Pointers, Fresh',
           size' \in 0 .. Cardinality(used'), used' \subseteq Node, iter' \in IterRange,
           ret' \in Node \cup {Nil}, fault' = FALSE, seen' \in Seq(Node),
           whole' = Nil \/ whole' \in Seq(Node),
           whole' # Nil => Reaches(t, iter', seen', whole')
    PROVE  IInv' /\ Contents' = t
<1>1. Contents' = t
    BY ContentsNext
<1>2. TypeOK'
    BY DEF TypeOK, Pointers, IterRange
<1>3. ListAs(ptr, size, used, Contents)'
    BY <1>1
<1>4. Iterating'
    BY <1>1 DEF Iterating
<1> QED
    BY <1>1, <1>2, <1>3, <1>4 DEF IInv

LEMMA InvFacts ==
    ASSUME IInv
    PROVE  /\ ptr \in Pointers /\ size \in 0 .. Cardinality(used) /\ used \subseteq Node
           /\ iter \in IterRange /\ iter \in Int /\ ret \in Node \cup {Nil} /\ fault = FALSE /\ seen \in Seq(Node)
           /\ whole = Nil \/ whole \in Seq(Node)
           /\ TypeOK /\ Fresh /\ ListAs(ptr, size, used, Contents)
           /\ Linked(ptr, Contents) /\ Contents \in Seq(Node)
           /\ size = Len(Contents) /\ size \in Nat /\ size <= Cardinality(Node)
           /\ Cardinality(Node) \in Nat
           /\ whole # Nil => Reaches(Contents, iter, seen, whole)
<1>1. TypeOK /\ Fresh /\ ListAs(ptr, size, used, Contents) /\ Linked(ptr, Contents)
      /\ Contents \in Seq(Node) /\ size = Len(Contents)
    BY DEF IInv, ListAs, Linked
<1>2. size \in Nat /\ size <= Cardinality(Node) /\ Cardinality(Node) \in Nat
    BY <1>1, UsedCount DEF TypeOK
<1>3. iter \in IterRange /\ iter \in Int
    BY <1>1, <1>2 DEF TypeOK, IterRange
<1> QED
    BY <1>1, <1>2, <1>3 DEF IInv, TypeOK, Pointers, Iterating

\* What Put does is what ListSeq says, and an iteration it belongs to goes on.
LEMMA PutKeeps ==
    ASSUME IInv, NEW x, NEW i \in Int, Put(i, x),
           iter' = iter, fault' = fault, seen' = seen, ret' \in Node \cup {Nil},
           whole' = Nil \/ (whole' = whole /\ iter < 0 /\ i \in {iter, iter - 1})
    PROVE  IInv' /\ Sequence!PutAt(i, x)
<1> DEFINE s == Contents
           n == Len(s)
           g == GapOf(s, i)
<1>1. /\ TypeOK /\ Fresh /\ ListAs(ptr, size, used, s) /\ iter \in IterRange /\ iter \in Int /\ fault = FALSE
      /\ seen \in Seq(Node) /\ s \in Seq(Node)
      /\ whole = Nil \/ whole \in Seq(Node)
      /\ whole # Nil => Reaches(s, iter, seen, whole)
    BY InvFacts
<1>2. /\ x \in Node \ used /\ Fresh'
      /\ ptr' \in Pointers /\ used' \subseteq Node /\ size' \in 0 .. Cardinality(used')
      /\ g \in 0 .. n => ListAs(ptr', size', used', Added(s, g, x))
      /\ g \notin 0 .. n => UNCHANGED <<ptr, size, used>>
    BY <1>1, PutIs
<1>3. g = Sequence!Gap(i)
    BY DEF GapOf, Sequence!Gap
<1>4. n \in Nat
    BY <1>1
<1>5. CASE g \in 0 .. n
    <2> DEFINE t == Added(s, g, x)
    <2>1. ASSUME whole' # Nil PROVE Reaches(t, iter', seen', whole')
        <3>1. whole' = whole /\ iter < 0 /\ i \in {iter, iter - 1}
            BY <2>1
        <3>2. Reaches(s, iter, seen, whole)
            BY <1>1, <2>1, <3>1
        <3>3. iter \in -1 - n .. -1 /\ whole = seen \o RestOf(s, iter)
            BY <3>2 DEF Reaches
        <3>4. g <= n + 1 + iter
            <4>1. i < 0 /\ i <= iter
                BY <1>1, <3>1
            <4>2. g = n + 1 + i
                BY <4>1 DEF GapOf
            <4> HIDE DEF n, g
            <4> QED
                BY <1>1, <1>4, <4>1, <4>2
        <3> HIDE DEF n, g, s
        <3>5. RestOf(t, iter) = RestOf(s, iter)
            BY <1>1, <1>2, <1>5, <3>3, <3>4, RestAdded DEF n
        <3>6. Len(t) = n + 1
            BY <1>1, <1>2, <1>5, AddedIs DEF n
        <3> HIDE DEF t
        <3>7. iter \in -1 - Len(t) .. -1
            BY <1>4, <3>3, <3>6
        <3> QED
            BY <3>1, <3>3, <3>5, <3>7 DEF Reaches
    <2>2. whole' = Nil \/ whole' \in Seq(Node)
        BY <1>1
    <2> HIDE DEF t, g, s
    <2>3. IInv' /\ Contents' = t
        BY <1>1, <1>2, <1>5, <2>1, <2>2, Keeps DEF t
    <2>4. Sequence!InsertAt(s, g + 1, x) = t
        BY <1>1, <1>2, <1>5, InsertAtIs DEF t
    <2> QED
        BY <1>3, <1>5, <2>3, <2>4 DEF Sequence!PutAt, s
<1>6. CASE g \notin 0 .. n
    <2>1. UNCHANGED <<ptr, size, used>>
        BY <1>2, <1>6
    <2>2. whole' # Nil => Reaches(s, iter', seen', whole')
        BY <1>1
    <2>3. whole' = Nil \/ whole' \in Seq(Node)
        BY <1>1
    <2>4. ListAs(ptr', size', used', s)
        BY <1>1, <2>1
    <2> HIDE DEF g, s
    <2>5. IInv' /\ Contents' = s
        BY <1>1, <1>2, <2>2, <2>3, <2>4, Keeps
    <2> QED
        BY <1>3, <1>6, <2>5 DEF Sequence!PutAt, s
<1> QED
    BY <1>5, <1>6

\* So is what Take does.
LEMMA TakeKeeps ==
    ASSUME KeepsOne, IInv, NEW i \in Int, Take(i), used' = used, iter' = iter, seen' = seen,
           whole' = Nil \/ (whole' = whole /\ iter < 0 /\ i = iter)
    PROVE  IInv' /\ Sequence!TakeAt(i)
<1> DEFINE s == Contents
           n == Len(s)
           k == PlaceOf(s, i)
<1>1. /\ TypeOK /\ Fresh /\ ListAs(ptr, size, used, s) /\ iter \in IterRange /\ iter \in Int /\ fault = FALSE
      /\ seen \in Seq(Node) /\ s \in Seq(Node) /\ used \subseteq Node
      /\ whole = Nil \/ whole \in Seq(Node)
      /\ whole # Nil => Reaches(s, iter, seen, whole)
    BY InvFacts
<1>2. /\ fault' = fault /\ Fresh'
      /\ ptr' \in Pointers /\ size' \in 0 .. Cardinality(used')
      /\ k \in 1 .. n => ListAs(ptr', size', used', Dropped(s, k)) /\ ret' = s[k]
      /\ k \notin 1 .. n => UNCHANGED <<ptr, size>> /\ ret' = Nil
    BY <1>1, TakeIs
<1>3. k = Sequence!Position(i)
    BY DEF PlaceOf, Sequence!Position
<1>4. n \in Nat
    BY <1>1
<1>5. CASE k \in 1 .. n
    <2> DEFINE t == Dropped(s, k)
    <2>1. ASSUME whole' # Nil PROVE Reaches(t, iter', seen', whole')
        <3>1. whole' = whole /\ iter < 0 /\ i = iter
            BY <2>1
        <3>2. Reaches(s, iter, seen, whole)
            BY <1>1, <2>1, <3>1
        <3>3. iter \in -1 - n .. -1 /\ whole = seen \o RestOf(s, iter)
            BY <3>2 DEF Reaches
        <3>4. k = n + 1 + iter
            BY <3>1 DEF PlaceOf
        <3> HIDE DEF n, k, s
        <3>5. k <= n + 1 + iter
            BY <1>4, <3>3, <3>4
        <3>6. RestOf(t, iter) = RestOf(s, iter)
            BY <1>1, <1>5, <3>3, <3>5, RestDropped DEF n
        <3>7. Len(t) = n - 1
            BY <1>1, <1>5, DroppedIs DEF n
        <3> HIDE DEF t
        <3>8. iter \in -1 - Len(t) .. -1
            BY <1>4, <1>5, <3>3, <3>4, <3>7
        <3> QED
            BY <3>1, <3>3, <3>6, <3>8 DEF Reaches
    <2>2. whole' = Nil \/ whole' \in Seq(Node)
        BY <1>1
    <2>3. ret' \in Node \cup {Nil}
        BY <1>1, <1>2, <1>5
    <2> HIDE DEF t, k, s
    <2>4. IInv' /\ Contents' = t
        BY <1>1, <1>2, <1>5, <2>1, <2>2, <2>3, Keeps DEF t
    <2>5. Sequence!RemoveAt(s, k) = t
        BY <1>1, <1>5, RemoveAtIs DEF t
    <2> QED
        BY <1>2, <1>3, <1>5, <2>4, <2>5 DEF Sequence!TakeAt, s
<1>6. CASE k \notin 1 .. n
    <2>1. UNCHANGED <<ptr, size, used>> /\ ret' = Nil
        BY <1>2, <1>6
    <2>2. whole' # Nil => Reaches(s, iter', seen', whole')
        BY <1>1
    <2>3. whole' = Nil \/ whole' \in Seq(Node)
        BY <1>1
    <2>4. ListAs(ptr', size', used', s)
        BY <1>1, <2>1
    <2>5. ret' \in Node \cup {Nil}
        BY <2>1
    <2> HIDE DEF k, s
    <2>6. IInv' /\ Contents' = s
        BY <1>1, <1>2, <2>2, <2>3, <2>4, <2>5, Keeps
    <2> QED
        BY <1>3, <1>6, <2>1, <2>6 DEF Sequence!TakeAt, s
<1> QED
    BY <1>5, <1>6

\* A step that leaves the nodes alone.
LEMMA StayKeeps ==
    ASSUME IInv, UNCHANGED <<ptr, size, used, fault>>, iter' \in IterRange,
           ret' \in Node \cup {Nil}, seen' \in Seq(Node), whole' = Nil \/ whole' \in Seq(Node),
           whole' # Nil => Reaches(Contents, iter', seen', whole')
    PROVE  IInv' /\ Contents' = Contents
<1> DEFINE s == Contents
<1>1. /\ ptr \in Pointers /\ size \in 0 .. Cardinality(used) /\ used \subseteq Node /\ fault = FALSE
      /\ Fresh /\ ListAs(ptr, size, used, s)
    BY InvFacts
<1>2. ptr' \in Pointers /\ size' \in 0 .. Cardinality(used') /\ used' \subseteq Node /\ fault' = FALSE
    BY <1>1
<1>3. Fresh'
    BY <1>1 DEF Fresh
<1>4. ListAs(ptr', size', used', s)
    BY <1>1
<1> HIDE DEF s
<1>5. whole' # Nil => Reaches(s, iter', seen', whole')
    BY DEF s
<1>6. IInv' /\ Contents' = s
    BY <1>2, <1>3, <1>4, <1>5, Keeps
<1> QED
    BY <1>6 DEF s

\* Where an iteration meets x.
LEMMA MeetsIs ==
    ASSUME NEW s, ListAs(ptr, size, used, s), NEW x \in Node
    PROVE  /\ Meets(x) \in Int /\ Meets(x) < 0
           /\ \A j \in 1 .. Len(s) : s[j] = x => PlaceOf(s, Meets(x)) = j /\ list_get(Meets(x)) = x
           /\ (\A j \in 1 .. Len(s) : s[j] # x) => Meets(x) = -1 /\ list_get(Meets(x)) # x
<1> DEFINE n == Len(s)
           hits == {k \in -size .. -1 : list_get(k) = x}
<1>1. Linked(ptr, s) /\ n \in Nat /\ size = n
    BY Gaps DEF ListAs
<1>2. \A k \in -size .. -1 : list_get(k) = s[n + 1 + k] /\ n + 1 + k \in 1 .. n
    <2> SUFFICES ASSUME NEW k \in -size .. -1 PROVE list_get(k) = s[n + 1 + k] /\ n + 1 + k \in 1 .. n
        OBVIOUS
    <2>1. k \in Int /\ ~ (k >= 0) /\ n + 1 + k \in 1 .. n
        BY <1>1
    <2>2. list_get(k) = Elem(s, n + 1 + k)
        BY <1>1, <2>1, CursorIs DEF PlaceOf
    <2> QED
        BY <1>1, <2>1, <2>2, Gaps
<1>3. CASE \A j \in 1 .. n : s[j] # x
    <2>1. hits = {}
        BY <1>2, <1>3
    <2>2. Meets(x) = -1
        BY <2>1 DEF Meets
    <2>3. list_get(-1) = Elem(s, n)
        <3>1. PlaceOf(s, -1) = n
            BY <1>1 DEF PlaceOf
        <3> QED
            BY <1>1, <3>1, CursorIs
    <2>4. Elem(s, n) # x
        BY <1>3, NodeAssumption DEF Elem
    <2> QED
        BY <1>3, <2>2, <2>3, <2>4
<1>4. CASE \E j \in 1 .. n : s[j] = x
    <2>1. PICK j \in 1 .. n : s[j] = x
        BY <1>4
    <2>2. \A i \in 1 .. n : s[i] = x => i = j
        BY <1>1, <2>1 DEF Linked
    <2> DEFINE m == j - n - 1
    <2> HIDE DEF n
    <2>3. m \in -size .. -1 /\ n + 1 + m = j
        BY <1>1
    <2>4. list_get(m) = x
        BY <1>2, <2>1, <2>3
    <2>5. \A k \in hits : k = m
        <3> SUFFICES ASSUME NEW k \in hits PROVE k = m
            OBVIOUS
        <3>1. k \in -size .. -1 /\ s[n + 1 + k] = x /\ n + 1 + k \in 1 .. n
            BY <1>2
        <3>2. n + 1 + k = j
            BY <2>2, <3>1
        <3> QED
            BY <1>1, <3>1, <3>2
    <2>6. m \in hits
        BY <2>3, <2>4
    <2> HIDE DEF hits, m
    <2>7. \A k \in hits : m <= k
        <3>1. m \in Int
            BY <1>1, <2>3
        <3> QED
            BY <2>5, <3>1
    <2>8. Meets(x) = m
        <3>1. Meets(x) = CHOOSE k \in hits : \A i \in hits : k <= i
            BY <2>6 DEF Meets, hits
        <3>2. (CHOOSE k \in hits : \A i \in hits : k <= i) \in hits
            BY <2>6, <2>7
        <3> QED
            BY <2>5, <3>1, <3>2
    <2>9. PlaceOf(s, m) = j
        BY <1>1, <2>3 DEF PlaceOf, n
    <2>10. m \in Int /\ m < 0
        BY <1>1, <2>3
    <2> QED
        BY <2>1, <2>2, <2>4, <2>8, <2>9, <2>10 DEF n
<1> QED
    BY <1>3, <1>4

LEMMA InsertRefines ==
    ASSUME IInv, NEW i \in Index, NEW x \in Node, list_insert(i, x)
    PROVE  IInv' /\ Sequence!Insert(i, x)
<1>1. i \in Int
    BY IndexAssumption
<1>2. Put(i, x) /\ iter' = iter /\ fault' = fault /\ seen' = seen /\ ret' = Nil /\ whole' = Nil
      /\ call' = <<"insert", i, x>>
    BY DEF list_insert
<1>3. IInv' /\ Sequence!PutAt(i, x)
    BY <1>1, <1>2, PutKeeps
<1> QED
    BY <1>2, <1>3 DEF Sequence!Insert

LEMMA RemoveRefines ==
    ASSUME KeepsOne, IInv, NEW i \in Index, list_remove(i)
    PROVE  IInv' /\ Sequence!Delete(i)
<1>1. i \in Int
    BY IndexAssumption
<1>2. Take(i) /\ used' = used /\ iter' = iter /\ seen' = seen /\ whole' = Nil /\ call' = <<"remove", i>>
    BY DEF list_remove
<1>3. IInv' /\ Sequence!TakeAt(i)
    BY <1>1, <1>2, TakeKeeps
<1> QED
    BY <1>2, <1>3 DEF Sequence!Delete

LEMMA GetRefines ==
    ASSUME IInv, NEW i \in Index, list_get_(i)
    PROVE  IInv' /\ Sequence!Get(i)
<1> DEFINE s == Contents
<1>1. i \in Int
    BY IndexAssumption
<1>2. /\ call' = <<"get", i>> /\ ret' = list_get(i)
      /\ UNCHANGED <<ptr, size, used, fault>> /\ iter' = iter /\ seen' = seen /\ whole' = whole
    BY DEF list_get_
<1>3. /\ Linked(ptr, s) /\ s \in Seq(Node) /\ iter \in IterRange /\ seen \in Seq(Node)
      /\ whole = Nil \/ whole \in Seq(Node)
      /\ whole # Nil => Reaches(s, iter, seen, whole)
    BY InvFacts
<1>4. ret' = Elem(s, PlaceOf(s, i))
    BY <1>1, <1>2, <1>3, CursorIs
<1>5. ret' \in Node \cup {Nil}
    BY <1>3, <1>4 DEF Elem
<1>6. IInv' /\ Contents' = Contents
    BY <1>2, <1>3, <1>5, StayKeeps
<1>7. PlaceOf(s, i) = Sequence!Position(i)
    BY DEF PlaceOf, Sequence!Position
<1> QED
    BY <1>2, <1>4, <1>6, <1>7 DEF Sequence!Get, Elem

LEMMA FindRefines ==
    ASSUME IInv, NEW x \in Node, list_get__data(x)
    PROVE  IInv' /\ Sequence!Find(x)
<1> DEFINE s == Contents
<1>1. /\ call' = <<"find", x>> /\ ret' = IF list_get(Meets(x)) = x THEN x ELSE Nil
      /\ UNCHANGED <<ptr, size, used, fault>> /\ iter' = iter /\ seen' = seen /\ whole' = whole
    BY DEF list_get__data
<1>2. /\ ListAs(ptr, size, used, s) /\ iter \in IterRange /\ seen \in Seq(Node)
      /\ whole = Nil \/ whole \in Seq(Node)
      /\ whole # Nil => Reaches(s, iter, seen, whole)
    BY InvFacts
<1>3. IInv' /\ Contents' = Contents
    BY <1>1, <1>2, StayKeeps
<1>4. list_get(Meets(x)) = x <=> \E j \in 1 .. Len(s) : s[j] = x
    BY <1>2, MeetsIs
<1> QED
    BY <1>1, <1>3, <1>4 DEF Sequence!Find, Sequence!Contains

LEMMA RemoveDataRefines ==
    ASSUME KeepsOne, IInv, NEW x \in Node, list_remove__data(x)
    PROVE  IInv' /\ Sequence!RemoveData(x)
<1> DEFINE s == Contents
           n == Len(s)
<1>1. /\ call' = <<"remove_data", x>> /\ used' = used /\ iter' = iter /\ seen' = seen /\ whole' = Nil
      /\ IF size > 0 /\ list_get(Meets(x)) = x
           THEN Take(Meets(x))
           ELSE ret' = (IF size = 0 THEN Nil ELSE list_get(-1)) /\ UNCHANGED <<ptr, size, fault>>
    BY DEF list_remove__data
<1>2. /\ ListAs(ptr, size, used, s) /\ Linked(ptr, s) /\ s \in Seq(Node) /\ size = n /\ n \in Nat
      /\ iter \in IterRange /\ seen \in Seq(Node)
    BY InvFacts
<1>3. CASE \E j \in 1 .. n : s[j] = x
    <2>1. PICK j \in 1 .. n : s[j] = x
        BY <1>3
    <2>2. size > 0
        BY <1>2
    <2>3. Meets(x) \in Int /\ PlaceOf(s, Meets(x)) = j /\ list_get(Meets(x)) = x
        BY <1>2, <2>1, MeetsIs
    <2>4. IInv' /\ Sequence!TakeAt(Meets(x))
        BY <1>1, <2>2, <2>3, TakeKeeps
    <2>5. Sequence!Position(Meets(x)) = j
        BY <2>3 DEF PlaceOf, Sequence!Position
    <2>6. Contents' = Sequence!RemoveAt(s, j) /\ ret' = x
        BY <2>1, <2>4, <2>5 DEF Sequence!TakeAt
    <2> QED
        BY <1>1, <1>3, <2>1, <2>4, <2>6 DEF Sequence!RemoveData, Sequence!Contains
<1>4. CASE \A j \in 1 .. n : s[j] # x
    <2>1. list_get(Meets(x)) # x
        BY <1>2, <1>4, MeetsIs
    <2>2. ret' = (IF size = 0 THEN Nil ELSE list_get(-1)) /\ UNCHANGED <<ptr, size, fault>>
        BY <1>1, <2>1
    <2>3. list_get(-1) = Elem(s, n)
        <3>1. PlaceOf(s, -1) = n
            BY <1>2 DEF PlaceOf
        <3> QED
            BY <1>2, <3>1, CursorIs
    <2>4. size # 0 => Elem(s, n) = s[n] /\ s[n] \in Node
        BY <1>2, Gaps
    <2>5. ret' = (IF s = <<>> THEN Nil ELSE s[n]) /\ ret' \in Node \cup {Nil}
        <3>1. s = <<>> <=> size = 0
            BY <1>2
        <3> QED
            BY <2>2, <2>3, <2>4, <3>1
    <2>6. IInv' /\ Contents' = Contents
        BY <1>1, <1>2, <2>2, <2>5, StayKeeps
    <2> QED
        BY <1>1, <1>4, <2>5, <2>6 DEF Sequence!RemoveData, Sequence!Contains, Sequence!Last
<1> QED
    BY <1>3, <1>4

LEMMA IterRefines == ASSUME IInv, list_iter PROVE IInv' /\ Sequence!Iter
<1> DEFINE s == Contents
           n == Len(s)
<1>1. /\ call' = <<"iter">> /\ iter' = -1 * size - 1 /\ ret' = Nil /\ seen' = <<>> /\ whole' = s
      /\ UNCHANGED <<ptr, size, used, fault>>
    BY DEF list_iter
<1>2. /\ s \in Seq(Node) /\ size = n /\ n \in Nat /\ n <= Cardinality(Node) /\ Cardinality(Node) \in Nat
    BY InvFacts
<1>3. iter' = -1 - n /\ iter' \in IterRange
    BY <1>1, <1>2 DEF IterRange
<1>4. RestOf(s, -1 - n) = s
    <2>1. /\ RestOf(s, -1 - n) \in Seq(Node) /\ Len(RestOf(s, -1 - n)) = -1 - (-1 - n)
          /\ \A k \in 1 .. -1 - (-1 - n) : RestOf(s, -1 - n)[k] = s[n + 1 + (-1 - n) + k]
        BY <1>2, RestIs
    <2>2. \A k \in 1 .. n : n + 1 + (-1 - n) + k = k
        BY <1>2
    <2>3. -1 - (-1 - n) = n
        BY <1>2
    <2> QED
        BY <1>2, <2>1, <2>2, <2>3, SeqEqual
<1>5. Reaches(s, iter', seen', whole')
    <2>1. <<>> \o s = s
        BY <1>2
    <2>2. -1 - n \in -1 - n .. -1
        BY <1>2
    <2> QED
        BY <1>1, <1>3, <1>4, <2>1, <2>2 DEF Reaches
<1>6. seen' \in Seq(Node) /\ whole' \in Seq(Node)
    BY <1>1, <1>2
<1>7. IInv' /\ Contents' = Contents
    BY <1>1, <1>3, <1>5, <1>6, StayKeeps
<1>8. -1 - iter' = n /\ iter' # NoIter
    BY <1>2, <1>3 DEF NoIter
<1> QED
    BY <1>1, <1>7, <1>8 DEF Sequence!Iter

LEMMA IterNextRefines == ASSUME IInv, list_iter_next PROVE IInv' /\ Sequence!IterNext
<1> DEFINE s == Contents
           n == Len(s)
           k == n + 2 + iter
<1>1. /\ iter # NoIter /\ list_iter_has_next /\ call' = <<"next">> /\ iter' = iter + 1
      /\ ret' = list_get(iter') /\ seen' = (IF ret' = Nil THEN seen ELSE Append(seen, ret'))
      /\ UNCHANGED <<ptr, size, used, fault>> /\ whole' = whole
    <2>1. ret' = list_get(iter + 1) /\ iter' = iter + 1
        BY DEF list_iter_next, list_get, list_cursor, At
    <2> QED
        BY <2>1 DEF list_iter_next
<1>2. /\ ListAs(ptr, size, used, s) /\ Linked(ptr, s) /\ s \in Seq(Node) /\ size = n /\ n \in Nat
      /\ iter \in IterRange /\ iter \in Int /\ seen \in Seq(Node) /\ Cardinality(Node) \in Nat
      /\ whole = Nil \/ whole \in Seq(Node)
      /\ whole # Nil => Reaches(s, iter, seen, whole)
    BY InvFacts
<1>3. iter < -1 /\ size # 0
    <2>1. iter < 0
        BY <1>1, <1>2 DEF IterRange, NoIter
    <2> QED
        BY <1>1, <1>2, <2>1, HasNextIs
<1>4. iter' \in IterRange /\ iter' \in Int /\ iter' < 0
    BY <1>1, <1>2, <1>3 DEF IterRange
<1>5. ret' = Elem(s, k)
    <2>1. list_get(iter + 1) = Elem(s, PlaceOf(s, iter + 1))
        BY <1>2, CursorIs
    <2>2. PlaceOf(s, iter + 1) = k
        BY <1>2, <1>3 DEF PlaceOf
    <2>3. list_get(iter') = list_get(iter + 1)
        BY <1>1
    <2> QED
        BY <1>1, <2>1, <2>2, <2>3
<1>6. /\ k \in 1 .. n => ret' = s[k] /\ ret' \in Node /\ ret' # Nil
      /\ k \notin 1 .. n => ret' = Nil
    BY <1>2, <1>5, Gaps DEF Elem
<1>7. ret' \in Node \cup {Nil} /\ seen' \in Seq(Node)
    BY <1>1, <1>2, <1>6
<1>8. ASSUME whole' # Nil PROVE Reaches(s, iter', seen', whole')
    <2>1. iter \in -1 - n .. -1 /\ whole = seen \o RestOf(s, iter)
        BY <1>1, <1>2, <1>8 DEF Reaches
    <2>2. iter \in -1 - n .. -2 /\ k \in 1 .. n /\ iter + 1 \in -1 - n .. -1
        <3> HIDE DEF n
        <3> QED
            BY <1>2, <1>3, <2>1
    <2>3. seen' = Append(seen, s[k])
        BY <1>1, <1>6, <2>2
    <2>4. seen \o RestOf(s, iter) = Append(seen, s[k]) \o RestOf(s, iter + 1)
        BY <1>2, <2>2, RestNext
    <2> QED
        BY <1>1, <2>1, <2>2, <2>3, <2>4 DEF Reaches
<1>9. whole' = Nil \/ whole' \in Seq(Node)
    BY <1>1, <1>2
<1>10. IInv' /\ Contents' = Contents
    BY <1>1, <1>4, <1>7, <1>8, <1>9, StayKeeps
<1> DEFINE rest == -1 - iter
<1>11. rest > 0 /\ -1 - iter' = rest - 1 /\ iter' # NoIter
    BY <1>1, <1>2, <1>3 DEF NoIter
<1>12. ret' = IF rest <= n THEN s[n - rest + 1] ELSE Nil
    <2> HIDE DEF n
    <2>1. k \in 1 .. n <=> rest <= n
        BY <1>2, <1>3
    <2>2. k = n - rest + 1
        BY <1>2
    <2> HIDE DEF k, rest
    <2> QED
        BY <1>6, <2>1, <2>2
<1> QED
    BY <1>1, <1>10, <1>11, <1>12 DEF Sequence!IterNext

LEMMA IterFreeRefines == ASSUME IInv, list_iter_free PROVE IInv' /\ Sequence!IterFree
<1> DEFINE s == Contents
<1>1. /\ iter # NoIter /\ ~list_iter_has_next /\ call' = <<"done">> /\ iter' = NoIter
      /\ ret' = Nil /\ seen' = <<>> /\ whole' = Nil /\ UNCHANGED <<ptr, size, used, fault>>
    BY DEF list_iter_free
<1>2. /\ ListAs(ptr, size, used, s) /\ s \in Seq(Node) /\ size = Len(s)
      /\ iter \in IterRange /\ iter \in Int /\ Cardinality(Node) \in Nat
    BY InvFacts
<1>3. iter < 0
    BY <1>1, <1>2 DEF IterRange, NoIter
<1>4. size = 0 \/ iter = -1
    BY <1>1, <1>2, <1>3, HasNextIs
<1>5. s = <<>> \/ -1 - iter = 0
    BY <1>2, <1>4
<1>6. iter' \in IterRange /\ seen' \in Seq(Node)
    BY <1>1, <1>2 DEF IterRange, NoIter
<1>7. IInv' /\ Contents' = Contents
    BY <1>1, <1>6, StayKeeps
<1> QED
    BY <1>1, <1>5, <1>7 DEF Sequence!IterFree

\* An iterator that is open stands at -1 - rest.
LEMMA IterAt ==
    ASSUME IInv, iter # NoIter
    PROVE  /\ iter < 0 /\ iter \in Int
           /\ (IF iter = NoIter THEN -1 ELSE -1 - iter) >= 0
           /\ -1 - (IF iter = NoIter THEN -1 ELSE -1 - iter) = iter
           /\ -2 - (IF iter = NoIter THEN -1 ELSE -1 - iter) = iter - 1
<1>1. iter \in IterRange /\ iter \in Int /\ Cardinality(Node) \in Nat
    BY InvFacts
<1> QED
    BY <1>1 DEF IterRange, NoIter

LEMMA IterRemoveRefines == ASSUME KeepsOne, IInv, list_iter_remove PROVE IInv' /\ Sequence!IterRemove
<1>1. iter # NoIter /\ call' = <<"iter_remove">> /\ Take(iter)
      /\ used' = used /\ iter' = iter /\ seen' = seen /\ whole' = whole
    BY DEF list_iter_remove
<1>2. IInv' /\ Sequence!TakeAt(iter)
    BY <1>1, IterAt, TakeKeeps
<1> QED
    BY <1>1, <1>2, IterAt DEF Sequence!IterRemove

LEMMA IterPrependRefines ==
    ASSUME IInv, NEW x \in Node, list_iter_prepend(x) PROVE IInv' /\ Sequence!IterPrepend(x)
<1>1. iter # NoIter /\ call' = <<"iter_prepend", x>> /\ Put(iter - 1, x) /\ ret' = Nil
      /\ iter' = iter /\ fault' = fault /\ seen' = seen /\ whole' = whole
    BY DEF list_iter_prepend
<1>2. iter < 0 /\ iter - 1 \in Int
    BY <1>1, IterAt
<1>3. IInv' /\ Sequence!PutAt(iter - 1, x)
    BY <1>1, <1>2, PutKeeps
<1> QED
    BY <1>1, <1>3, IterAt DEF Sequence!IterPrepend

LEMMA IterAppendRefines ==
    ASSUME IInv, NEW x \in Node, list_iter_append(x) PROVE IInv' /\ Sequence!IterAppend(x)
<1>1. iter # NoIter /\ call' = <<"iter_append", x>> /\ Put(iter, x) /\ ret' = Nil
      /\ iter' = iter /\ fault' = fault /\ seen' = seen /\ whole' = whole
    BY DEF list_iter_append
<1>2. iter < 0 /\ iter \in Int
    BY <1>1, IterAt
<1>3. IInv' /\ Sequence!PutAt(iter, x)
    BY <1>1, <1>2, PutKeeps
<1> QED
    BY <1>1, <1>3, IterAt DEF Sequence!IterAppend

LEMMA Steps ==
    ASSUME KeepsOne, IInv, [Next]_vars
    PROVE  IInv' /\ [Sequence!Next]_(Sequence!vars)
<1>1. CASE UNCHANGED vars
    <2>1. UNCHANGED <<ptr, size, used, fault, iter, ret, seen, whole, call>>
        BY <1>1 DEF vars
    <2>2. /\ iter \in IterRange /\ ret \in Node \cup {Nil} /\ seen \in Seq(Node)
          /\ whole = Nil \/ whole \in Seq(Node)
          /\ whole # Nil => Reaches(Contents, iter, seen, whole)
        BY InvFacts
    <2>3. IInv' /\ Contents' = Contents
        BY <2>1, <2>2, StayKeeps
    <2> QED
        BY <2>1, <2>3 DEF Sequence!vars
<1>2. CASE \E i \in Index, x \in Node : list_insert(i, x)
    BY <1>2, InsertRefines DEF Sequence!Next
<1>3. CASE \E i \in Index : list_remove(i)
    BY <1>3, RemoveRefines DEF Sequence!Next
<1>4. CASE \E i \in Index : list_get_(i)
    BY <1>4, GetRefines DEF Sequence!Next
<1>5. CASE \E x \in Node : list_get__data(x)
    BY <1>5, FindRefines DEF Sequence!Next
<1>6. CASE \E x \in Node : list_remove__data(x)
    BY <1>6, RemoveDataRefines DEF Sequence!Next
<1>7. CASE list_iter
    BY <1>7, IterRefines DEF Sequence!Next
<1>8. CASE list_iter_next
    BY <1>8, IterNextRefines DEF Sequence!Next
<1>9. CASE list_iter_free
    BY <1>9, IterFreeRefines DEF Sequence!Next
<1>10. CASE list_iter_remove
    BY <1>10, IterRemoveRefines DEF Sequence!Next
<1>11. CASE \E x \in Node : list_iter_prepend(x)
    BY <1>11, IterPrependRefines DEF Sequence!Next
<1>12. CASE \E x \in Node : list_iter_append(x)
    BY <1>12, IterAppendRefines DEF Sequence!Next
<1> QED
    BY <1>1, <1>2, <1>3, <1>4, <1>5, <1>6, <1>7, <1>8, <1>9, <1>10, <1>11, <1>12 DEF Next

LEMMA Starts == Init => IInv /\ Sequence!Init
<1> SUFFICES ASSUME Init PROVE IInv /\ Sequence!Init
    OBVIOUS
<1>1. /\ ptr = [c \in Loc |-> Nil] /\ size = 0 /\ used = {} /\ iter = 0 /\ ret = Nil /\ fault = FALSE
      /\ seen = <<>> /\ whole = Nil /\ call = <<"new">>
    BY DEF Init, NoIter
<1> DEFINE s == <<>>
<1>2. s \in Seq(Node) /\ Len(s) = 0
    OBVIOUS
<1>3. Linked(ptr, s)
    <2>1. \A i \in 0 .. Len(s) : i = 0
        BY <1>2
    <2>2. After(s, 0) = HeadPtr /\ Before(s, 0) = TailPtr
        BY <1>2 DEF After, Before
    <2>3. Elem(s, 0) = Nil /\ Elem(s, 0 + 1) = Nil
        BY <1>2 DEF Elem
    <2>4. ptr[HeadPtr] = Nil /\ ptr[TailPtr] = Nil
        BY <1>1, Located
    <2> QED
        BY <1>2, <2>1, <2>2, <2>3, <2>4 DEF Linked
<1>4. ListAs(ptr, size, used, s)
    BY <1>1, <1>2, <1>3 DEF ListAs
<1>5. Contents = s
    BY <1>4, ContentsIs
<1>6. Fresh
    BY <1>1, Located DEF Fresh
<1>7. Cardinality(used) = 0 /\ Cardinality(Node) \in Nat
    BY <1>1, NodeAssumption, FS_EmptySet, FS_CardinalityType
<1>8. TypeOK
    <2>1. ptr \in [Loc -> Node \cup {Nil}]
        BY <1>1
    <2>2. size \in 0 .. Cardinality(used) /\ iter \in -Cardinality(Node) - 1 .. 0
        BY <1>1, <1>7
    <2>3. used \subseteq Node /\ ret \in Node \cup {Nil} /\ fault \in BOOLEAN
        BY <1>1
    <2>4. seen \in Seq(Node)
        BY <1>1, <1>2
    <2> QED
        BY <1>1, <2>1, <2>2, <2>3, <2>4 DEF TypeOK
<1>9. IInv
    BY <1>1, <1>4, <1>5, <1>6, <1>8 DEF IInv, Iterating
<1>10. Sequence!Init
    BY <1>1, <1>5 DEF Sequence!Init, NoIter
<1> QED
    BY <1>9, <1>10

-----------------------------------------------------------------------------
(* The theorems. *)

LEMMA Formed == IInv => WellFormed
<1> SUFFICES ASSUME IInv PROVE WellFormed
    OBVIOUS
<1> DEFINE s == Contents
<1>1. TypeOK /\ Linked(ptr, s) /\ size = Len(s) /\ size \in Nat
    BY InvFacts
<1> HIDE DEF s
<1>2. /\ \A i \in 0 .. size : At(Fwd[i]) = Elem(s, i + 1)
      /\ \A i \in 0 .. size : At(Back[i]) = Elem(s, size - i)
    <2> SUFFICES ASSUME NEW i \in 0 .. size PROVE At(Fwd[i]) = Elem(s, i + 1) /\ At(Back[i]) = Elem(s, size - i)
        OBVIOUS
    <2>1. i \in Nat /\ i <= size /\ size - i \in 0 .. size
        BY <1>1
    <2>2. Fwd[i] = After(s, i)
        BY <1>1, <2>1, WalkForth
    <2>3. Back[i] = Before(s, size - i)
        BY <1>1, <2>1, WalkBack
    <2>4. After(s, i) # Out /\ Before(s, size - i) # Out
        BY <1>1, <2>1, Gaps
    <2>5. ptr[After(s, i)] = Elem(s, i + 1) /\ ptr[Before(s, size - i)] = Elem(s, size - i)
        BY <1>1, <2>1 DEF Linked
    <2> QED
        BY <2>2, <2>3, <2>4, <2>5 DEF At
<1>3. ASSUME NEW i \in 0 .. size - 1 PROVE At(Fwd[i]) # Nil /\ At(Fwd[i]) = At(Back[size - 1 - i])
    <2>1. /\ i \in 0 .. size /\ size - 1 - i \in 0 .. size
          /\ size - (size - 1 - i) = i + 1 /\ i + 1 \in 1 .. size
        BY <1>1
    <2>2. Elem(s, i + 1) # Nil
        BY <1>1, <2>1, Gaps
    <2>3. At(Fwd[i]) = Elem(s, i + 1)
        BY <1>2, <2>1
    <2>4. At(Back[size - 1 - i]) = Elem(s, i + 1)
        BY <1>2, <2>1
    <2> QED
        BY <2>2, <2>3, <2>4
<1>4. At(Fwd[size]) = Nil /\ At(Back[size]) = Nil
    <2>1. size \in 0 .. size /\ size - size = 0
        BY <1>1
    <2>2. Elem(s, size + 1) = Nil /\ Elem(s, 0) = Nil
        BY <1>1, Gaps
    <2> QED
        BY <1>2, <2>1, <2>2
<1> QED
    BY <1>1, <1>3, <1>4 DEF WellFormed

LEMMA Complete == IInv => IterationComplete
<1> SUFFICES ASSUME IInv, whole # Nil, iter # NoIter, ~list_iter_has_next PROVE seen = whole
    BY DEF IterationComplete
<1> DEFINE s == Contents
<1>1. /\ ListAs(ptr, size, used, s) /\ s \in Seq(Node) /\ size = Len(s) /\ size \in Nat
      /\ seen \in Seq(Node) /\ Reaches(s, iter, seen, whole)
    BY InvFacts
<1>2. iter < 0 /\ iter \in Int
    BY IterAt
<1>3. size = 0 \/ iter = -1
    BY <1>1, <1>2, HasNextIs
<1>4. iter \in -1 - size .. -1 /\ whole = seen \o RestOf(s, iter)
    BY <1>1 DEF Reaches
<1>5. iter = -1
    BY <1>1, <1>3, <1>4
<1>6. RestOf(s, iter) \in Seq(Node) /\ Len(RestOf(s, iter)) = 0
    <2>1. Len(RestOf(s, iter)) = -1 - iter /\ RestOf(s, iter) \in Seq(Node)
        BY <1>1, <1>4, RestIs
    <2> QED
        BY <1>5, <2>1
<1>7. RestOf(s, iter) = <<>>
    BY <1>6
<1> QED
    BY <1>1, <1>4, <1>7

\* For any nodes and indexes, whatever is inserted and removed where, the two
\* chains of a list are the same nodes, both of its size, as long as the only node
\* stays (list.c:184-189 leaves the tail pointing at it).
THEOREM BothChains == ASSUME KeepsOne PROVE Spec => []WellFormed
<1>1. IInv /\ [Next]_vars => IInv'
    BY Steps
<1> QED
    BY Starts, Formed, <1>1, PTL DEF Spec

\* For any nodes and indexes, an iteration that only its own iterator disturbs
\* returns the nodes there were when it began, each once and in order.
THEOREM IteratesAll == ASSUME KeepsOne PROVE Spec => []IterationComplete
<1>1. IInv /\ [Next]_vars => IInv'
    BY Steps
<1> QED
    BY Starts, Complete, <1>1, PTL DEF Spec

\* For any nodes and indexes the list is the sequence of ListSeq, in its contents,
\* its results and the place of its iterator.
THEOREM ImplementsSequence == ASSUME KeepsOne PROVE Spec => SequenceSpec
<1>1. IInv /\ [Next]_vars => IInv'
    BY Steps
<1>2. IInv /\ [Next]_vars => [Sequence!Next]_(Sequence!vars)
    BY Steps
<1> QED
    BY Starts, <1>1, <1>2, PTL DEF Spec, SequenceSpec, Sequence!Spec
=============================================================================
