--------------------------- MODULE RingBuf_proofs ---------------------------
(***************************************************************************)
(* Proofs about RingBuf, for every size of the ring and every byte set.    *)
(***************************************************************************)
EXTENDS RingBuf, TLAPS, SequenceTheorems, WellFoundedInduction

-----------------------------------------------------------------------------
(* Arithmetic on slots. *)

\* One lap of the ring: what % N is for an offset below two laps.
LEMMA OneLap ==
    ASSUME NEW a \in 0 .. 2 * N - 1
    PROVE  a % N = IF a < N THEN a ELSE a - N
BY NAssumption, SMT

\* A cursor that has moved len of the k slots to a second one has k - len to go.
LEMMA LapRest ==
    ASSUME NEW r \in Slot, NEW k \in 0 .. N, NEW len \in 0 .. k, len < N
    PROVE  (((r + len) % N) + (k - len)) % N = (r + k) % N
<1> DEFINE a == (r + len) % N
<1>1. r + len \in 0 .. 2 * N - 1 /\ r + k \in 0 .. 2 * N - 1
    BY NAssumption DEF Slot
<1>2. a = IF r + len < N THEN r + len ELSE r + len - N
    BY <1>1, OneLap, NAssumption DEF Slot
<1>3. (r + k) % N = IF r + k < N THEN r + k ELSE r + k - N
    BY <1>1, OneLap, NAssumption DEF Slot
<1> HIDE DEF a
<1>4. a \in Int /\ a + (k - len) \in 0 .. 2 * N - 1
    BY <1>2, NAssumption DEF Slot
<1>5. (a + (k - len)) % N = IF a + (k - len) < N THEN a + (k - len) ELSE a + (k - len) - N
    BY <1>4, OneLap, NAssumption DEF Slot
<1>6. (a + (k - len)) % N = (r + k) % N
    BY <1>2, <1>3, <1>5, NAssumption DEF Slot
<1> QED
    BY <1>6 DEF a

\* Moving k slots and then len more is moving k + len.
LEMMA LapTwice ==
    ASSUME NEW r \in Slot, NEW k \in 0 .. N, NEW len \in 0 .. N - k, len < N
    PROVE  (((r + k) % N) + len) % N = (r + (k + len)) % N
<1> DEFINE a == (r + k) % N
<1>1. r + (k + len) \in 0 .. 2 * N - 1 /\ r + k \in 0 .. 2 * N - 1
    BY NAssumption DEF Slot
<1>2. a = IF r + k < N THEN r + k ELSE r + k - N
    BY <1>1, OneLap, NAssumption DEF Slot
<1>3. (r + (k + len)) % N = IF r + (k + len) < N THEN r + (k + len) ELSE r + (k + len) - N
    BY <1>1, OneLap, NAssumption DEF Slot
<1> HIDE DEF a
<1>4. a \in Int /\ a + len \in 0 .. 2 * N - 1
    BY <1>2, NAssumption DEF Slot
<1>5. (a + len) % N = IF a + len < N THEN a + len ELSE a + len - N
    BY <1>4, OneLap, NAssumption DEF Slot
<1>6. (a + len) % N = (r + (k + len)) % N
    BY <1>2, <1>3, <1>5, NAssumption DEF Slot
<1> QED
    BY <1>6 DEF a

\* AtMost is the minimum (the clamps of ringbuf_read and ringbuf_r_offset).
LEMMA AtMostIsMin ==
    ASSUME NEW a \in Int, NEW b \in Int
    PROVE  AtMost(a, b) \in {a, b} /\ AtMost(a, b) <= a /\ AtMost(a, b) <= b
BY DEF AtMost

\* memcpy keeps the array an array of bytes.
LEMMA MemCpyType ==
    ASSUME NEW b \in [Slot -> Byte], NEW a \in Nat, NEW s \in Seq(Byte)
    PROVE  MemCpy(b, a, s) \in [Slot -> Byte]
<1> SUFFICES ASSUME NEW i \in Slot, i \in a .. a + Len(s) - 1
             PROVE  s[i - a + 1] \in Byte
    BY DEF MemCpy
<1>1. i - a + 1 \in 1 .. Len(s)
    BY NAssumption DEF Slot
<1> QED
    BY <1>1, ElementOfSeq

\* There is a well-founded relation that contains < on the naturals.
LEMMA LessIsWellFounded ==
    \E R : IsWellFoundedOn(R, Nat) /\ \A a, b \in Nat : a < b => <<a, b>> \in R
<1>1. \A a, b \in Nat : a < b => <<a, b>> \in OpToRel(<, Nat)
    <2> SUFFICES ASSUME NEW a \in Nat, NEW b \in Nat, a < b
                 PROVE  <<a, b>> \in OpToRel(<, Nat)
        BY Zenon
    <2>1. <<a, b>> \in Nat \X Nat /\ <<a, b>>[1] < <<a, b>>[2]
        OBVIOUS
    <2> QED
        BY <2>1, Zenon DEF OpToRel
<1> QED
    BY <1>1, NatLessThanWellFounded, Zenon

\* A set of naturals that is not empty has a least element.
LEMMA LeastElement ==
    ASSUME NEW T, T \subseteq Nat, T # {}
    PROVE  \E i \in T : \A j \in T : i <= j
<1>1. PICK R : IsWellFoundedOn(R, Nat) /\ \A a, b \in Nat : a < b => <<a, b>> \in R
    BY LessIsWellFounded, Zenon
<1>2. IsWellFoundedOn(R, Nat)
    BY <1>1, Zenon
<1>3. PICK i \in T : \A j \in T : ~ (<<j, i>> \in R)
    BY <1>2, WFMin, Zenon
<1>4. ASSUME NEW j \in T PROVE i <= j
    <2>1. i \in Nat /\ j \in Nat
        OBVIOUS
    <2>2. ~ (j < i)
        BY <1>1, <1>3, <2>1, Zenon
    <2> QED
        BY <2>1, <2>2
<1> QED
    BY <1>4

-----------------------------------------------------------------------------
(* The invariant: types and the agreement of the cursors, together. *)

IInv == TypeOK /\ CursorsAgree

LEMMA InitInv == Init => IInv
<1> SUFFICES ASSUME Init PROVE IInv
    OBVIOUS
<1>1. TypeOK
    <2>1. buffer \in [Slot -> Byte] /\ out \in Seq(Byte)
        BY ByteAssumption DEF Init
    <2>2. size \in 0 .. N /\ ret \in -1 .. N /\ r_cursor \in Cursor /\ w_cursor \in Cursor
        BY NAssumption DEF Init, Slot, Cursor
    <2> QED
        BY <2>1, <2>2 DEF Init, TypeOK
<1>2. CursorsAgree
    BY NAssumption, NullAssumption DEF Init, CursorsAgree
<1> QED
    BY <1>1, <1>2 DEF IInv

\* ringbuf_reset leaves an empty ring with two null cursors.
LEMMA ResetInv == ASSUME IInv, Reset PROVE IInv'
<1>1. TypeOK'
    <2>1. buffer' \in [Slot -> Byte] /\ out' \in Seq(Byte)
        BY ByteAssumption DEF Reset
    <2>2. size' \in 0 .. N /\ ret' \in -1 .. N /\ r_cursor' \in Cursor /\ w_cursor' \in Cursor
        BY NAssumption DEF Reset, Cursor
    <2> QED
        BY <2>1, <2>2 DEF Reset, IInv, TypeOK, Slot
<1>2. CursorsAgree'
    BY NAssumption, NullAssumption DEF Reset, CursorsAgree
<1> QED
    BY <1>1, <1>2 DEF IInv

\* The index ringbuf_find returns is -1 or below the fill count.
LEMMA FindIndexRange ==
    ASSUME size \in 0 .. N, NEW c
    PROVE  FindIndex(c) \in -1 .. size - 1
<1> DEFINE hits == {i \in 0 .. size - 1 : buffer[ROffset(i)] = c}
<1>1. CASE hits = {}
    BY <1>1, NAssumption DEF FindIndex
<1>2. CASE hits # {}
    <2>1. \E i \in hits : \A j \in hits : i <= j
        <3>1. hits \subseteq Nat
            OBVIOUS
        <3> QED
            BY <1>2, <3>1, LeastElement
    <2>2. FindIndex(c) = CHOOSE i \in hits : \A j \in hits : i <= j
        BY <1>2 DEF FindIndex
    <2> QED
        BY <2>1, <2>2
<1> QED
    BY <1>1, <1>2

\* ringbuf_find moves nothing, whether it returns or crashes.
LEMMA FindInv == ASSUME IInv, NEW c \in Byte, Find(c) PROVE IInv'
<1>1. ring' = ring /\ out' \in Seq(Byte) /\ ret' \in -1 .. N /\ fault' \in BOOLEAN
    <2>1. CASE size > 0 /\ r_cursor = NULL
        BY <2>1 DEF Find, Crash, IInv, TypeOK
    <2>2. CASE ~ (size > 0 /\ r_cursor = NULL)
        <3>1. ret' = FindIndex(c) /\ out' = <<>> /\ UNCHANGED <<ring, fault>>
            BY <2>2 DEF Find
        <3> QED
            BY <3>1, FindIndexRange, NAssumption DEF IInv, TypeOK
    <2> QED
        BY <2>1, <2>2
<1> QED
    BY <1>1 DEF IInv, TypeOK, CursorsAgree, ring

\* What ReadLen asks of the two halves of the ring (ringbuf_read 111-116).
LEMMA ReadLenRange ==
    ASSUME size \in 0 .. N, NEW n \in Int, n > 0
    PROVE  ReadLen(n) \in 0 .. size /\ ReadLen(n) <= N - size
BY NAssumption DEF ReadLen, AtMost

\* A read cursor inside the array stays there, len slots on.
LEMMA ROffsetIsModular ==
    ASSUME TypeOK, r_cursor # NULL, NEW len \in 0 .. size, len < N
    PROVE  ROffset(len) \in Slot /\ ROffset(len) = (r_cursor + len) % N
<1>1. r_cursor \in Slot /\ r_cursor + len \in 0 .. 2 * N - 1
    BY NAssumption DEF TypeOK, Cursor, Slot
<1>2. ROffset(len) = IF r_cursor + len < N THEN r_cursor + len ELSE r_cursor + len - N
    BY NAssumption, <1>1 DEF ROffset, Advance, Reduced, AtMost, TypeOK
<1> QED
    BY NAssumption, <1>1, <1>2, OneLap DEF Slot

\* Likewise for the write cursor.
LEMMA WOffsetIsModular ==
    ASSUME TypeOK, w_cursor # NULL, NEW len \in 0 .. N - 1
    PROVE  WOffset(len) \in Slot /\ WOffset(len) = (w_cursor + len) % N
<1>1. w_cursor \in Slot /\ w_cursor + len \in 0 .. 2 * N - 1
    BY NAssumption DEF TypeOK, Cursor, Slot
<1>2. WOffset(len) = IF w_cursor + len < N THEN w_cursor + len ELSE w_cursor + len - N
    BY NAssumption, <1>1 DEF WOffset, Advance, Reduced
<1> QED
    BY NAssumption, <1>1, <1>2, OneLap DEF Slot

\* memcpy out of the ring stays inside the array (ringbuf_read 118-124).
LEMMA ReadBytesType ==
    ASSUME TypeOK, r_cursor # NULL, NEW len \in 1 .. size, len < N
    PROVE  ReadBytes(len) \in Seq(Byte)
<1>1. ASSUME NEW a \in Slot, NEW n \in 0 .. N, a + n <= N
      PROVE  Bytes(a, n) \in Seq(Byte)
    <2>1. \A i \in 1 .. n : buffer[a + i - 1] \in Byte
        BY <1>1, NAssumption DEF TypeOK, Slot
    <2> QED
        BY <2>1, NAssumption DEF Bytes
<1>2. r_cursor \in Slot /\ size \in 0 .. N
    BY DEF TypeOK, Cursor
<1>3. CASE r_cursor + len > N
    <2>1. ReadBytes(len) = Bytes(r_cursor, N - r_cursor) \o Bytes(0, len - (N - r_cursor))
        BY <1>3 DEF ReadBytes
    <2>2. Bytes(r_cursor, N - r_cursor) \in Seq(Byte)
        BY <1>1, <1>2, NAssumption DEF Slot
    <2>3. Bytes(0, len - (N - r_cursor)) \in Seq(Byte)
        BY <1>1, <1>2, <1>3, NAssumption DEF Slot
    <2> QED
        BY <2>1, <2>2, <2>3
<1>4. CASE ~ (r_cursor + len > N)
    BY <1>1, <1>2, <1>4, NAssumption DEF ReadBytes, Slot
<1> QED
    BY <1>3, <1>4

LEMMA ReadInv == ASSUME IInv, NEW n \in ReadSize, Read(n) PROVE IInv'
<1>1. n \in Int /\ TypeOK /\ CursorsAgree /\ size \in 0 .. N
    BY ArgAssumption DEF IInv, TypeOK
<1>2. CASE n <= 0 \/ ReadLen(n) = 0
    <2>1. ring' = ring /\ out' = <<>> /\ ret' = 0 /\ fault' = fault
        BY <1>2 DEF Read, ReadNothing
    <2> QED
        BY <1>1, <2>1, NAssumption DEF IInv, TypeOK, CursorsAgree, ring
<1>3. CASE n > 0 /\ ReadLen(n) # 0
    <2> DEFINE len == ReadLen(n)
    <2>1. len \in 1 .. size /\ len <= N - size /\ len < N
        BY <1>1, <1>3, ReadLenRange, NAssumption
    <2>2. r_cursor # NULL /\ w_cursor # NULL /\ w_cursor = (r_cursor + size) % N
        BY <1>1, <2>1 DEF CursorsAgree
    <2>3. /\ out' = ReadBytes(len) /\ ret' = len
          /\ r_cursor' = ROffset(len) /\ size' = size - len
          /\ buffer' = buffer /\ w_cursor' = w_cursor /\ fault' = fault
        BY <1>1, <1>3, <2>2 DEF Read, ReadSome
    <2> HIDE DEF len
    <2>4. r_cursor \in Slot /\ w_cursor \in Slot
        BY <1>1, <2>2 DEF TypeOK, Cursor
    <2>5. ROffset(len) \in Slot /\ ROffset(len) = (r_cursor + len) % N
        BY <1>1, <2>1, <2>2, ROffsetIsModular
    <2>6. TypeOK'
        <3>1. out' \in Seq(Byte)
            BY <1>1, <2>1, <2>3, <2>2, ReadBytesType
        <3>2. size' \in 0 .. N /\ ret' \in -1 .. N
            BY <1>1, <2>1, <2>3, NAssumption
        <3> QED
            BY <1>1, <2>3, <2>5, <3>1, <3>2 DEF TypeOK, Cursor, Slot
    <2>7. w_cursor = (r_cursor' + size') % N
        <3>1. (((r_cursor + len) % N) + (size - len)) % N = (r_cursor + size) % N
            BY <1>1, <2>1, <2>4, LapRest
        <3> QED
            BY <2>3, <2>2, <2>5, <3>1
    <2>8. r_cursor' # NULL
        BY <2>3, <2>5, NullAssumption, NAssumption DEF Slot
    <2>9. CursorsAgree'
        BY <2>3, <2>2, <2>7, <2>8 DEF CursorsAgree
    <2> QED
        BY <2>6, <2>9 DEF IInv
<1> QED
    BY <1>1, <1>2, <1>3

\* A write of N bytes or more leaves a full ring whose read cursor is NULL.
LEMMA OverwriteInv ==
    ASSUME IInv, NEW s \in Seq(Byte), Len(s) >= N, Overwrite(s)
    PROVE  IInv'
<1> DEFINE tail == SubSeq(s, Len(s) - N + 1, Len(s))
<1>1. tail \in Seq(Byte)
    BY NAssumption
<1>2. MemCpy(buffer, 0, tail) \in [Slot -> Byte]
    BY <1>1, MemCpyType DEF IInv, TypeOK
<1>3. /\ buffer' = MemCpy(buffer, 0, tail) /\ size' = N /\ w_cursor' = 0
      /\ r_cursor' = NULL /\ out' = <<>> /\ ret' = N /\ fault' = fault
    BY DEF Overwrite
<1> HIDE DEF tail
<1>4. TypeOK'
    <2>1. size' \in 0 .. N /\ ret' \in -1 .. N /\ w_cursor' \in Cursor /\ r_cursor' \in Cursor
        BY <1>3, NAssumption DEF Cursor, Slot
    <2>2. out' \in Seq(Byte) /\ fault' \in BOOLEAN
        BY <1>3 DEF IInv, TypeOK
    <2> QED
        BY <1>2, <1>3, <2>1, <2>2 DEF TypeOK, Slot
<1>5. CursorsAgree'
    BY <1>3, NAssumption, NullAssumption DEF CursorsAgree
<1> QED
    BY <1>4, <1>5 DEF IInv

\* What a shorter write leaves in the array is an array of bytes.
LEMMA WrittenType ==
    ASSUME TypeOK, w_cursor # NULL, NEW s \in Seq(Byte), NEW n \in 0 .. Len(s)
    PROVE  Written(s, n) \in [Slot -> Byte]
<1>1. buffer \in [Slot -> Byte] /\ w_cursor \in Slot
    BY DEF TypeOK, Cursor
<1>2. ASSUME NEW i \in 1 .. n + 1, NEW j \in 0 .. n PROVE SubSeq(s, i, j) \in Seq(Byte)
    BY <1>2
<1>3. CASE w_cursor + n <= N
    <2>1. w_cursor \in Nat /\ SubSeq(s, 1, n) \in Seq(Byte)
        BY <1>1, <1>2, NAssumption DEF Slot
    <2>2. Written(s, n) = MemCpy(buffer, w_cursor, SubSeq(s, 1, n))
        BY <1>3 DEF Written
    <2> QED
        BY <1>1, <2>1, <2>2, MemCpyType
<1>4. CASE ~ (w_cursor + n <= N)
    <2> DEFINE part1 == N - w_cursor
    <2>1. part1 \in 1 .. n /\ part1 + 1 \in 1 .. n + 1 /\ w_cursor \in Nat
        BY <1>1, <1>4, NAssumption DEF Slot
    <2>2. SubSeq(s, 1, part1) \in Seq(Byte) /\ SubSeq(s, part1 + 1, n) \in Seq(Byte)
        BY <1>2, <2>1
    <2>3. Written(s, n) = MemCpy(MemCpy(buffer, w_cursor, SubSeq(s, 1, part1)),
                                 0, SubSeq(s, part1 + 1, n))
        BY <1>4 DEF Written
    <2> HIDE DEF part1
    <2>4. MemCpy(buffer, w_cursor, SubSeq(s, 1, part1)) \in [Slot -> Byte]
        BY <1>1, <2>1, <2>2, MemCpyType
    <2>5. MemCpy(MemCpy(buffer, w_cursor, SubSeq(s, 1, part1)), 0, SubSeq(s, part1 + 1, n))
            \in [Slot -> Byte]
        BY <2>2, <2>4, MemCpyType, 0 \in Nat, Zenon
    <2> QED
        BY <2>3, <2>5, Zenon
<1> QED
    BY <1>3, <1>4

\* A shorter write moves the write cursor by what it accepts.
LEMMA WriteShortInv ==
    ASSUME IInv, NEW s \in Seq(Byte), Len(s) \in 1 .. N - 1, w_cursor # NULL, WriteShort(s)
    PROVE  IInv'
<1> DEFINE len == WriteLen(s)
<1>1. TypeOK /\ CursorsAgree /\ size \in 0 .. N
    BY DEF IInv, TypeOK
<1>2. len \in 0 .. Len(s) /\ len <= N - size /\ len \in 0 .. N - 1
    BY <1>1, NAssumption DEF WriteLen
<1>3. /\ buffer' = Written(s, len) /\ w_cursor' = WOffset(len) /\ size' = size + len
      /\ out' = <<>> /\ ret' = len /\ r_cursor' = r_cursor /\ fault' = fault
    BY DEF WriteShort
<1> HIDE DEF len
<1>4. w_cursor \in Slot
    BY <1>1 DEF TypeOK, Cursor
<1>5. WOffset(len) \in Slot /\ WOffset(len) = (w_cursor + len) % N
    BY <1>1, <1>2, WOffsetIsModular
<1>6. TypeOK'
    <2>1. buffer' \in [Slot -> Byte]
        BY <1>1, <1>2, <1>3, WrittenType
    <2>2. size' \in 0 .. N /\ ret' \in -1 .. N
        BY <1>1, <1>2, <1>3, NAssumption
    <2>3. w_cursor' \in Cursor /\ r_cursor' \in Cursor
        BY <1>1, <1>3, <1>5 DEF TypeOK, Cursor
    <2>4. out' \in Seq(Byte) /\ fault' \in BOOLEAN
        BY <1>1, <1>3 DEF TypeOK
    <2> QED
        BY <2>1, <2>2, <2>3, <2>4 DEF TypeOK, Cursor, Slot
<1>7. w_cursor' # NULL
    BY <1>3, <1>5, NullAssumption, NAssumption DEF Slot
<1>8. CASE r_cursor = NULL
    <2>1. size = N \/ size = 0
        BY <1>1, <1>8 DEF CursorsAgree
    <2>2. size = N
        BY <1>1, <1>8, <2>1 DEF CursorsAgree
    <2>3. len = 0 /\ w_cursor = 0
        BY <1>1, <1>2, <1>8, <2>2, NAssumption DEF CursorsAgree
    <2> QED
        BY <1>3, <1>5, <1>6, <1>7, <1>8, <2>2, <2>3, OneLap, NAssumption DEF IInv, CursorsAgree
<1>9. CASE r_cursor # NULL
    <2>1. r_cursor \in Slot /\ w_cursor = (r_cursor + size) % N
        BY <1>1, <1>9 DEF TypeOK, Cursor, CursorsAgree
    <2>2. (((r_cursor + size) % N) + len) % N = (r_cursor + (size + len)) % N
        <3>1. len \in 0 .. N - size /\ len < N
            BY <1>1, <1>2, NAssumption
        <3> QED
            BY <1>1, <2>1, <3>1, LapTwice
    <2>3. w_cursor' = (r_cursor' + size') % N
        BY <1>3, <1>5, <2>1, <2>2
    <2> QED
        BY <1>3, <1>6, <1>7, <1>9, <2>3 DEF IInv, CursorsAgree
<1> QED
    BY <1>8, <1>9

LEMMA WriteInv == ASSUME IInv, NEW s \in Chunk, Write(s) PROVE IInv'
<1>1. s \in Seq(Byte) /\ Len(s) \in Nat
    BY ArgAssumption
<1>2. CASE ring' = ring /\ out' \in Seq(Byte) /\ ret' \in -1 .. N /\ fault' \in BOOLEAN
    BY <1>2 DEF IInv, TypeOK, CursorsAgree, ring
<1>3. CASE Len(s) = 0 /\ WriteNothing(s)
    BY <1>2, <1>3, NAssumption DEF WriteNothing, IInv, TypeOK
<1>4. CASE Len(s) >= N /\ Overwrite(s)
    BY <1>1, <1>4, OverwriteInv
<1>5. CASE Len(s) \in 1 .. N - 1 /\ w_cursor # NULL /\ WriteShort(s)
    BY <1>1, <1>5, WriteShortInv
<1>6. CASE Len(s) \in 1 .. N - 1 /\ w_cursor = NULL /\ Crash
    BY <1>2, <1>6 DEF Crash, IInv, TypeOK
<1> QED
    BY <1>3, <1>4, <1>5, <1>6 DEF Write

LEMMA NextInv == IInv /\ [Next]_vars => IInv'
<1> SUFFICES ASSUME IInv, [Next]_vars PROVE IInv'
    OBVIOUS
<1>1. CASE Reset
    BY <1>1, ResetInv
<1>2. ASSUME NEW c \in Byte, Find(c) PROVE IInv'
    BY <1>2, FindInv
<1>3. ASSUME NEW n \in ReadSize, Read(n) PROVE IInv'
    BY <1>3, ReadInv
<1>4. ASSUME NEW s \in Chunk, Write(s) PROVE IInv'
    BY <1>4, WriteInv
<1>5. CASE UNCHANGED vars
    BY <1>5 DEF IInv, TypeOK, CursorsAgree, vars, ring
<1> QED
    BY <1>1, <1>2, <1>3, <1>4, <1>5 DEF Next

\* The fields of ringbuf_t keep their types: no operation moves a cursor out
\* of the array or the fill count out of 0 .. N, for every N.
THEOREM TypeCorrect == Spec => []TypeOK
<1>1. Init => IInv
    BY InitInv
<1>2. IInv /\ [Next]_vars => IInv'
    BY NextInv
<1>3. IInv => TypeOK
    BY DEF IInv
<1> QED
    BY <1>1, <1>2, <1>3, PTL DEF Spec

\* The cursors and the fill count agree after every sequence of operations.
THEOREM CursorsCorrect == Spec => []CursorsAgree
<1>1. IInv => CursorsAgree
    BY DEF IInv
<1> QED
    BY InitInv, NextInv, <1>1, PTL DEF Spec

\* The cap of ringbuf_read makes a full ring undrainable: only a reset empties
\* it.  The step needs TypeOK (the fill is at most N) and nothing else.
THEOREM FullRingIsStuck == Spec => FullIsStuck
<1>1. TypeOK /\ [Next]_vars => [size = N => size' = N \/ Reset]_vars
    <2> SUFFICES ASSUME TypeOK, Next, size = N PROVE size' = N \/ Reset
        BY DEF vars
    <2>1. ASSUME NEW c \in Byte, Find(c) PROVE size' = size
        BY <2>1 DEF Find, Crash, ring
    <2>2. ASSUME NEW n \in ReadSize, Read(n) PROVE size' = size
        <3>1. n > 0 => ReadLen(n) = 0
            BY <2>2, ReadLenRange, NAssumption, ArgAssumption DEF TypeOK
        <3>2. n <= 0 \/ ReadLen(n) = 0
            BY <3>1, ArgAssumption
        <3> QED
            BY <2>2, <3>2 DEF Read, ReadNothing, ring
    <2>3. ASSUME NEW s \in Chunk, Write(s) PROVE size' = N
        <3>1. s \in Seq(Byte) /\ Len(s) \in Nat
            BY ArgAssumption
        <3>2. Len(s) \in 1 .. N - 1 => WriteLen(s) = 0
            BY <3>1, NAssumption DEF WriteLen
        <3> QED
            BY <2>3, <3>1, <3>2, NAssumption DEF Write, WriteNothing, Overwrite, WriteShort, Crash, ring
    <2> QED
        BY <2>1, <2>2, <2>3 DEF Next
<1> QED
    BY TypeCorrect, <1>1, PTL DEF Spec, FullIsStuck

-----------------------------------------------------------------------------
(* The ring as the queue of RingFifo: what each operation does to Contents. *)

\* One lap back: what % N is for an offset up to N below the first slot.
LEMMA LapBack ==
    ASSUME NEW a \in -N .. N - 1
    PROVE  a % N = IF a < 0 THEN a + N ELSE a
BY NAssumption, SMT

\* The slot of a byte of the contents, counted back from the write cursor.
FromBack(w, k, i) == IF w - k + i - 1 < 0 THEN w - k + i - 1 + N ELSE w - k + i - 1

LEMMA ContentsShape ==
    ASSUME TypeOK, w_cursor # NULL
    PROVE  /\ Contents = [i \in 1 .. size |-> buffer[FromBack(w_cursor, size, i)]]
           /\ \A i \in 1 .. size : FromBack(w_cursor, size, i) \in Slot
<1>1. w_cursor \in Slot /\ size \in 0 .. N
    BY DEF TypeOK, Cursor
<1>2. ASSUME NEW i \in 1 .. size
      PROVE  /\ (w_cursor - size + i - 1) % N = FromBack(w_cursor, size, i)
             /\ FromBack(w_cursor, size, i) \in Slot
    <2>1. w_cursor - size + i - 1 \in -N .. N - 1
        BY <1>1, NAssumption DEF Slot
    <2>2. (w_cursor - size + i - 1) % N = FromBack(w_cursor, size, i)
        BY <2>1, LapBack DEF FromBack
    <2>3. FromBack(w_cursor, size, i) \in Slot
        BY <2>1, <1>1, NAssumption DEF FromBack, Slot
    <2> QED
        BY <2>2, <2>3
<1> QED
    BY <1>2 DEF Contents

\* The contents are size bytes.
LEMMA ContentsType ==
    ASSUME IInv
    PROVE  Contents \in Seq(Byte) /\ Len(Contents) = size /\ DOMAIN Contents = 1 .. size
<1>1. TypeOK /\ CursorsAgree /\ size \in 0 .. N
    BY DEF IInv, TypeOK
<1>2. CASE w_cursor = NULL
    <2>1. size = 0
        BY <1>1, <1>2 DEF CursorsAgree
    <2>2. Contents = <<>>
        BY <2>1 DEF Contents
    <2> QED
        BY <2>1, <2>2
<1>3. CASE w_cursor # NULL
    <2>1. /\ Contents = [i \in 1 .. size |-> buffer[FromBack(w_cursor, size, i)]]
          /\ \A i \in 1 .. size : FromBack(w_cursor, size, i) \in Slot
        BY <1>1, <1>3, ContentsShape
    <2>2. \A i \in 1 .. size : buffer[FromBack(w_cursor, size, i)] \in Byte
        BY <1>1, <2>1 DEF TypeOK
    <2>3. size \in Nat
        BY <1>1, NAssumption
    <2> QED
        BY <2>1, <2>2, <2>3
<1> QED
    BY <1>2, <1>3

\* The slot of a byte of the contents, counted from the read cursor.
FromFront(r, i) == IF r + i - 1 < N THEN r + i - 1 ELSE r + i - 1 - N

LEMMA FrontIsBack ==
    ASSUME IInv, r_cursor # NULL, NEW i \in 1 .. size
    PROVE  /\ FromBack(w_cursor, size, i) = FromFront(r_cursor, i)
           /\ Contents[i] = buffer[FromFront(r_cursor, i)]
<1>1. r_cursor \in Slot /\ w_cursor \in Slot /\ size \in 0 .. N /\ w_cursor # NULL
    BY NullAssumption, NAssumption DEF IInv, TypeOK, CursorsAgree, Cursor, Slot
<1>2. w_cursor = (r_cursor + size) % N
    BY DEF IInv, CursorsAgree
<1>3. w_cursor = IF r_cursor + size < N THEN r_cursor + size ELSE r_cursor + size - N
    <2>1. r_cursor + size \in 0 .. 2 * N - 1
        BY <1>1, NAssumption DEF Slot
    <2> QED
        BY <1>1, <1>2, <2>1, OneLap, NAssumption DEF Slot
<1>4. FromBack(w_cursor, size, i) = FromFront(r_cursor, i)
    BY <1>1, <1>3, NAssumption DEF FromBack, FromFront, Slot
<1>5. Contents[i] = buffer[FromBack(w_cursor, size, i)]
    BY <1>1, ContentsShape DEF IInv
<1> QED
    BY <1>4, <1>5

\* The i-th call of ringbuf_r_offset in ringbuf_find is the i-th byte held.
LEMMA FindSees ==
    ASSUME IInv, r_cursor # NULL, NEW i \in 0 .. size - 1
    PROVE  buffer[ROffset(i)] = Contents[i + 1]
<1>1. r_cursor \in Slot /\ size \in 0 .. N /\ i < N
    BY NAssumption DEF IInv, TypeOK, Cursor
<1>2. ROffset(i) = FromFront(r_cursor, i + 1)
    BY <1>1, NAssumption DEF ROffset, Advance, Reduced, AtMost, FromFront, Slot
<1>3. i + 1 \in 1 .. size
    BY <1>1
<1> QED
    BY <1>2, <1>3, FrontIsBack

\* ringbuf_find is the queue's search, or dies.
LEMMA FindRefines ==
    ASSUME IInv, NEW c \in Byte, Find(c)
    PROVE  Fifo!Find(c) \/ UNCHANGED Fifo!vars
<1>1. size \in 0 .. N
    BY DEF IInv, TypeOK
<1>2. CASE size > 0 /\ r_cursor = NULL
    BY <1>2 DEF Find, Crash, ring, Fifo!vars, Contents
<1>3. CASE ~ (size > 0 /\ r_cursor = NULL)
    <2> DEFINE hits == {i \in 0 .. size - 1 : buffer[ROffset(i)] = c}
    <2>1. /\ ret' = FindIndex(c) /\ out' = <<>> /\ call' = <<"find", c>>
          /\ Contents' = Contents
        BY <1>3 DEF Find, ring, Contents
    <2>2. ASSUME NEW i \in 0 .. size - 1 PROVE buffer[ROffset(i)] = Contents[i + 1]
        BY <1>1, <1>3, FindSees
    <2>3. Len(Contents) = size
        BY ContentsType
    <2>4. \/ hits = {} /\ FindIndex(c) = -1
          \/ FindIndex(c) \in hits /\ \A j \in hits : FindIndex(c) <= j
        <3>1. CASE hits = {}
            BY <3>1 DEF FindIndex
        <3>2. CASE hits # {}
            <4>1. \E i \in hits : \A j \in hits : i <= j
                <5>1. hits \subseteq Nat
                    OBVIOUS
                <5> QED
                    BY <3>2, <5>1, LeastElement
            <4>2. FindIndex(c) = CHOOSE i \in hits : \A j \in hits : i <= j
                BY <3>2 DEF FindIndex
            <4> HIDE DEF hits
            <4> QED
                BY <4>1, <4>2
        <3> QED
            BY <3>1, <3>2
    <2>5. FindIndex(c) \in -1 .. size - 1
        BY <1>1, FindIndexRange
    <2>6. ASSUME NEW i \in 1 .. size, Contents[i] = c PROVE FindIndex(c) \in 0 .. i - 1
        <3>1. i - 1 \in 0 .. size - 1 /\ buffer[ROffset(i - 1)] = Contents[(i - 1) + 1]
            BY <1>1, <2>2
        <3>2. i - 1 \in hits
            BY <1>1, <2>6, <3>1
        <3>3. FindIndex(c) \in hits /\ FindIndex(c) <= i - 1
            BY <2>4, <3>2
        <3> QED
            BY <1>1, <2>5, <3>3
    <2>7. FindIndex(c) # -1 => Contents[FindIndex(c) + 1] = c
        <3>1. FindIndex(c) # -1 => FindIndex(c) \in hits
            BY <2>4
        <3> QED
            BY <2>2, <3>1
    <2> QED
        BY <2>1, <2>3, <2>5, <2>6, <2>7 DEF Fifo!Find
<1> QED
    BY <1>2, <1>3

\* What ringbuf_read copies out are the oldest bytes held.
LEMMA ReadBytesAreOldest ==
    ASSUME IInv, r_cursor # NULL, NEW len \in 1 .. size, len < N
    PROVE  ReadBytes(len) = SubSeq(Contents, 1, len)
<1>1. r_cursor \in Slot /\ size \in 0 .. N
    BY DEF IInv, TypeOK, Cursor
<1>2. ASSUME NEW i \in 1 .. len PROVE Contents[i] = buffer[FromFront(r_cursor, i)]
    <2>1. i \in 1 .. size
        BY <1>1
    <2> QED
        BY <2>1, FrontIsBack
<1>3. SubSeq(Contents, 1, len) = [i \in 1 .. len |-> Contents[i]]
    BY <1>1, ContentsType
<1>4. CASE r_cursor + len > N
    <2> DEFINE part1 == N - r_cursor
    <2>1. part1 \in 1 .. len - 1
        BY <1>1, <1>4, NAssumption DEF Slot
    <2>2. ReadBytes(len) = Bytes(r_cursor, part1) \o Bytes(0, len - part1)
        BY <1>4 DEF ReadBytes
    <2>3. /\ \A i \in 1 .. part1 : FromFront(r_cursor, i) = r_cursor + i - 1
          /\ \A i \in part1 + 1 .. len : FromFront(r_cursor, i) = 0 + (i - part1) - 1
        BY <1>1, NAssumption DEF Slot, FromFront
    <2> HIDE DEF part1
    <2>4. Bytes(r_cursor, part1) = [i \in 1 .. part1 |-> Contents[i]]
        <3>1. \A i \in 1 .. part1 : buffer[r_cursor + i - 1] = Contents[i]
            BY <1>2, <2>1, <2>3
        <3> QED
            BY <3>1 DEF Bytes
    <2>5. Bytes(0, len - part1) = [i \in 1 .. len - part1 |-> Contents[part1 + i]]
        <3>1. ASSUME NEW i \in 1 .. len - part1
              PROVE  buffer[0 + i - 1] = Contents[part1 + i]
            <4>1. part1 + i \in part1 + 1 .. len /\ part1 + i \in 1 .. len /\ (part1 + i) - part1 = i
                BY <2>1
            <4> QED
                BY <4>1, <1>2, <2>3
        <3> QED
            BY <3>1 DEF Bytes
    <2>6. [i \in 1 .. part1 |-> Contents[i]] \o [i \in 1 .. len - part1 |-> Contents[part1 + i]]
            = [i \in 1 .. len |-> Contents[i]]
        BY <2>1
    <2> QED
        BY <1>3, <2>2, <2>4, <2>5, <2>6
<1>5. CASE ~ (r_cursor + len > N)
    <2>1. \A i \in 1 .. len : FromFront(r_cursor, i) = r_cursor + i - 1
        BY <1>1, <1>5, NAssumption DEF Slot, FromFront
    <2>2. \A i \in 1 .. len : buffer[r_cursor + i - 1] = Contents[i]
        BY <1>2, <2>1
    <2>3. ReadBytes(len) = Bytes(r_cursor, len)
        BY <1>5 DEF ReadBytes
    <2> QED
        BY <1>3, <2>2, <2>3 DEF Bytes
<1> QED
    BY <1>4, <1>5

\* ringbuf_read takes a prefix of the contents, possibly none, or dies.
LEMMA ReadRefines ==
    ASSUME IInv, NEW n \in ReadSize, Read(n)
    PROVE  Fifo!Get(n) \/ UNCHANGED Fifo!vars
<1>1. n \in Int /\ TypeOK /\ CursorsAgree /\ size \in 0 .. N
    BY ArgAssumption DEF IInv, TypeOK
<1>2. Contents \in Seq(Byte) /\ Len(Contents) = size /\ DOMAIN Contents = 1 .. size
    BY ContentsType
<1>3. CASE n > 0 /\ ReadLen(n) # 0
    <2> DEFINE len == ReadLen(n)
    <2>1. len \in 1 .. size /\ len <= N - size /\ len < N
        BY <1>1, <1>3, ReadLenRange, NAssumption
    <2>2. len <= Fifo!Lesser(n, size)
        BY <1>1, <1>3, NAssumption DEF ReadLen, AtMost, Fifo!Lesser
    <2>3. r_cursor # NULL /\ w_cursor # NULL
        BY <1>1, <2>1 DEF CursorsAgree
    <2>4. /\ out' = ReadBytes(len) /\ ret' = len
          /\ size' = size - len /\ call' = <<"read", n>>
          /\ buffer' = buffer /\ w_cursor' = w_cursor
        BY <1>1, <1>3, <2>3 DEF Read, ReadSome
    <2> HIDE DEF len
    <2>5. out' = SubSeq(Contents, 1, len)
        BY <2>1, <2>3, <2>4, ReadBytesAreOldest
    <2>6. Contents' = SubSeq(Contents, len + 1, size)
        <3>1. Contents' = [i \in 1 .. size - len |-> buffer[(w_cursor - (size - len) + i - 1) % N]]
            BY <2>4 DEF Contents
        <3>2. w_cursor \in Slot
            BY <1>1, <2>3 DEF TypeOK, Cursor
        <3>3. ASSUME NEW i \in 1 .. size - len
              PROVE  Contents[i + len] = buffer[(w_cursor - (size - len) + i - 1) % N]
            <4>1. i + len \in 1 .. size
                BY <1>1, <2>1
            <4>2. w_cursor - size + (i + len) - 1 = w_cursor - (size - len) + i - 1
                BY <1>1, <2>1, <3>2, NAssumption DEF Slot
            <4> QED
                BY <4>1, <4>2 DEF Contents
        <3>4. Contents' = [i \in 1 .. size - len |-> Contents[i + len]]
            BY <3>1, <3>3
        <3>5. SubSeq(Contents, len + 1, size) = [i \in 1 .. size - len |-> Contents[i + len]]
            BY <1>1, <1>2, <2>1
        <3> QED
            BY <3>4, <3>5
    <2>7. len \in 0 .. Fifo!Lesser(n, size)
        BY <1>1, <2>1, <2>2 DEF Fifo!Lesser
    <2> QED
        BY <1>2, <2>4, <2>5, <2>6, <2>7 DEF Fifo!Get
<1>4. CASE n <= 0 \/ ReadLen(n) = 0
    <2>1. Contents' = Contents /\ out' = <<>> /\ ret' = 0 /\ call' = <<"read", n>>
        BY <1>4 DEF Read, ReadNothing, ring, Contents
    <2>2. SubSeq(Contents, 1, 0) = <<>> /\ SubSeq(Contents, 0 + 1, size) = Contents
        BY <1>2
    <2> QED
        BY <1>2, <2>1, <2>2 DEF Fifo!Get
<1> QED
    BY <1>1, <1>3, <1>4

\* A write of N bytes or more leaves the last N of them.
LEMMA OverwriteRefines ==
    ASSUME IInv, NEW s \in Seq(Byte), Len(s) >= N, Overwrite(s)
    PROVE  Fifo!Put(s)
<1> DEFINE tail == SubSeq(s, Len(s) - N + 1, Len(s))
<1>1. Len(tail) = N /\ tail \in Seq(Byte)
    <2>1. Len(s) \in Nat /\ Len(s) - N + 1 \in 1 .. Len(s) + 1
        BY NAssumption
    <2> QED
        BY <2>1, SubSeqProperties, NAssumption
<1>2. /\ buffer' = MemCpy(buffer, 0, tail) /\ size' = N /\ w_cursor' = 0
      /\ out' = <<>> /\ ret' = N /\ call' = <<"write", s>>
    BY DEF Overwrite
<1> HIDE DEF tail
<1>3. Contents' = [i \in 1 .. N |-> buffer'[(0 - N + i - 1) % N]]
    BY <1>2 DEF Contents
<1>4. ASSUME NEW i \in 1 .. N PROVE buffer'[(0 - N + i - 1) % N] = tail[i]
    <2>1. 0 - N + i - 1 \in -N .. N - 1
        BY NAssumption
    <2>2. (0 - N + i - 1) % N = i - 1
        <3> DEFINE a == 0 - N + i - 1
        <3>1. a < 0 /\ a + N = i - 1
            BY NAssumption
        <3>2. a \in -N .. N - 1
            BY <2>1
        <3> HIDE DEF a
        <3>3. a % N = i - 1
            BY <3>1, <3>2, LapBack
        <3> QED
            BY <3>3 DEF a
    <2>3. i - 1 \in Slot /\ i - 1 \in 0 .. 0 + Len(tail) - 1 /\ (i - 1) - 0 + 1 = i
        BY <1>1, NAssumption DEF Slot
    <2> QED
        BY <1>2, <2>2, <2>3 DEF MemCpy
<1>5. tail = [i \in 1 .. N |-> tail[i]]
    BY <1>1
<1>6. Contents' = tail
    BY <1>3, <1>4, <1>5
<1> QED
    BY <1>2, <1>6 DEF Fifo!Put, tail

\* How far a slot lies ahead of the write cursor.
Ahead(p) == IF p >= w_cursor THEN p - w_cursor ELSE p - w_cursor + N

\* The copy of a shorter write, in one piece or two, puts the bytes in the
\* slots from the write cursor on and leaves the others (ringbuf_write 165-171).
LEMMA WrittenAt ==
    ASSUME TypeOK, w_cursor # NULL, NEW s \in Seq(Byte), NEW n \in 0 .. Len(s),
           n < N, NEW p \in Slot
    PROVE  Written(s, n)[p] = IF Ahead(p) < n THEN s[Ahead(p) + 1] ELSE buffer[p]
<1>1. w_cursor \in Slot
    BY DEF TypeOK, Cursor
<1>2. ASSUME NEW i \in 1 .. n + 1, NEW j \in 0 .. n, i <= j + 1
      PROVE  /\ Len(SubSeq(s, i, j)) = j - i + 1
             /\ \A k \in 1 .. j - i + 1 : SubSeq(s, i, j)[k] = s[i + k - 1]
    BY <1>2
<1>3. CASE w_cursor + n <= N
    <2> DEFINE one == SubSeq(s, 1, n)
    <2>1. Len(one) = n /\ \A k \in 1 .. n : one[k] = s[k]
        BY <1>2
    <2>2. Written(s, n) = MemCpy(buffer, w_cursor, one)
        BY <1>3 DEF Written
    <2> HIDE DEF one
    <2>3. Written(s, n)[p] = IF p \in w_cursor .. w_cursor + n - 1
                               THEN one[p - w_cursor + 1] ELSE buffer[p]
        BY <2>1, <2>2 DEF MemCpy
    <2>4. p \in w_cursor .. w_cursor + n - 1 <=> Ahead(p) < n
        BY <1>1, <1>3, NAssumption DEF Ahead, Slot
    <2>5. Ahead(p) < n => Ahead(p) + 1 = p - w_cursor + 1 /\ p - w_cursor + 1 \in 1 .. n
        BY <1>1, <1>3, NAssumption DEF Ahead, Slot
    <2> QED
        BY <2>1, <2>3, <2>4, <2>5
<1>4. CASE ~ (w_cursor + n <= N)
    <2> DEFINE part1 == N - w_cursor
               one == SubSeq(s, 1, part1)
               two == SubSeq(s, part1 + 1, n)
               mid == MemCpy(buffer, w_cursor, one)
    <2>1. part1 \in 1 .. n - 1
        BY <1>1, <1>4, NAssumption DEF Slot
    <2>2. Len(one) = part1 /\ \A k \in 1 .. part1 : one[k] = s[k]
        BY <1>2, <2>1
    <2>3. Len(two) = n - part1 /\ \A k \in 1 .. n - part1 : two[k] = s[part1 + k]
        BY <1>2, <2>1
    <2>4. Written(s, n) = MemCpy(mid, 0, two)
        BY <1>4 DEF Written
    <2>5. mid[p] = IF p \in w_cursor .. w_cursor + Len(one) - 1
                     THEN one[p - w_cursor + 1] ELSE buffer[p]
        BY DEF MemCpy
    <2> HIDE DEF one, two, mid
    <2>6. Written(s, n)[p] = IF p \in 0 .. 0 + Len(two) - 1 THEN two[p - 0 + 1] ELSE mid[p]
        BY <2>4 DEF MemCpy
    <2>7. CASE p < n - part1
        <3>1. Written(s, n)[p] = two[p + 1] /\ two[p + 1] = s[part1 + (p + 1)]
            BY <2>1, <2>3, <2>6, <2>7 DEF Slot
        <3>2. Ahead(p) < n /\ Ahead(p) + 1 = part1 + (p + 1)
            BY <1>1, <2>1, <2>7, NAssumption DEF Ahead, Slot
        <3> QED
            BY <3>1, <3>2
    <2>8. CASE p >= n - part1 /\ p < w_cursor
        <3>1. Written(s, n)[p] = buffer[p]
            BY <1>1, <2>1, <2>2, <2>3, <2>5, <2>6, <2>8 DEF Slot
        <3>2. ~ (Ahead(p) < n)
            BY <1>1, <2>1, <2>8, NAssumption DEF Ahead, Slot
        <3> QED
            BY <3>1, <3>2
    <2>9. CASE p >= n - part1 /\ p >= w_cursor
        <3>1. p - w_cursor + 1 \in 1 .. part1 /\ p \in w_cursor .. w_cursor + part1 - 1
            BY <1>1, <2>9, NAssumption DEF Slot
        <3>2. Written(s, n)[p] = one[p - w_cursor + 1]
            BY <2>1, <2>2, <2>3, <2>5, <2>6, <2>9, <3>1 DEF Slot
        <3>3. Ahead(p) < n /\ Ahead(p) + 1 = p - w_cursor + 1
            BY <1>1, <2>1, <2>9, NAssumption DEF Ahead, Slot
        <3> QED
            BY <2>2, <3>1, <3>2, <3>3
    <2> QED
        BY <1>1, <2>1, <2>7, <2>8, <2>9 DEF Slot
<1> QED
    BY <1>3, <1>4

\* A shorter write appends what fits.
LEMMA WriteShortRefines ==
    ASSUME IInv, NEW s \in Seq(Byte), Len(s) \in 1 .. N - 1, w_cursor # NULL, WriteShort(s)
    PROVE  Fifo!Put(s)
<1> DEFINE len == WriteLen(s)
<1>1. TypeOK /\ size \in 0 .. N /\ w_cursor \in Slot
    BY DEF IInv, TypeOK, Cursor
<1>2. len \in 0 .. Len(s) /\ len <= N - size /\ len < N
    BY <1>1, NAssumption DEF WriteLen
<1>3. len = Fifo!Lesser(Len(s), N - size)
    BY <1>1, NAssumption DEF WriteLen, Fifo!Lesser
<1>4. /\ buffer' = Written(s, len) /\ w_cursor' = WOffset(len) /\ size' = size + len
      /\ out' = <<>> /\ ret' = len /\ call' = <<"write", s>>
    BY DEF WriteShort
<1> HIDE DEF len
<1>5. WOffset(len) \in Slot /\ WOffset(len) = IF w_cursor + len < N THEN w_cursor + len
                                              ELSE w_cursor + len - N
    BY <1>1, <1>2, NAssumption DEF WOffset, Advance, Reduced, Slot
<1>6. w_cursor' # NULL /\ TypeOK'
    <2>1. w_cursor' # NULL
        BY <1>4, <1>5, NullAssumption, NAssumption DEF Slot
    <2> QED
        BY <2>1, WriteShortInv DEF IInv
<1>7. Contents' = [i \in 1 .. size + len |-> buffer'[FromBack(w_cursor', size + len, i)]]
    <2>1. ASSUME NEW i \in 1 .. size + len
          PROVE  (w_cursor' - (size + len) + i - 1) % N = FromBack(w_cursor', size + len, i)
        <3>1. w_cursor' - (size + len) + i - 1 \in -N .. N - 1
            BY <1>1, <1>2, <1>4, <1>5, NAssumption DEF Slot
        <3> QED
            BY <3>1, LapBack DEF FromBack
    <2> QED
        BY <1>4, <2>1 DEF Contents
<1>8. ASSUME NEW i \in 1 .. size
      PROVE  buffer'[FromBack(w_cursor', size + len, i)] = Contents[i]
    <2>1. FromBack(w_cursor', size + len, i) = FromBack(w_cursor, size, i)
        BY <1>1, <1>2, <1>4, <1>5, NAssumption DEF FromBack, Slot
    <2>2. FromBack(w_cursor, size, i) \in Slot /\ Contents[i] = buffer[FromBack(w_cursor, size, i)]
        BY <1>1, ContentsShape
    <2>3. ~ (Ahead(FromBack(w_cursor, size, i)) < len)
        BY <1>1, <1>2, NAssumption DEF FromBack, Ahead, Slot
    <2> QED
        BY <1>1, <1>2, <1>4, <2>1, <2>2, <2>3, WrittenAt
<1>9. ASSUME NEW i \in 1 .. len
      PROVE  buffer'[FromBack(w_cursor', size + len, size + i)] = s[i]
    <2> DEFINE p == FromBack(w_cursor', size + len, size + i)
    <2>1. p \in Slot /\ Ahead(p) = i - 1
        BY <1>1, <1>2, <1>4, <1>5, NAssumption DEF FromBack, Ahead, Slot
    <2> HIDE DEF p
    <2>2. buffer'[p] = s[Ahead(p) + 1]
        BY <1>1, <1>2, <1>4, <2>1, WrittenAt
    <2>3. Ahead(p) + 1 = i
        BY <2>1
    <2> QED
        BY <2>2, <2>3 DEF p
<1>10. Contents' = Contents \o SubSeq(s, 1, len)
    <2>1. Contents \in Seq(Byte) /\ Len(Contents) = size /\ DOMAIN Contents = 1 .. size
        BY ContentsType
    <2>2. SubSeq(s, 1, len) \in Seq(Byte) /\ Len(SubSeq(s, 1, len)) = len
          /\ \A i \in 1 .. len : SubSeq(s, 1, len)[i] = s[i]
        BY <1>2
    <2>3. Contents \o SubSeq(s, 1, len)
            = [i \in 1 .. size + len |-> IF i <= size THEN Contents[i] ELSE s[i - size]]
        BY <1>1, <1>2, <2>1, <2>2
    <2>4. ASSUME NEW i \in 1 .. size + len
          PROVE  buffer'[FromBack(w_cursor', size + len, i)]
                   = IF i <= size THEN Contents[i] ELSE s[i - size]
        <3>1. CASE i <= size
            BY <1>1, <1>8, <3>1
        <3>2. CASE ~ (i <= size)
            <4>1. i - size \in 1 .. len /\ size + (i - size) = i
                BY <1>1, <1>2, <3>2
            <4> QED
                BY <1>9, <3>2, <4>1
        <3> QED
            BY <3>1, <3>2
    <2> QED
        BY <1>7, <2>3, <2>4
<1> QED
    <2>1. Len(Contents) = size /\ ~ (Len(s) >= N)
        BY ContentsType, NAssumption
    <2> HIDE DEF len
    <2> QED
        BY <1>3, <1>4, <1>10, <2>1 DEF Fifo!Put

LEMMA WriteRefines ==
    ASSUME IInv, NEW s \in Chunk, Write(s)
    PROVE  Fifo!Put(s) \/ UNCHANGED Fifo!vars
<1>1. s \in Seq(Byte) /\ Len(s) \in Nat /\ size \in 0 .. N
    BY ArgAssumption DEF IInv, TypeOK
<1>2. CASE Len(s) = 0 /\ WriteNothing(s)
    <2>1. Contents' = Contents /\ out' = <<>> /\ ret' = 0 /\ call' = <<"write", s>>
        BY <1>2 DEF WriteNothing, ring, Contents
    <2>2. Fifo!Lesser(Len(s), N - Len(Contents)) = 0 /\ ~ (Len(s) >= N)
        BY <1>1, <1>2, ContentsType, NAssumption DEF Fifo!Lesser
    <2>3. Contents \o SubSeq(s, 1, 0) = Contents
        BY ContentsType, <1>1
    <2> QED
        BY <2>1, <2>2, <2>3 DEF Fifo!Put
<1>3. CASE Len(s) >= N /\ Overwrite(s)
    BY <1>1, <1>3, OverwriteRefines
<1>4. CASE Len(s) \in 1 .. N - 1 /\ w_cursor # NULL /\ WriteShort(s)
    BY <1>1, <1>4, WriteShortRefines
<1>5. CASE Len(s) \in 1 .. N - 1 /\ w_cursor = NULL /\ Crash
    BY <1>5 DEF Crash, ring, Fifo!vars, Contents
<1> QED
    BY <1>2, <1>3, <1>4, <1>5 DEF Write

\* The ring implements the queue: whatever the operations and their arguments,
\* for every size of the ring, the bytes held change and come out as the queue's,
\* with its return values, and a null cursor that is dereferenced changes nothing.
THEOREM ImplementsFifo == Spec => FifoSpec
<1>1. Init => Fifo!Init
    <2> SUFFICES ASSUME Init PROVE Fifo!Init
        OBVIOUS
    <2>1. Contents = <<>>
        BY DEF Init, Contents
    <2> QED
        BY <2>1 DEF Init, Fifo!Init
<1>2. IInv /\ [Next]_vars => [Fifo!Next]_(Fifo!vars)
    <2> SUFFICES ASSUME IInv, [Next]_vars PROVE Fifo!Next \/ UNCHANGED Fifo!vars
        OBVIOUS
    <2>1. CASE Reset
        <3>1. Contents' = <<>>
            BY <2>1 DEF Reset, Contents
        <3> QED
            BY <2>1, <3>1 DEF Reset, Fifo!Reset, Fifo!Next
    <2>2. ASSUME NEW c \in Byte, Find(c) PROVE Fifo!Next \/ UNCHANGED Fifo!vars
        BY <2>2, FindRefines DEF Fifo!Next
    <2>3. ASSUME NEW n \in ReadSize, Read(n) PROVE Fifo!Next \/ UNCHANGED Fifo!vars
        BY <2>3, ReadRefines DEF Fifo!Next
    <2>4. ASSUME NEW s \in Chunk, Write(s) PROVE Fifo!Next \/ UNCHANGED Fifo!vars
        BY <2>4, WriteRefines DEF Fifo!Next
    <2>5. CASE UNCHANGED vars
        BY <2>5 DEF vars, ring, Fifo!vars, Contents
    <2> QED
        BY <2>1, <2>2, <2>3, <2>4, <2>5 DEF Next
<1> QED
    BY InitInv, NextInv, <1>1, <1>2, PTL DEF Spec, FifoSpec, Fifo!Spec
=============================================================================
