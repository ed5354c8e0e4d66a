------------------------------- MODULE RingBuf ------------------------------
(***************************************************************************)
(* The byte ring of framework/common/ringbuf.c: an array, a fill count and *)
(* two cursors that point into the array or are NULL.  Addresses are       *)
(* offsets from the start of the array.  Nothing in the tree calls the     *)
(* ring but its tests, so the caller is free: any operation, any argument. *)
(***************************************************************************)
EXTENDS Integers, Sequences

CONSTANTS
    N,           \* MAX_RINGBUF_SIZE
    Byte,        \* the byte values told apart
    Zero,        \* the byte calloc and memset leave behind
    NULL,        \* the null cursor
    Chunk,       \* the byte strings a caller may pass to a write
    ReadSize     \* the lengths a caller may pass to a read

ASSUME NAssumption == N \in Nat \ {0}
ASSUME ByteAssumption == Zero \in Byte
ASSUME NullAssumption == NULL \notin Int
ASSUME ArgAssumption == Chunk \subseteq Seq(Byte) /\ ReadSize \subseteq Int

VARIABLES
    buffer, size, r_cursor, w_cursor,   \* the fields of ringbuf_t
    call,                               \* the last operation and its argument
    out,                                \* bytes copied to the caller
    ret,                                \* value returned to the caller
    fault                               \* a null cursor was dereferenced

ring == <<buffer, size, r_cursor, w_cursor>>
vars == <<ring, call, out, ret, fault>>

Slot == 0 .. N - 1
Cursor == Slot \cup {NULL}

TypeOK ==
    /\ buffer \in [Slot -> Byte]
    /\ size \in 0 .. N
    /\ r_cursor \in Cursor
    /\ w_cursor \in Cursor
    /\ out \in Seq(Byte)
    /\ ret \in -1 .. N
    /\ fault \in BOOLEAN

(***************************************************************************)
(* Cursor arithmetic.                                                      *)
(***************************************************************************)
AtMost(a, b) == IF a > b THEN b ELSE a

\* Where a cursor stands after an advance that stays below N.
Advance(cursor, o) == IF cursor + o < N THEN cursor + o ELSE cursor + o - N

\* The reduction both offset functions apply first.
Reduced(o) == IF o >= N THEN o - N ELSE o

ROffset(o) == Advance(r_cursor, AtMost(Reduced(o), size))
WOffset(o) == Advance(w_cursor, Reduced(o))

\* memcpy of s into the array at address a.
MemCpy(b, a, s) ==
    [i \in Slot |-> IF i \in a .. a + Len(s) - 1 THEN s[i - a + 1] ELSE b[i]]

\* memcpy of n bytes out of the array at address a.
Bytes(a, n) == [i \in 1 .. n |-> buffer[a + i - 1]]

-----------------------------------------------------------------------------
Init ==
    /\ buffer = [i \in Slot |-> Zero]
    /\ size = 0
    /\ r_cursor = 0
    /\ w_cursor = 0
    /\ call = <<"new">>
    /\ out = <<>>
    /\ ret = 0
    /\ fault = FALSE

\* memset over the whole structure: the cursors become NULL with the rest.
Reset ==
    /\ ~fault
    /\ buffer' = [i \in Slot |-> Zero]
    /\ size' = 0
    /\ r_cursor' = NULL
    /\ w_cursor' = NULL
    /\ call' = <<"reset">>
    /\ out' = <<>>
    /\ ret' = 0
    /\ UNCHANGED fault

\* The program dies at the null dereference; nothing is returned.
Crash == fault' = TRUE /\ UNCHANGED <<ring, call, out, ret>>

\* *ringbuf_r_offset(i) for i = 0, 1, ... until the separator is met.
FindIndex(c) ==
    LET hits == {i \in 0 .. size - 1 : buffer[ROffset(i)] = c} IN
    IF hits = {} THEN -1 ELSE CHOOSE i \in hits : \A j \in hits : i <= j

Find(c) ==
    /\ ~fault
    /\ IF size > 0 /\ r_cursor = NULL
         THEN Crash
         ELSE /\ ret' = FindIndex(c) /\ out' = <<>>
              /\ call' = <<"find", c>>
              /\ UNCHANGED <<ring, fault>>

\* Mutant: the cap by the free space is gone.
ReadLenUncapped(n) == AtMost(n, size)

\* The length of a read: capped by the free space, then by the fill.
ReadLen(n) == AtMost(AtMost(n, N - size), size)

ReadBytes(n) ==
    IF r_cursor + n > N
      THEN LET part1 == N - r_cursor IN Bytes(r_cursor, part1) \o Bytes(0, n - part1)
      ELSE Bytes(r_cursor, n)

ReadNothing(n) ==
    /\ out' = <<>> /\ ret' = 0
    /\ call' = <<"read", n>>
    /\ UNCHANGED <<ring, fault>>

ReadSome(n, len) ==
    /\ out' = ReadBytes(len)
    /\ ret' = len
    /\ r_cursor' = ROffset(len)
    /\ size' = size - len
    /\ call' = <<"read", n>>
    /\ UNCHANGED <<buffer, w_cursor, fault>>

Read(n) ==
    LET len == ReadLen(n) IN
    /\ ~fault
    /\ IF n <= 0 \/ len = 0 THEN ReadNothing(n)
       ELSE IF r_cursor = NULL THEN Crash
       ELSE ReadSome(n, len)

\* Mutant: the write cursor stays where it was.
OverwriteInPlace(s) ==
    /\ buffer' = MemCpy(buffer, 0, SubSeq(s, Len(s) - N + 1, Len(s)))
    /\ size' = N
    /\ w_cursor' = IF w_cursor = NULL THEN 0 ELSE w_cursor
    /\ r_cursor' = NULL
    /\ out' = <<>> /\ ret' = N
    /\ call' = <<"write", s>>
    /\ UNCHANGED fault

\* A write of N bytes or more: the last N of them replace the contents.
Overwrite(s) ==
    /\ buffer' = MemCpy(buffer, 0, SubSeq(s, Len(s) - N + 1, Len(s)))
    /\ size' = N
    /\ w_cursor' = 0
    /\ r_cursor' = NULL
    /\ out' = <<>> /\ ret' = N
    /\ call' = <<"write", s>>
    /\ UNCHANGED fault

\* The length of a shorter write: capped by the free space.
WriteLen(s) == IF size + Len(s) > N THEN N - size ELSE Len(s)

\* Mutant: the part that wraps starts over at the first byte.
WrittenTwice(s, n) ==
    IF w_cursor + n <= N
      THEN MemCpy(buffer, w_cursor, SubSeq(s, 1, n))
      ELSE LET part1 == N - w_cursor IN
           MemCpy(MemCpy(buffer, w_cursor, SubSeq(s, 1, part1)),
                  0, SubSeq(s, 1, n - part1))

\* The array after the copy of the first n bytes of s at the write cursor.
Written(s, n) ==
    IF w_cursor + n <= N
      THEN MemCpy(buffer, w_cursor, SubSeq(s, 1, n))
      ELSE LET part1 == N - w_cursor IN
           MemCpy(MemCpy(buffer, w_cursor, SubSeq(s, 1, part1)),
                  0, SubSeq(s, part1 + 1, n))

WriteShort(s) ==
    LET len == WriteLen(s) IN
    /\ buffer' = Written(s, len)
    /\ w_cursor' = WOffset(len)
    /\ size' = size + len
    /\ out' = <<>> /\ ret' = len
    /\ call' = <<"write", s>>
    /\ UNCHANGED <<r_cursor, fault>>

WriteNothing(s) ==
    /\ out' = <<>> /\ ret' = 0
    /\ call' = <<"write", s>>
    /\ UNCHANGED <<ring, fault>>

Write(s) ==
    /\ ~fault
    /\ \/ Len(s) = 0 /\ WriteNothing(s)
       \/ Len(s) >= N /\ Overwrite(s)
       \/ Len(s) \in 1 .. N - 1 /\ w_cursor # NULL /\ WriteShort(s)
       \/ Len(s) \in 1 .. N - 1 /\ w_cursor = NULL /\ Crash

Next ==
    \/ Reset
    \/ \E c \in Byte : Find(c)
    \/ \E n \in ReadSize : Read(n)
    \/ \E s \in Chunk : Write(s)

Spec == Init /\ [][Next]_vars

-----------------------------------------------------------------------------
(***************************************************************************)
(* Properties.                                                             *)
(***************************************************************************)

\* The two cursors and the fill count always agree: while both cursors point
\* into the array the write cursor is size bytes past the read cursor, around
\* the end; a null read cursor is met only in an empty or a full ring, and a
\* null write cursor only in an empty one (read, write, reset together).
CursorsAgree ==
    /\ r_cursor # NULL => w_cursor # NULL /\ w_cursor = (r_cursor + size) % N
    /\ r_cursor = NULL => size = 0 \/ size = N
    /\ w_cursor = NULL => size = 0
    /\ r_cursor = NULL => w_cursor = IF size = 0 THEN NULL ELSE 0

\* The contents the cursors delimit, oldest byte first.  They are counted
\* back from the write cursor, which is right even when r_cursor is NULL.
Contents ==
    [i \in 1 .. size |-> buffer[(w_cursor - size + i - 1) % N]]

Fifo == INSTANCE RingFifo WITH q <- Contents

\* Every operation does to the contents what the queue of RingFifo does: no
\* byte is lost, duplicated or reordered across wrap-arounds, overwrites and
\* resets, and every return value is the queue's.
FifoSpec == Fifo!Spec

\* ringbuf_read caps its length by the free space, so a ring that has become
\* full stays full: nothing but a reset ever takes a byte out of it again.
FullIsStuck == [][size = N => size' = N \/ Reset]_vars
=============================================================================
