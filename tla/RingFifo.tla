------------------------------ MODULE RingFifo ------------------------------
(***************************************************************************)
(* What common/ringbuf.h promises to a caller, without cursors: a queue of *)
(* at most N bytes.  A write shorter than N appends what fits and drops    *)
(* the rest; a write of N bytes or more replaces the contents by its last  *)
(* N bytes.  A read takes some prefix of what was asked for, possibly      *)
(* none, and none for a negative length.  Bytes come out once each, in the *)
(* order they went in.                                                     *)
(***************************************************************************)
EXTENDS Integers, Sequences

CONSTANTS
    N,           \* MAX_RINGBUF_SIZE
    Byte,        \* the byte values told apart
    Chunk,       \* the byte strings a caller may pass to a write
    ReadSize     \* the lengths a caller may pass to a read

VARIABLES
    q,           \* the bytes held, oldest first
    call,        \* the last operation and its argument
    out,         \* the bytes handed out by the last operation
    ret          \* the return value of the last operation

vars == <<q, call, out, ret>>

Lesser(a, b) == IF a <= b THEN a ELSE b

Init == q = <<>> /\ call = <<"new">> /\ out = <<>> /\ ret = 0

Put(s) ==
    LET room == Lesser(Len(s), N - Len(q)) IN
    /\ IF Len(s) >= N
         THEN q' = SubSeq(s, Len(s) - N + 1, Len(s)) /\ ret' = N
         ELSE q' = q \o SubSeq(s, 1, room) /\ ret' = room
    /\ call' = <<"write", s>>
    /\ out' = <<>>

Get(n) ==
    \E k \in {0} \cup 0 .. Lesser(n, Len(q)) :
        /\ out' = SubSeq(q, 1, k)
        /\ q' = SubSeq(q, k + 1, Len(q))
        /\ ret' = k
        /\ call' = <<"read", n>>

Find(c) ==
    /\ ret' \in -1 .. Len(q) - 1
    /\ \A i \in 1 .. Len(q) : q[i] = c => ret' \in 0 .. i - 1
    /\ ret' # -1 => q[ret' + 1] = c
    /\ call' = <<"find", c>>
    /\ out' = <<>>
    /\ UNCHANGED q

Reset == q' = <<>> /\ call' = <<"reset">> /\ out' = <<>> /\ ret' = 0

Next ==
    \/ \E s \in Chunk : Put(s)
    \/ \E n \in ReadSize : Get(n)
    \/ \E c \in Byte : Find(c)
    \/ Reset

Spec == Init /\ [][Next]_vars
=============================================================================
