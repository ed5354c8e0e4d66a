------------------------------ MODULE MCRingBuf ------------------------------
(* RingBuf on a ring of four slots and two byte values.  Writes of up to    *)
(* five bytes reach every alignment of the cursors, the exact fit, the cap  *)
(* by the free space and the overwrite, longer than the ring by one.        *)
EXTENDS RingBuf

CONSTANT MaxChunk      \* bound: the longest write

MCChunk == UNION {[1 .. n -> Byte] : n \in 0 .. MaxChunk}
MCReadSize == -1 .. N + 1
=============================================================================
