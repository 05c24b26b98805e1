------------------------------ MODULE AvsBuffer ------------------------------
(***************************************************************************)
(* The byte buffer of src/src/buffer/avs_buffer.c, as operators on a       *)
(* record: where the data begins in the block of capacity bytes, and the   *)
(* bytes between begin and end.  The streams are built on it.              *)
(***************************************************************************)
EXTENDS Integers, Sequences

\* AVS_MIN of avs_defs.h
AVS_MIN(a, b) == IF a < b THEN a ELSE b

\* The first n elements of a sequence, and the ones after them.
Take(s, n) == SubSeq(s, 1, n)
Drop(s, n) == SubSeq(s, n + 1, Len(s))

BufferReset(b) == [b EXCEPT !.begin = 0, !.data = <<>>]

BufferCreate(capacity) ==
    [capacity |-> capacity, begin |-> 0, data |-> <<>>]

BufferDataSize(b) == Len(b.data)

BufferSpaceLeft(b) == b.capacity - BufferDataSize(b)

SpaceLeftWithoutMoving(b) == b.capacity - (b.begin + BufferDataSize(b))

\* defragment_buffer: the data is moved to the beginning of the block.
DefragmentBuffer(b) == [b EXCEPT !.begin = 0]

\* avs_buffer_consume_bytes of at most BufferDataSize(b) bytes
BufferConsumeBytes(b, n) ==
    [b EXCEPT !.begin = @ + n, !.data = Drop(@, n)]

\* What avs_buffer_append_bytes, avs_buffer_fill_bytes and
\* avs_buffer_advance_ptr do once they have checked the space left: the data
\* moves only when it must.
BufferPut(b, bytes) ==
    LET moved == IF Len(bytes) > SpaceLeftWithoutMoving(b)
                 THEN DefragmentBuffer(b) ELSE b
    IN  [moved EXCEPT !.data = @ \o bytes]

\* avs_buffer_append_bytes, with the error of a buffer too small
BufferFits(b, bytes) == Len(bytes) <= BufferSpaceLeft(b)
BufferAppendBytes(b, bytes) ==
    IF BufferFits(b, bytes) THEN BufferPut(b, bytes) ELSE b

\* A block of bytes received at avs_buffer_raw_insert_ptr, which has moved
\* the data first, and taken over with avs_buffer_advance_ptr.
BufferRawInsert(b, bytes) == BufferPut(DefragmentBuffer(b), bytes)

\* The data never leaves the block that was allocated.
BufferInBounds(b) == b.begin >= 0 /\ b.begin + Len(b.data) <= b.capacity

=============================================================================
