------------------------------ MODULE AvsStream ------------------------------
(***************************************************************************)
(* The stream interface of src/src/stream/avs_stream.c and the streams     *)
(* that need no network: membuf, inbuf, outbuf, simple_io, file, and the   *)
(* buffered stream on top of any of them.  A stream is a record with its   *)
(* kind; every method is an operator that returns the stream after the     *)
(* call and the results of the call, so that streams can be stacked as     *)
(* they are in C.  Bytes are numbers.                                      *)
(*                                                                         *)
(* What lies outside of the code is decided beforehand in the field plan   *)
(* of a base stream: how much the callbacks of a simple_io stream or the   *)
(* C library move in each call, or whether they fail; and whether memory   *)
(* can be had by a membuf.                                                 *)
(***************************************************************************)
EXTENDS AvsBuffer

CONSTANT STACK_BUFFER_SIZE  \* AVS_STREAM_STACK_BUFFER_SIZE

FAIL == -1      \* in a plan: the call fails

NUL == 0
LF == 10
CR == 13

\* What a method returns: the stream, the error, the number of bytes moved,
\* the bytes read and out_message_finished.
Result(s, err, n, out, fin) ==
    [stream |-> s, err |-> err, n |-> n, out |-> out, fin |-> fin]
Fails(s, err) == Result(s, err, 0, <<>>, FALSE)
Wrote(s, n) == Result(s, "ok", n, <<>>, FALSE)
Got(s, out, fin) == Result(s, "ok", Len(out), out, fin)

------------------------------------------------------------------------------
(* avs_stream_membuf.c: buf holds the bytes up to index_write              *)

MembufCreate ==
    [kind |-> "membuf", buf |-> <<>>, size |-> 0, index_read |-> 0,
     plan |-> <<>>]

DefragmentMembuf(s) ==
    [s EXCEPT !.buf = Drop(@, s.index_read), !.index_read = 0]

\* Whether the next call to the world outside (realloc, a callback, stdio)
\* succeeds, and the stream with that entry of the plan used up.
Succeeds(s) == s.plan = <<>> \/ Head(s.plan) # FAIL
Planned(s) == IF s.plan = <<>> THEN s ELSE [s EXCEPT !.plan = Tail(@)]

MembufWrite(s, data) ==
    LET needed(m) == Len(m.buf) + Len(data)
        d == IF s.size < needed(s) THEN DefragmentMembuf(s) ELSE s
        room == d.size - Len(d.buf)
        grown == [Planned(d) EXCEPT !.size = 2 * @ + Len(data)]
        put(m, bytes) == Wrote([m EXCEPT !.buf = @ \o bytes], Len(bytes))
    IN  IF data = <<>> THEN Wrote(s, 0)
        ELSE IF d.size >= needed(d) THEN put(d, data)
        ELSE IF Succeeds(d) THEN put(grown, data)
        ELSE IF room = 0 THEN Fails(Planned(d), "enomem")
        ELSE put(Planned(d), Take(data, room))

MembufRead(s, len) ==
    LET left == Drop(s.buf, s.index_read)
        n == AVS_MIN(Len(left), len)
        after == IF n = Len(left)
                 THEN [s EXCEPT !.buf = <<>>, !.index_read = 0]
                 ELSE [s EXCEPT !.index_read = @ + n]
    IN  Got(IF n = 0 THEN s ELSE after, Take(left, n), n = Len(left))

MembufPeek(s, offset) ==
    IF s.index_read + offset >= Len(s.buf) THEN Fails(s, "eof")
    ELSE Got(s, <<s.buf[s.index_read + offset + 1]>>, FALSE)

MembufReset(s) == Wrote([s EXCEPT !.buf = <<>>, !.index_read = 0], 0)

MembufEnsureFreeBytes(s, additional) ==
    LET d == DefragmentMembuf(s)
    IN  IF d.size >= Len(d.buf) + additional THEN Wrote(d, 0)
        ELSE IF Succeeds(d)
        THEN Wrote([Planned(d) EXCEPT !.size = Len(d.buf) + additional], 0)
        ELSE Fails(Planned(d), "enomem")

MembufFit(s) ==
    LET d == DefragmentMembuf(s)
    IN  IF d.size <= Len(d.buf) THEN Wrote(d, 0)
        ELSE IF Succeeds(d) \/ d.buf = <<>>
        THEN Wrote([Planned(d) EXCEPT !.size = Len(d.buf)], 0)
        ELSE Fails(Planned(d), "enomem")

\* stream_membuf_take_ownership: the application gets the block; what of it
\* is data is not told when MembufFit could not shrink it.
MembufTakeOwnership(s) ==
    LET f == MembufFit(s).stream
    IN  Result([f EXCEPT !.buf = <<>>, !.size = 0, !.index_read = 0],
               "ok", f.size, f.buf, FALSE)

------------------------------------------------------------------------------
(* avs_stream_inbuf.c and avs_stream_outbuf.c                              *)

InbufSetBuffer(bytes) == [kind |-> "inbuf", buf |-> bytes, offset |-> 0]

InbufRead(s, len) ==
    LET n == AVS_MIN(Len(s.buf) - s.offset, len)
    IN  IF len = 0 THEN Got(s, <<>>, FALSE)
        ELSE Got([s EXCEPT !.offset = @ + n],
                 SubSeq(s.buf, s.offset + 1, s.offset + n),
                 s.offset + n >= Len(s.buf))

InbufPeek(s, offset) ==
    IF s.offset + offset >= Len(s.buf) THEN Fails(s, "eof")
    ELSE Got(s, <<s.buf[s.offset + offset + 1]>>, FALSE)

OutbufSetBuffer(size) ==
    [kind |-> "outbuf", buf |-> <<>>, size |-> size, finished |-> FALSE]

OutbufWrite(s, data) ==
    LET n == AVS_MIN(Len(data), s.size - Len(s.buf))
    IN  IF s.finished THEN Fails(s, "ebadf")
        ELSE Wrote([s EXCEPT !.buf = @ \o Take(data, n)], n)

OutbufFinish(s) == Wrote([s EXCEPT !.finished = TRUE], 0)

OutbufReset(s) == Wrote([s EXCEPT !.finished = FALSE, !.buf = <<>>], 0)

OutbufSetOffset(s, offset) ==
    IF offset > Len(s.buf) THEN Fails(s, "erange")
    ELSE Wrote([s EXCEPT !.buf = Take(@, offset)], 0)

------------------------------------------------------------------------------
(* avs_stream_simple_io.c: the callbacks belong to the application         *)

\* source is what the reader will hand out, sink what the writer was given.
SimpleIoCreate(source, plan) ==
    [kind |-> "simple_io", source |-> source, sink |-> <<>>,
     finished |-> FALSE, plan |-> plan]

\* How many of n bytes the writer called next takes.
Moves(s, n) == IF s.plan = <<>> \/ Head(s.plan) = FAIL THEN n
               ELSE AVS_MIN(Head(s.plan), n)

SimpleIoWrite(s, data) ==
    LET n == Moves(s, Len(data))
    IN  IF data = <<>> THEN Wrote(s, 0)
        ELSE IF ~Succeeds(s) THEN Fails(Planned(s), "eio")
        ELSE Wrote([Planned(s) EXCEPT !.sink = @ \o Take(data, n)], n)

SimpleIoRead(s, len) ==
    LET n == AVS_MIN(len, Len(s.source))
        after == [Planned(s) EXCEPT !.source = Drop(@, n),
                                    !.finished = n < len]
    IN  IF len = 0 THEN Got(s, <<>>, s.finished)
        ELSE IF ~Succeeds(s) THEN Fails(Planned(s), "eio")
        ELSE Got(after, Take(s.source, n), n < len)

------------------------------------------------------------------------------
(* avs_stream_file.c over stdio: a position, an end-of-file and an error   *)
(* flag                                                                    *)

FileCreate(content, mode, plan) ==
    [kind |-> "file", content |-> IF mode = "r" THEN content ELSE <<>>,
     pos |-> 0, mode |-> mode, eof |-> FALSE, error |-> FALSE, plan |-> plan]

FileSeek(s, pos) == [s EXCEPT !.pos = pos, !.eof = FALSE]

\* How many of n bytes fread or fwrite moves: when it fails it may have moved
\* some, and it sets the error indicator, which stays and does not stop the
\* next call from moving bytes.
StdioMoves(s, n) == IF Succeeds(s) THEN Moves(s, n) ELSE 0

FileWrite(s, data) ==
    LET n == StdioMoves(s, Len(data))
        padded == s.content \o [i \in 1..(s.pos - Len(s.content)) |-> NUL]
        fwritten == [Planned(s) EXCEPT
            !.content = IF n = 0 THEN @
                        ELSE Take(padded, s.pos) \o Take(data, n) \o Drop(padded, s.pos + n),
            !.pos = @ + n,
            !.error = @ \/ n < Len(data)]
    IN  IF s.mode = "r" THEN Fails(s, "ebadf")
        ELSE IF fwritten.error THEN Fails(fwritten, "eio")
        ELSE Wrote(fwritten, n)

FileRead(s, len) ==
    LET left == Drop(s.content, s.pos)
        there == AVS_MIN(len, Len(left))
        n == StdioMoves(s, there)
        failed == n < there \/ (len > 0 /\ ~Succeeds(s))
        fread == [Planned(s) EXCEPT !.pos = @ + n, !.error = @ \/ failed,
                                    !.eof = @ \/ (~failed /\ n < len)]
    IN  IF s.mode = "w" THEN Fails(s, "ebadf")
        ELSE IF fread.error THEN Fails(fread, "eio")
        ELSE Got(fread, Take(left, n), fread.eof)

\* The position is restored only after a read that did not fail.
FilePeek(s, offset) ==
    LET r == FileRead(FileSeek(s, s.pos + offset), 1)
    IN  IF r.err # "ok" THEN Fails(r.stream, r.err)
        ELSE IF r.n < 1 THEN Fails(FileSeek(r.stream, s.pos), "eof")
        ELSE Got(FileSeek(r.stream, s.pos), r.out, FALSE)

FileReset(s) == Wrote([FileSeek(s, 0) EXCEPT !.error = FALSE], 0)

FileLength(s) == Result(FileSeek(s, s.pos), "ok", Len(s.content), <<>>, FALSE)

------------------------------------------------------------------------------
(* avs_stream_buffered.c, over any stream.  A buffer of capacity 0 is NULL.*)

RECURSIVE StreamRead(_, _), StreamWriteSome(_, _), StreamPeek(_, _),
          StreamReset(_), StreamFinishMessage(_), StreamClose(_)

BufferedCreate(under, in_size, out_size) ==
    [kind |-> "buffered", under |-> under, in |-> BufferCreate(in_size),
     out |-> BufferCreate(out_size), finished |-> FALSE]

FlushDataAssumingAll(s) ==
    LET Written(w) ==
            IF w.err # "ok" THEN Fails([s EXCEPT !.under = w.stream], w.err)
            ELSE Wrote([s EXCEPT !.under = w.stream, !.out = BufferReset(@)], w.n)
    IN  IF s.out.data = <<>> THEN Wrote(s, 0)
        ELSE Written(StreamWriteSome(s.under, s.out.data))

FlushData(s) ==
    LET Written(w) ==
            IF w.err # "ok" THEN Fails([s EXCEPT !.under = w.stream], w.err)
            ELSE Wrote([s EXCEPT !.under = w.stream,
                                 !.out = BufferConsumeBytes(@, w.n)], w.n)
    IN  IF s.out.data = <<>> THEN Wrote(s, 0)
        ELSE Written(StreamWriteSome(s.under, s.out.data))

FetchData(s) ==
    LET Fetched(r) ==
            IF r.err # "ok"
            THEN Fails([s EXCEPT !.under = r.stream, !.in = DefragmentBuffer(@)],
                       r.err)
            ELSE Wrote([s EXCEPT !.under = r.stream, !.finished = r.fin,
                                 !.in = BufferRawInsert(@, r.out)], r.n)
    IN  Fetched(StreamRead(s.under, BufferSpaceLeft(s.in)))

\* The loop of stream_buffered_write_some, with total bytes written so far.
RECURSIVE BufferedWriteLoop(_, _, _)
BufferedWriteLoop(s, data, total) ==
    LET n == AVS_MIN(BufferSpaceLeft(s.out), Len(data) - total)
        put == [s EXCEPT !.out = BufferAppendBytes(
                             @, SubSeq(data, total + 1, total + n))]
        Flushed(f) ==
            IF f.err # "ok" THEN f
            ELSE IF f.n = 0 THEN Wrote(f.stream, total + n)
            ELSE BufferedWriteLoop(f.stream, data, total + n)
    IN  IF total = Len(data) THEN Wrote(s, total)
        ELSE IF BufferSpaceLeft(put.out) > 0
        THEN BufferedWriteLoop(put, data, total + n)
        ELSE Flushed(FlushData(put))

BufferedWrite(s, data) ==
    LET Passed(w) == [w EXCEPT !.stream = [s EXCEPT !.under = w.stream]]
    IN  IF data = <<>> THEN Wrote(s, 0)
        ELSE IF s.out.capacity = 0 THEN Passed(StreamWriteSome(s.under, data))
        ELSE BufferedWriteLoop(s, data, 0)

BufferedRead(s, len) ==
    LET Passed(r) ==
            IF r.err # "ok" THEN Fails([s EXCEPT !.under = r.stream], r.err)
            ELSE Got([s EXCEPT !.under = r.stream, !.finished = r.fin],
                     r.out, r.fin)
        Fetched(f) ==
            LET n == AVS_MIN(Len(f.stream.in.data), len)
            IN  IF f.err # "ok" THEN f
                ELSE Got([f.stream EXCEPT !.in = BufferConsumeBytes(@, n)],
                         Take(f.stream.in.data, n), f.stream.finished)
    IN  IF len = 0 THEN Got(s, <<>>, s.finished)
        ELSE IF s.in.capacity = 0 THEN Passed(StreamRead(s.under, len))
        ELSE Fetched(IF s.in.data = <<>> THEN FetchData(s) ELSE Wrote(s, 0))

\* finish_message: what does not go out at once is an error.
BufferedFlushAll(s) ==
    LET Flushed(f) == IF f.err = "ok" /\ f.n < Len(s.out.data)
                      THEN Fails(f.stream, "emsgsize") ELSE f
    IN  Flushed(FlushData(s))

BufferedFinish(s) ==
    LET Finished(f, b) == [f EXCEPT !.stream = [@ EXCEPT !.under = b.stream],
                                    !.err = IF @ = "ok" THEN b.err ELSE @]
        Flushed(f) == Finished(f, StreamFinishMessage(f.stream.under))
    IN  Flushed(IF s.out.capacity > 0 THEN BufferedFlushAll(s) ELSE Wrote(s, 0))

BufferedPeekUnder(s, offset) ==
    LET Peeked(r) ==
            LET after == [s EXCEPT !.under = r.stream]
            IN  IF r.err = "ok" THEN Got(after, r.out, FALSE) ELSE Fails(after, r.err)
    IN  Peeked(StreamPeek(s.under, offset))

RECURSIVE BufferedPeek(_, _)
BufferedPeek(s, offset) ==
    LET Fetched(f) ==
            IF f.err # "ok" THEN f
            ELSE IF f.n = 0
            THEN Fails(f.stream, IF f.stream.finished THEN "eof" ELSE "enobufs")
            ELSE BufferedPeek(f.stream, offset)
    IN  IF s.in.capacity = 0 THEN BufferedPeekUnder(s, offset)
        ELSE IF offset >= s.in.capacity
        THEN [BufferedPeekUnder(s, offset - Len(s.in.data)) EXCEPT
                  !.err = IF @ = "enotsup" THEN "enobufs" ELSE @]
        ELSE IF offset < Len(s.in.data)
        THEN Got(s, <<s.in.data[offset + 1]>>, FALSE)
        ELSE Fetched(FetchData(s))

BufferedReset(s) ==
    LET Done(r) == [r EXCEPT !.stream = [s EXCEPT !.in = BufferReset(@),
                                                  !.out = BufferReset(@),
                                                  !.under = r.stream]]
    IN  Done(StreamReset(s.under))

\* stream_buffered_close: the last flush, then the stream below.
BufferedClose(s) ==
    LET Closed(f, b) == [f EXCEPT !.stream = [@ EXCEPT !.under = b.stream],
                                  !.err = IF @ = "ok" THEN b.err ELSE @]
        Flushed(f) == Closed(f, StreamClose(f.stream.under))
    IN  Flushed(IF s.out.capacity > 0 THEN BufferedFlushAll(s) ELSE Wrote(s, 0))

------------------------------------------------------------------------------
(* avs_stream.c: dispatch through the v-table of a stream                  *)

StreamWriteSome(s, data) ==
    CASE s.kind = "membuf" -> MembufWrite(s, data)
      [] s.kind = "outbuf" -> OutbufWrite(s, data)
      [] s.kind = "simple_io" -> SimpleIoWrite(s, data)
      [] s.kind = "file" -> FileWrite(s, data)
      [] s.kind = "buffered" -> BufferedWrite(s, data)
      [] OTHER -> Fails(s, "enotsup")

StreamRead(s, len) ==
    CASE s.kind = "membuf" -> MembufRead(s, len)
      [] s.kind = "inbuf" -> InbufRead(s, len)
      [] s.kind = "simple_io" -> SimpleIoRead(s, len)
      [] s.kind = "file" -> FileRead(s, len)
      [] s.kind = "buffered" -> BufferedRead(s, len)
      [] OTHER -> Fails(s, "enotsup")

StreamPeek(s, offset) ==
    CASE s.kind = "membuf" -> MembufPeek(s, offset)
      [] s.kind = "inbuf" -> InbufPeek(s, offset)
      [] s.kind = "file" -> FilePeek(s, offset)
      [] s.kind = "buffered" -> BufferedPeek(s, offset)
      [] OTHER -> Fails(s, "enotsup")

StreamReset(s) ==
    CASE s.kind = "membuf" -> MembufReset(s)
      [] s.kind = "outbuf" -> OutbufReset(s)
      [] s.kind = "file" -> FileReset(s)
      [] s.kind = "buffered" -> BufferedReset(s)
      [] OTHER -> Fails(s, "enotsup")

\* _avs_stream_empty_finish_message for the streams without messages
StreamFinishMessage(s) ==
    CASE s.kind = "outbuf" -> OutbufFinish(s)
      [] s.kind = "buffered" -> BufferedFinish(s)
      [] s.kind = "inbuf" -> Fails(s, "enotsup")
      [] OTHER -> Wrote(s, 0)

\* The close method in avs_stream_cleanup; the others only free memory.
StreamClose(s) ==
    IF s.kind = "buffered" THEN BufferedClose(s) ELSE Wrote(s, 0)

\* avs_stream_offset, for the streams that have the extension
StreamOffset(s) ==
    CASE s.kind = "membuf" -> Wrote(s, Len(s.buf) - s.index_read)
      [] s.kind = "outbuf" -> Wrote(s, Len(s.buf))
      [] s.kind = "file" -> Wrote(s, s.pos)
      [] OTHER -> Fails(s, "enotsup")

\* avs_stream_write: a short write is an error.
StreamWrite(s, data) ==
    LET Written(w) == IF w.err = "ok" /\ w.n # Len(data)
                      THEN [w EXCEPT !.err = "emsgsize"] ELSE w
    IN  Written(StreamWriteSome(s, data))

\* avs_stream_write_fv: the text is formatted into a block of size bytes,
\* on the stack first and then on the heap with the size that is needed.
RECURSIVE StreamWriteFormatted(_, _, _, _)
StreamWriteFormatted(s, text, size, previous) ==
    LET needed == IF Len(text) >= size THEN Len(text) + 1 ELSE size
        Written(w) ==
            IF w.err = "enobufs" /\ needed > previous
            THEN StreamWriteFormatted(w.stream, text, needed, needed) ELSE w
    IN  Written(IF Len(text) >= size THEN Fails(s, "enobufs") ELSE StreamWrite(s, text))

StreamWriteF(s, text) == StreamWriteFormatted(s, text, STACK_BUFFER_SIZE, 0)

\* avs_stream_read_reliably, with what has been read so far
RECURSIVE StreamReadReliably(_, _, _)
StreamReadReliably(s, len, sofar) ==
    LET Read(r) ==
            LET read == sofar \o r.out
            IN  IF r.err # "ok" THEN [r EXCEPT !.out = sofar]
                ELSE IF r.fin /\ Len(read) < len
                THEN Result(r.stream, "eof", Len(read), read, TRUE)
                ELSE StreamReadReliably(r.stream, len, read)
    IN  IF Len(sofar) = len THEN Got(s, sofar, FALSE)
        ELSE Read(StreamRead(s, len - Len(sofar)))

StreamGetch(s) ==
    LET Read(r) == IF r.err = "ok" /\ r.n < 1 THEN [r EXCEPT !.err = "eof"] ELSE r
    IN  Read(StreamRead(s, 1))

\* avs_stream_ignore_to_end; out is a ghost, what was ignored
RECURSIVE StreamIgnoreToEnd(_, _)
StreamIgnoreToEnd(s, ignored) ==
    LET Read(r) ==
            IF r.err = "ok" THEN StreamIgnoreToEnd(r.stream, ignored \o r.out)
            ELSE [r EXCEPT !.err = IF @ = "eof" THEN "ok" ELSE @, !.out = ignored]
    IN  Read(StreamGetch(s))

\* avs_stream_copy: the result has the stream read from; written is the
\* stream written to.
RECURSIVE StreamCopy(_, _)
StreamCopy(output, input) ==
    LET Written(r, w) ==
            LET done(err) == [input |-> r.stream, output |-> w.stream, err |-> err]
            IN  IF w.err # "ok" THEN done(w.err)
                ELSE IF r.fin THEN done("ok")
                ELSE IF r.n = 0 THEN done("einval")
                ELSE StreamCopy(w.stream, r.stream)
        Read(r) ==
            IF r.err # "ok" THEN [input |-> r.stream, output |-> output, err |-> r.err]
            ELSE Written(r, IF r.n > 0 THEN StreamWrite(output, r.out)
                            ELSE Wrote(output, 0))
    IN  Read(StreamRead(input, STACK_BUFFER_SIZE))

------------------------------------------------------------------------------
(* avs_stream_getline and avs_stream_peekline share getline_helper.  The   *)
(* provider reads from the stream, or peeks at an offset that it advances. *)

Reader(s) == [stream |-> s, peeks |-> FALSE, offset |-> 0]
Peeker(s, offset) == [stream |-> s, peeks |-> TRUE, offset |-> offset]

ProviderGetch(p) ==
    LET Provided(r) ==
            LET step == IF p.peeks /\ r.err = "ok" THEN 1 ELSE 0
            IN  [p |-> [p EXCEPT !.stream = r.stream, !.offset = @ + step],
                 err |-> r.err, out |-> r.out]
    IN  Provided(IF p.peeks THEN StreamPeek(p.stream, p.offset)
                 ELSE StreamGetch(p.stream))

ProviderPeek(p, offset) ==
    LET Provided(r) ==
            [p |-> [p EXCEPT !.stream = r.stream], err |-> r.err, out |-> r.out]
    IN  Provided(StreamPeek(p.stream, p.offset + offset))

Line(p, err, text, last) == [p |-> p, err |-> err, text |-> text, last |-> last]

\* The loop of getline_helper; last is tmp_char.
RECURSIVE GetlineLoop(_, _, _, _)
GetlineLoop(p, text, last, length) ==
    LET AfterCR(n) ==
            IF n.err # "ok" THEN Line(n.p, n.err, text, CR)
            ELSE GetlineLoop(n.p, IF n.out[1] = LF THEN text ELSE Append(text, CR),
                             CR, length)
        Provided(g) ==
            LET c == g.out[1]
            IN  IF g.err # "ok" THEN Line(g.p, g.err, text, last)
                ELSE IF c = NUL THEN Line(g.p, "eio", text, c)
                ELSE IF c = LF THEN Line(g.p, "ok", text, c)
                ELSE IF c # CR THEN GetlineLoop(g.p, Append(text, c), c, length)
                ELSE AfterCR(ProviderPeek(g.p, 0))
    IN  IF Len(text) >= length - 1 THEN Line(p, "ok", text, last)
        ELSE Provided(ProviderGetch(p))

ValidateLineFinished(line) ==
    LET Ends(r) ==
            [line EXCEPT !.p = r.p, !.err = IF r.err # "ok" THEN r.err
                                            ELSE IF r.out[1] = LF THEN "ok"
                                            ELSE "enobufs"]
        Peeked(n) == IF n.err = "ok" /\ n.out[1] = CR THEN Ends(ProviderPeek(n.p, 1))
                     ELSE Ends(n)
    IN  IF line.last = LF THEN line ELSE Peeked(ProviderPeek(line.p, 0))

ConsumeLineTerminator(line) ==
    LET Ends(r) == [line EXCEPT !.p = r.p, !.err = r.err]
        Consumed(g) == Ends(IF g.err = "ok" /\ g.out[1] = CR THEN ProviderGetch(g.p)
                            ELSE g)
    IN  IF line.last = LF THEN line ELSE Consumed(ProviderGetch(line.p))

GetlineHelper(p, length) ==
    LET Validated(v) == IF v.err # "ok" THEN v ELSE ConsumeLineTerminator(v)
        Filled(l) == IF l.err # "ok" THEN l ELSE Validated(ValidateLineFinished(l))
    IN  Filled(GetlineLoop(p, <<>>, NUL, length))

StreamGetline(s, length) == GetlineHelper(Reader(s), length)
StreamPeekline(s, offset, length) == GetlineHelper(Peeker(s, offset), length)

------------------------------------------------------------------------------
(***************************************************************************)
(* An application that makes calls on one stack of these streams, in       *)
(* any order.  Init has a stack to read from, with its content, or a stack *)
(* to write to.  The bytes written are numbered, so that a lost, repeated  *)
(* or misplaced one shows.                                                 *)
(***************************************************************************)

CONSTANTS
    Contents,       \* what can be read from an input stack
    InputPlans,     \* plans of what is below an input stack
    OutputPlans,    \* plans of what is below an output stack
    BufferSizes,    \* sizes for avs_stream_buffered_create
    ReadSizes,      \* buffer_length of a read
    MaxWritten      \* bound: bytes written to a stack

VARIABLES
    strm,      \* the stack
    offered,   \* ghost: the bytes to be read, those already read included
    taken,     \* ghost: how many of them the stream has given away
    acked,     \* ghost: the bytes the stream has accepted
    numbered,  \* the number of the last byte written
    call       \* the last call: what it was, its results, Unread before it

stmVars == <<strm, offered, taken, acked, numbered, call>>

Bases(content, plan) ==
    { [MembufCreate EXCEPT !.buf = content, !.size = Len(content)],
      InbufSetBuffer(content), SimpleIoCreate(content, plan),
      FileCreate(content, "r", plan) }

Inputs(content) ==
    UNION { LET b == Bases(content, plan)
            IN  b \cup { BufferedCreate(s, n, 0) : s \in b, n \in BufferSizes }
          : plan \in InputPlans }

Outputs ==
    UNION { LET b == { [MembufCreate EXCEPT !.plan = plan],
                       OutbufSetBuffer(3), SimpleIoCreate(<<>>, plan),
                       FileCreate(<<>>, "w", plan) }
            IN  b \cup { BufferedCreate(s, 0, n) : s \in b, n \in BufferSizes }
          : plan \in OutputPlans }

\* What a stack still has to give, and what has arrived at its lowest stream.
RECURSIVE Unread(_)
Unread(s) ==
    CASE s.kind = "membuf" -> Drop(s.buf, s.index_read)
      [] s.kind = "inbuf" -> Drop(s.buf, s.offset)
      [] s.kind = "simple_io" -> s.source
      [] s.kind = "file" -> Drop(s.content, s.pos)
      [] s.kind = "buffered" -> s.in.data \o Unread(s.under)
      [] OTHER -> <<>>

RECURSIVE Arrived(_)
Arrived(s) ==
    CASE s.kind \in {"membuf", "outbuf"} -> s.buf
      [] s.kind = "simple_io" -> s.sink
      [] s.kind = "file" -> s.content
      [] s.kind = "buffered" -> Arrived(s.under)
      [] OTHER -> <<>>

IsInput == numbered = 0

\* The stream at the bottom of a stack.
BaseOf(s) == IF s.kind = "buffered" THEN s.under ELSE s

NoStmCall == [op |-> "none", arg |-> 0, err |-> "ok", out |-> <<>>,
           fin |-> FALSE, before |-> <<>>, copied |-> <<>>]

StmInit ==
    /\ \/ \E content \in Contents : /\ strm \in Inputs(content)
                                    /\ offered = content
                                    /\ numbered = 0
       \/ strm \in Outputs /\ offered = <<>> /\ numbered = 100
    /\ taken = 0
    /\ acked = <<>>
    /\ call = NoStmCall

Report(op, arg, err, out, fin) ==
    call' = [op |-> op, arg |-> arg, err |-> err, out |-> out, fin |-> fin,
             before |-> Unread(strm), copied |-> <<>>]

\* A call that may take bytes from the stream.
Reads(op, arg, r) ==
    /\ IsInput
    /\ strm' = r.stream
    /\ taken' = taken + Len(Unread(strm)) - Len(Unread(strm'))
    /\ Report(op, arg, r.err, r.out, r.fin)
    /\ UNCHANGED <<offered, acked, numbered>>

StmRead(len) == Reads("read", len, StreamRead(strm, len))
\* The bound is for files that have failed: each peek moves them further.
StmPeek(offset) ==
    /\ BaseOf(strm).kind = "file" => BaseOf(strm).pos <= MaxWritten
    /\ Reads("peek", offset, StreamPeek(strm, offset))
StmReadReliably(len) == Reads("read_reliably", len, StreamReadReliably(strm, len, <<>>))
StmIgnoreToEnd == Reads("ignore", 0, StreamIgnoreToEnd(strm, <<>>))

ReadsLine(op, length, line) ==
    Reads(op, length, Result(line.p.stream, line.err, Len(line.text),
                             line.text, FALSE))

StmGetline(length) == ReadsLine("getline", length, StreamGetline(strm, length))
StmPeekline(length) == ReadsLine("peekline", length, StreamPeekline(strm, 0, length))

StmCopy ==
    LET c == StreamCopy(MembufCreate, strm)
    IN  /\ IsInput
        /\ strm' = c.input
        /\ taken' = taken + Len(Unread(strm)) - Len(Unread(strm'))
        /\ call' = [NoStmCall EXCEPT !.op = "copy", !.err = c.err,
                                  !.before = Unread(strm),
                                  !.copied = c.output.buf]
        /\ UNCHANGED <<offered, acked, numbered>>

\* A file goes back to its beginning or to another position; a membuf, and
\* the buffers of a buffered stream, lose what they hold.
StmReset ==
    LET r == StreamReset(strm)
    IN  /\ IsInput
        /\ strm' = r.stream
        /\ IF BaseOf(strm).kind = "file"
           THEN taken' = 0 /\ UNCHANGED offered
           ELSE /\ offered' = Take(offered, taken) \o Unread(strm')
                /\ UNCHANGED taken
        /\ Report("reset", 0, r.err, <<>>, FALSE)
        /\ UNCHANGED <<acked, numbered>>

StmSeek(pos) ==
    /\ IsInput /\ strm.kind = "file"
    /\ strm' = FileSeek(FileLength(strm).stream, pos)
    /\ taken' = pos
    /\ Report("seek", pos, "ok", <<>>, FALSE)
    /\ UNCHANGED <<offered, acked, numbered>>

\* A membuf that is being read can be written to as well; it is also asked
\* for room, shrunk, and emptied into a block of the application's.
StmMembufGrow(n) ==
    LET bytes == [i \in 1..n |-> numbered + i]
        w == StreamWriteSome(strm, bytes)
    IN  /\ IsInput /\ strm.kind = "membuf" /\ Len(offered) + n <= MaxWritten
        /\ strm' = w.stream
        /\ offered' = offered \o Take(bytes, w.n)
        /\ Report("grow", n, w.err, <<>>, FALSE)
        /\ UNCHANGED <<taken, acked, numbered>>

StmMembufRoom(r) ==
    /\ IsInput /\ strm.kind = "membuf"
    /\ strm' = r.stream
    /\ Report("room", 0, r.err, <<>>, FALSE)
    /\ UNCHANGED <<offered, taken, acked, numbered>>

StmMembufTake ==
    LET r == MembufTakeOwnership(strm)
    IN  /\ IsInput /\ strm.kind = "membuf"
        /\ strm' = r.stream
        /\ taken' = taken + r.n
        /\ Report("take", 0, r.err, r.out, FALSE)
        /\ UNCHANGED <<offered, acked, numbered>>

\* The calls of the writing side.  The bound is for files that have failed:
\* each flush writes the same bytes once more.
MaxArrived == 2 * MaxWritten

Writes(op, n, r, accepted) ==
    /\ ~IsInput /\ call.op # "close"
    /\ op = "close" \/ Len(Arrived(strm)) <= MaxArrived
    /\ strm' = r.stream
    /\ acked' = accepted
    /\ numbered' = numbered + n
    /\ call' = [NoStmCall EXCEPT !.op = op, !.arg = n, !.err = r.err]
    /\ UNCHANGED <<offered, taken>>

Fresh(n) == [i \in 1..n |-> numbered + i]

StmWriteSome(n) ==
    LET r == StreamWriteSome(strm, Fresh(n))
    IN  /\ numbered - 100 + n <= MaxWritten
        /\ Writes("write_some", n, r, acked \o Take(Fresh(n), r.n))

StmWriteF(n) ==
    LET r == StreamWriteF(strm, Fresh(n))
    IN  /\ numbered - 100 + n <= MaxWritten
        /\ Writes("write_f", n, r, acked \o Take(Fresh(n), r.n))

StmFinish == Writes("finish", 0, StreamFinishMessage(strm), acked)
StmClose == Writes("close", 0, StreamClose(strm), acked)

\* After avs_stream_cleanup the application creates another stream.
StmReopen ==
    /\ call.op = "close"
    /\ strm' \in Outputs
    /\ acked' = <<>> /\ numbered' = 100 /\ call' = NoStmCall
    /\ UNCHANGED <<offered, taken>>

\* What was written and not yet finished is given up.
StmDiscard ==
    LET r == StreamReset(strm)
    IN  /\ BaseOf(strm).kind # "file"
        /\ Writes("discard", 0, r,
                  IF r.err = "ok" THEN <<>> ELSE Arrived(r.stream))

StmOutbufSetOffset(offset) ==
    LET r == OutbufSetOffset(strm, offset)
    IN  /\ strm.kind = "outbuf"
        /\ Writes("set_offset", 0, r, Take(acked, StreamOffset(r.stream).n))

StmNext ==
    \/ \E len \in ReadSizes : \/ StmRead(len) \/ StmPeek(len)
                              \/ StmReadReliably(len)
                              \/ StmMembufGrow(len)
                              \/ StmMembufRoom(MembufEnsureFreeBytes(strm, len))
                              \/ StmWriteSome(len) \/ StmWriteF(len)
    \/ \E length \in ReadSizes \ {0} : StmGetline(length) \/ StmPeekline(length)
    \/ StmIgnoreToEnd \/ StmCopy \/ StmReset
    \/ \E pos \in 0..Len(offered) : StmSeek(pos)
    \/ StmMembufRoom(MembufFit(strm)) \/ StmMembufTake
    \/ StmFinish \/ StmClose \/ StmReopen \/ StmDiscard
    \/ \E offset \in 0..1 : StmOutbufSetOffset(offset)

------------------------------------------------------------------------------

\* The input and the output buffer of a buffered stream stay inside their
\* blocks, however reads, peeks and partial flushes move the data in them.
StmBuffersInBounds ==
    strm.kind = "buffered" => BufferInBounds(strm.in) /\ BufferInBounds(strm.out)

FileFailed(s) == s.kind = "file" /\ s.error

\* Whatever mixture of reads, peeks, lines, copies and resets has happened,
\* what a stack still has to give is exactly what follows the bytes it has
\* given away, and a read returns the very next bytes.  A file whose error
\* indicator is set is exempt until the stream is reset: a read that reports
\* the error has moved the position, and stream_file_peek does not go back.
ReadsInOrder ==
    IsInput /\ ~FileFailed(BaseOf(strm))
            => /\ Unread(strm) = Drop(offered, taken)
               /\ call.op \in {"read", "read_reliably", "ignore", "take"}
                     => call.out = Take(call.before, Len(call.out))
               /\ call.copied = Take(call.before, Len(call.copied))

\* avs_stream_peek gives the byte a read would give at that offset, takes
\* nothing from the stream, and says AVS_EOF only when there is no such byte.
\* (For a failed read of a file see ReadsInOrder.)
PeekTellsTheTruth ==
    IsInput /\ call.op = "peek"
        => /\ call.err = "ok" => call.out = <<call.before[call.arg + 1]>>
           /\ call.err = "eof" => call.arg >= Len(call.before)
           /\ call.err # "eio" => Unread(strm) = call.before

\* The line at the beginning of some bytes: its text, and the bytes it takes
\* together with its LF or CR LF.
HasLine(bytes) == \E i \in 1..Len(bytes) : bytes[i] = LF
LineEnd(bytes) == CHOOSE i \in 1..Len(bytes) :
                      bytes[i] = LF /\ \A j \in 1..(i - 1) : bytes[j] # LF
LineText(bytes) ==
    LET end == LineEnd(bytes)
        hasCR == end > 1 /\ bytes[end - 1] = CR
    IN  SubSeq(bytes, 1, IF hasCR THEN end - 2 ELSE end - 1)

\* avs_stream_getline and avs_stream_peekline succeed exactly when a whole
\* line without a zero byte is there and fits (and, over a stream that
\* cannot peek itself, fits the input buffer above it); then they return its text,
\* and getline takes the line with its terminator and nothing more.  AVS_EOF
\* means that no line is there.  Nothing after the line is ever taken.
LinesAreLines ==
    IsInput /\ call.op \in {"getline", "peekline"}
            /\ call.err \notin {"enotsup", "eio"}
        => LET b == call.before
               text == LineText(b)
               used == Len(b) - Len(Unread(strm))
           IN  /\ call.err = "ok" => HasLine(b) /\ Len(text) < call.arg
               /\ HasLine(b) /\ Len(text) < call.arg /\ BaseOf(strm).kind # "simple_io"
                     => call.err = "ok"
               /\ call.err = "ok" => /\ call.out = text
                                     /\ call.op = "getline" => used = LineEnd(b)
               /\ call.err = "eof" => ~HasLine(b)
               /\ call.op = "peekline" => used = 0
               /\ HasLine(b) => used <= LineEnd(b)

\* avs_stream_ignore_to_end that succeeds has reached the end of the stream,
\* and so has avs_stream_copy, but for one case: a copy from a buffered stream
\* whose buffer is larger than the copy's own (see CopyIsWhole).  And
\* avs_stream_read_reliably says AVS_EOF only when there is too little data
\* in the stream to fill the buffer.
EndIsReached ==
    /\ IsInput /\ call.op = "ignore" /\ call.err = "ok" => Unread(strm) = <<>>
    /\ IsInput /\ call.op = "copy" /\ call.err = "ok"
             /\ (strm.kind = "buffered" => strm.in.capacity <= STACK_BUFFER_SIZE)
          => call.copied = call.before
    /\ IsInput /\ call.op = "read_reliably" /\ call.err = "eof"
          => Len(call.before) < call.arg

\* What avs_stream.h says of avs_stream_copy for every stream: it copies the
\* message.  stream_buffered_read says that the message is finished as soon
\* as the stream below has been read to its end, although its own buffer
\* still holds bytes of the message; the copy then stops early.
CopyIsWhole ==
    IsInput /\ call.op = "copy" /\ call.err = "ok" => call.copied = call.before

Waiting(s) == IF s.kind = "buffered" THEN s.out.data ELSE <<>>
Increasing(s) == \A i, j \in 1..Len(s) : i < j => s[i] < s[j]

\* No byte comes for the first time behind one that was written after it.
FirstInOrder(s) ==
    \A i, j \in 1..Len(s) :
        i < j /\ s[j] < s[i] => \E k \in 1..(i - 1) : s[k] = s[j]

\* Output: the bytes arrive at the lowest stream in order and once each; a
\* byte that a write has accepted has arrived or waits in the output buffer,
\* short writes, failed flushes and formatted writes notwithstanding; and
\* when avs_stream_finish_message or the close succeeds nothing waits.  Over a
\* file whose error indicator is set bytes may come again, but in no other
\* order: fwrite stores some before it fails, and the buffer keeps them all.
WritesInOrder ==
    ~IsInput =>
        LET all == Arrived(strm) \o Waiting(strm)
        IN  /\ IF FileFailed(BaseOf(strm)) THEN FirstInOrder(all) ELSE Increasing(all)
            /\ \A i \in 1..Len(acked) : \E j \in 1..Len(all) : all[j] = acked[i]
            /\ call.op \in {"finish", "close"} /\ call.err = "ok"
                  => Waiting(strm) = <<>>

\* Every stack of streams keeps its data: reads, peeks, lines, copies and
\* writes lose, repeat and invent nothing, whatever is short or fails, but for
\* what stdio has moved in a call that failed.
StreamsCorrect ==
    /\ StmBuffersInBounds
    /\ ReadsInOrder
    /\ PeekTellsTheTruth
    /\ LinesAreLines
    /\ EndIsReached
    /\ WritesInOrder

=============================================================================
