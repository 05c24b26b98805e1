------------------------------ MODULE HttpBody ------------------------------
(***************************************************************************)
(* Reading the body of an HTTP response: the body receivers of             *)
(* src/src/http/body_receivers (identity, Content-Length and chunked), the *)
(* decoding stream of avs_content_encoding.c and the zlib stream of        *)
(* avs_compression.c, over the buffered net stream of Netbuf.              *)
(*                                                                         *)
(* What the server sends is a sequence of tokens.  A line of the chunked   *)
(* encoding is its text, one token, and EOL.  Compressed content is a      *)
(* sequence of codes that stand for two bytes each, closed by ZEND.        *)
(***************************************************************************)
EXTENDS Netbuf

CONSTANTS MinInput    \* content_coding_min_input

HEX(n) == 100 + n     \* the text of a chunk headline with size n
TOOBIG == 150         \* a size that strtoul does not represent
EOL    == 200         \* the end of a line
JUNK   == 201         \* a text whose beginning only, 1, is a number; a trailer
ZBAD   == 8           \* compressed content that inflate refuses
ZEND   == 9           \* the end of compressed content

HUGE == 99            \* ULONG_MAX

\* A body receiver with its decoder; kind "none" is a null body_receiver.
NoZlib == [on |-> FALSE, in |-> <<>>, out |-> <<>>, pend |-> <<>>,
           error |-> "ok", finish |-> FALSE, insize |-> 0, outsize |-> 0]
NoBody == [kind |-> "none", nb |-> NbCreate(0, 0), left |-> 0,
           finished |-> FALSE, z |-> NoZlib]

BodyResult(b, err, out, fin) == [body |-> b, err |-> err, out |-> out, fin |-> fin]

------------------------------------------------------------------------------
(* Lines, from avs_stream_getline or avs_stream_peekline on the net stream;*)
(* p says which, and where a peek is.                                      *)

RECURSIVE ProvidedLine(_, _)
ProvidedLine(p, text) ==
    LET Provided(r) ==
            LET q == [p EXCEPT !.nb = r.nb, !.offset = @ + Len(r.out)]
            IN  IF r.err # "ok" THEN [p |-> q, err |-> r.err, text |-> text]
                ELSE IF r.out = <<>> THEN [p |-> q, err |-> "eof", text |-> text]
                ELSE IF r.out[1] = EOL THEN [p |-> q, err |-> "ok", text |-> text]
                ELSE ProvidedLine(q, text \o r.out)
    IN  Provided(IF p.peek THEN NbPeek(p.nb, p.offset) ELSE NbRead(p.nb, 1))

\* The loop of read_chunk_size: empty lines and lines that are not a number
\* are skipped; value is what the last number was.
RECURSIVE ChunkHeadline(_, _)
ChunkHeadline(p, value) ==
    LET Parsed(l) ==
            IF l.err # "ok"
            THEN [p |-> l.p, err |-> IF l.err = "eof" THEN "eproto" ELSE l.err,
                  value |-> value]
            ELSE IF l.text = <<>> THEN ChunkHeadline(l.p, value)
            ELSE IF l.text[1] = TOOBIG
            THEN [p |-> l.p, err |-> "erange", value |-> HUGE]
            ELSE IF l.text[1] \in 100..149
            THEN [p |-> l.p, err |-> "ok", value |-> l.text[1] - 100]
            ELSE ChunkHeadline(l.p, IF l.text[1] = JUNK THEN 1 ELSE 0)
    IN  Parsed(ProvidedLine(p, <<>>))

RECURSIVE SkipTrailers(_)
SkipTrailers(p) ==
    LET Skipped(l) == IF l.err # "ok" \/ l.text = <<>>
                      THEN [p |-> l.p, err |-> l.err, value |-> 0]
                      ELSE SkipTrailers(l.p)
    IN  Skipped(ProvidedLine(p, <<>>))

ReadChunkSizeOnly(p) == ChunkHeadline(p, 0)

ReadChunkSize(p) ==
    LET Sized(h) == IF h.err = "ok" /\ h.value = 0 THEN SkipTrailers(h.p) ELSE h
    IN  Sized(ChunkHeadline(p, 0))

------------------------------------------------------------------------------
(* The receivers                                                           *)

\* chunked_read up to the place where it returns or goes on to the data
ChunkedHeader(b) ==
    LET Begun(c) ==
            LET done == c.err = "ok" /\ c.value = 0
            IN  BodyResult([b EXCEPT !.nb = c.p.nb, !.left = c.value,
                                     !.finished = done], c.err, <<>>, done)
    IN  IF b.left > 0 \/ b.finished THEN BodyResult(b, "ok", <<>>, b.finished)
        ELSE Begun(ReadChunkSize([nb |-> b.nb, peek |-> FALSE, offset |-> 0]))

\* chunked_read; a read error below it is dropped.
ChunkedRead(b, len) ==
    LET Received(chunk, r) ==
            BodyResult([chunk EXCEPT !.nb = r.nb, !.left = @ - Len(r.out)],
                       IF r.err = "ok" /\ r.fin THEN "eio" ELSE "ok", r.out, FALSE)
        ReadData(chunk, nb) == Received(chunk, NbRead(nb, AVS_MIN(len, chunk.left)))
        Checked(h, ready) == IF ~ready.fin THEN [h EXCEPT !.body.nb = ready.nb]
                             ELSE ReadData(h.body, ready.nb)
        Begun(h) == IF h.err # "ok" \/ h.fin THEN h
                    ELSE Checked(h, NbReadReady(h.body.nb, "none"))
    IN  IF b.left > 0 THEN ReadData(b, b.nb) ELSE Begun(ChunkedHeader(b))

LengthRead(b, len) ==
    LET n == AVS_MIN(len, b.left)
        Received(r) ==
            LET left == b.left - Len(r.out)
            IN  BodyResult([b EXCEPT !.nb = r.nb, !.left = left],
                           IF r.err = "ok" /\ r.fin /\ left > 0 THEN "eio" ELSE r.err,
                           r.out, left = 0)
    IN  IF n = 0 THEN BodyResult(b, "ok", <<>>, b.left = 0)
        ELSE Received(NbRead(b.nb, n))

DumbRead(b, len) ==
    LET Received(r) == BodyResult([b EXCEPT !.nb = r.nb], r.err, r.out, r.fin)
    IN  Received(NbRead(b.nb, len))

ReceiverRead(b, len) == CASE b.kind = "chunked" -> ChunkedRead(b, len)
                          [] b.kind = "length" -> LengthRead(b, len)
                          [] b.kind = "dumb" -> DumbRead(b, len)

BackendPeek(b, offset) ==
    LET Peeked(r) == BodyResult([b EXCEPT !.nb = r.nb], r.err, r.out, FALSE)
    IN  Peeked(NbPeek(b.nb, offset))

\* chunked_peek: p.offset is where the rest of the current chunk begins
RECURSIVE ChunkedPeekFrom(_, _, _, _)
ChunkedPeekFrom(b, offset, left, at) ==
    LET NextChunk(c) ==
            LET after == [b EXCEPT !.nb = c.p.nb]
            IN  IF c.err # "ok" THEN BodyResult(after, c.err, <<>>, FALSE)
                ELSE IF c.value = 0 THEN BodyResult(after, "eof", <<>>, FALSE)
                ELSE ChunkedPeekFrom(after, offset - left, c.value, c.p.offset)
    IN  IF offset < left THEN BackendPeek(b, offset + at)
        ELSE NextChunk(ReadChunkSize([nb |-> b.nb, peek |-> TRUE, offset |-> at + left]))

ChunkedPeek(b, offset) ==
    IF b.finished THEN BodyResult(b, "eof", <<>>, FALSE)
    ELSE ChunkedPeekFrom(b, offset, b.left, 0)

ReceiverPeek(b, offset) ==
    CASE b.kind = "chunked" -> ChunkedPeek(b, offset)
      [] b.kind = "length" -> IF offset >= b.left
                              THEN BodyResult(b, "eof", <<>>, FALSE)
                              ELSE BackendPeek(b, offset)
      [] b.kind = "dumb" -> BackendPeek(b, offset)

ReceiverReady(b) ==
    LET Checked(r) == BodyResult([b EXCEPT !.nb = r.nb], "ok", <<>>, r.fin)
    IN  IF b.kind = "length" /\ b.left = 0 THEN BodyResult(b, "ok", <<>>, TRUE)
        ELSE Checked(NbReadReady(b.nb, "none"))

------------------------------------------------------------------------------
(* The decompressor.  inflate consumes a code only when it has given out   *)
(* all that the code before stood for.                                     *)

ZlibCreate(insize, outsize) ==
    [NoZlib EXCEPT !.on = TRUE, !.insize = insize, !.outsize = outsize]

Expanded(code) == <<10 * code, 10 * code + 1>>

RECURSIVE Inflate(_, _, _)
Inflate(z, space, produced) ==
    LET n == AVS_MIN(space, Len(z.pend))
        given == [z EXCEPT !.pend = Drop(@, n)]
        made == produced \o Take(z.pend, n)
        code == Head(z.in)
        rest == [given EXCEPT !.in = Tail(@)]
    IN  IF given.pend # <<>> \/ z.in = <<>>
        THEN [z |-> given, ret |-> "ok", out |-> made]
        ELSE IF code = ZEND THEN [z |-> rest, ret |-> "end", out |-> made]
        ELSE IF code = ZBAD THEN [z |-> given, ret |-> "data", out |-> made]
        ELSE Inflate([rest EXCEPT !.pend = Expanded(code)], space - n, made)

\* decompressor_flush with space bytes for its output.  Z_BUF_ERROR is what
\* inflate returns when nothing happened and for everything but the end when
\* the input has been declared finished; the stream ignores it.
DecompressorFlush(z, space) ==
    LET Inflated(i) ==
            LET buf == i.ret = "ok" /\ (z.finish \/ (i.out = <<>> /\ i.z.in = z.in))
            IN  [z |-> [i.z EXCEPT !.error = IF buf THEN "ok" ELSE i.ret],
                 out |-> i.out, err |-> IF i.ret = "data" THEN "eio" ELSE "ok"]
    IN  IF z.error = "end" THEN [z |-> z, out |-> <<>>, err |-> "ok"]
        ELSE Inflated(Inflate(z, space, <<>>))

FlushToBuffer(z) ==
    LET Buffered(f) == [f EXCEPT !.z.out = @ \o f.out]
    IN  Buffered(DecompressorFlush(z, z.outsize - Len(z.out)))

\* zlib_stream_write_some as avs_stream_write uses it: less than all is
\* AVS_EMSGSIZE.
ZlibWrite(z, data) ==
    LET Written(f, n) ==
            [z |-> f.z, err |-> IF f.err # "ok" THEN f.err
                                ELSE IF n < Len(data) THEN "emsgsize" ELSE "ok"]
        Flushed(first) ==
            LET n == AVS_MIN(Len(data), first.z.insize - Len(first.z.in))
            IN  IF first.err # "ok" THEN [z |-> first.z, err |-> first.err]
                ELSE Written(FlushToBuffer([first.z EXCEPT !.in = @ \o Take(data, n)]), n)
    IN  IF z.error = "end" \/ z.finish THEN [z |-> z, err |-> "ebadf"]
        ELSE Flushed(IF Len(data) > z.insize - Len(z.in) THEN FlushToBuffer(z)
                     ELSE [z |-> z, err |-> "ok"])

ZlibFinish(z) ==
    LET Finished(f) == [z |-> f.z, err |-> f.err]
    IN  Finished(FlushToBuffer([z EXCEPT !.finish = TRUE]))

\* zlib_stream_read: first what the output buffer holds, then directly into
\* the reader's memory.
ZlibRead(z, len) ==
    LET n == AVS_MIN(len, Len(z.out))
        held == [z EXCEPT !.out = Drop(@, n)]
        Flushed(f) ==
            [z |-> f.z, out |-> Take(z.out, n) \o f.out,
             fin |-> f.z.error = "end" /\ f.z.out = <<>>,
             err |-> IF f.z.error \in {"ok", "end"} THEN "ok" ELSE "eio"]
    IN  Flushed(IF n < len /\ z.error # "end" THEN DecompressorFlush(held, len - n)
                ELSE [z |-> held, out |-> <<>>, err |-> "ok"])

ZlibPeek(z, offset) ==
    LET Flushed(f) ==
            IF f.err # "ok" THEN [z |-> f.z, err |-> f.err, out |-> <<>>]
            ELSE IF offset < Len(f.z.out)
            THEN [z |-> f.z, err |-> "ok", out |-> <<f.z.out[offset + 1]>>]
            ELSE [z |-> f.z, err |-> "eof", out |-> <<>>]
    IN  IF offset > z.outsize THEN [z |-> z, err |-> "enobufs", out |-> <<>>]
        ELSE Flushed(IF offset >= Len(z.out) THEN FlushToBuffer(z)
                     ELSE [z |-> z, err |-> "ok"])

------------------------------------------------------------------------------
(* The decoding stream                                                     *)

\* decode_more_data: small buffers are replaced by one of MinInput bytes;
\* fin is *out_no_more_data.
DecodeMoreData(b, len) ==
    LET Finished(r, f) == BodyResult([r.body EXCEPT !.z = f.z], f.err, <<>>, r.fin)
        Written(r, w) ==
            Finished(r, IF w.err = "ok" /\ r.fin THEN ZlibFinish(w.z) ELSE w)
        Received(r) ==
            IF r.err # "ok" THEN r
            ELSE Written(r, IF r.out # <<>> THEN ZlibWrite(b.z, r.out)
                            ELSE [z |-> b.z, err |-> "ok"])
    IN  Received(ReceiverRead(b, IF len >= MinInput THEN len ELSE MinInput))

\* decoding_read; "assert" is the failing assert(!no_more_data).  The loop
\* goes on for ever while the chunked receiver below drops its read errors:
\* "waiting" is a call that has not returned, and goes on when it is made
\* again.
RECURSIVE DecodingReadLoop(_, _, _)
DecodingReadLoop(b, len, no_more) ==
    LET Fed(m) ==
            IF m.err # "ok" THEN BodyResult(m.body, m.err, <<>>, FALSE)
            ELSE IF m.body = b /\ ~m.fin THEN BodyResult(b, "waiting", <<>>, FALSE)
            ELSE DecodingReadLoop(m.body, len, m.fin)
        Decoded(r) ==
            LET after == [b EXCEPT !.z = r.z]
            IN  IF r.err # "ok" \/ r.out # <<>> \/ r.fin
                THEN BodyResult(after, r.err, r.out, r.fin)
                ELSE IF no_more THEN BodyResult(after, "assert", <<>>, FALSE)
                ELSE Fed(DecodeMoreData(after, len))
    IN  Decoded(ZlibRead(b.z, len))

RECURSIVE DecodingPeek(_, _, _)
DecodingPeek(b, offset, no_more) ==
    LET Fed(m) ==
            IF m.err # "ok" THEN BodyResult(m.body, m.err, <<>>, FALSE)
            ELSE IF m.body = b /\ ~m.fin THEN BodyResult(b, "waiting", <<>>, FALSE)
            ELSE DecodingPeek(m.body, offset, m.fin)
        Decoded(r) ==
            LET after == [b EXCEPT !.z = r.z]
            IN  IF r.err # "eof" \/ no_more THEN BodyResult(after, r.err, r.out, FALSE)
                ELSE Fed(DecodeMoreData(after, 0))
    IN  Decoded(ZlibPeek(b.z, offset))

\* decoding_nonblock_read_ready: only fin is returned; err is a ghost.
RECURSIVE DecodingReady(_)
DecodingReady(b) ==
    LET Fed(m) ==
            IF m.err # "ok" THEN BodyResult(m.body, m.err, <<>>, FALSE)
            ELSE IF m.fin THEN BodyResult(m.body, "ok", <<>>, TRUE)
            ELSE DecodingReady(m.body)
        Checked(ready) ==
            IF ~ready.fin THEN ready ELSE Fed(DecodeMoreData(ready.body, 0))
        Decoded(r) ==
            LET after == [b EXCEPT !.z = r.z]
            IN  IF r.err # "eof" THEN BodyResult(after, "ok", <<>>, r.err = "ok")
                ELSE Checked(ReceiverReady(after))
    IN  Decoded(ZlibPeek(b.z, 0))

------------------------------------------------------------------------------
(* The body of a response                                                  *)

\* create_body_receiver and _avs_http_body_receiver_init: the net stream with
\* the headers may hold the first bytes of the body.
BodyReceiverInit(response, header_nb, recv_size, insize, outsize) ==
    LET t == NbTransfer([NbCreate(recv_size, 0) EXCEPT !.socket = header_nb.socket],
                        header_nb)
        empty == response.transfer = "dumb" /\ response.status \in {204, 205}
    IN  IF ~t.done THEN NoBody
        ELSE [kind |-> IF empty THEN "length" ELSE response.transfer,
              nb |-> t.to, left |-> IF empty THEN 0 ELSE response.length,
              finished |-> FALSE,
              z |-> IF response.coded THEN ZlibCreate(insize, outsize) ELSE NoZlib]

\* http_receive: the receiver is gone once the body is finished.
HttpReceive(b, len) ==
    LET Received(r) == IF r.fin THEN [r EXCEPT !.body.kind = "none"] ELSE r
    IN  IF b.kind = "none" THEN BodyResult(b, "ebadf", <<>>, TRUE)
        ELSE Received(IF b.z.on THEN DecodingReadLoop(b, len, FALSE)
                      ELSE ReceiverRead(b, len))

HttpPeek(b, offset) ==
    IF b.kind = "none" THEN BodyResult(b, "eof", <<>>, FALSE)
    ELSE IF b.z.on THEN DecodingPeek(b, offset, FALSE) ELSE ReceiverPeek(b, offset)

HttpReadReady(b) ==
    IF b.kind = "none" THEN BodyResult(b, "ok", <<>>, FALSE)
    ELSE IF b.z.on THEN DecodingReady(b) ELSE ReceiverReady(b)

------------------------------------------------------------------------------
(***************************************************************************)
(* An application that reads the bodies of HTTP responses                  *)
(* while the server sends them piece by piece, stalls, or closes the       *)
(* connection before the end.                                              *)
(***************************************************************************)

CONSTANTS
    Responses,    \* what the server answers: transfer, length, coded, status,
                  \* body (what the application should read), wire (the tokens)
    RecvSizes,    \* body_recv
    CodingSizes,  \* sizes of the decoder's buffers
    HbSizes,      \* buffer_length of a read, offset of a peek
    HbSegments,   \* tokens the server sends at once
    MaxQueued     \* bound: segments that wait in the socket

VARIABLES
    hb,         \* the body receiver
    response,   \* ghost: the response that is being read
    unsent,     \* the part of it that the server has not sent
    cut,        \* ghost: the server has closed the connection too early
    taken_,     \* ghost: how much of the body has been read
    hbFailed,   \* ghost: a call has failed
    hbCall      \* the last call and its results

hbVars == <<hb, response, unsent, cut, taken_, hbFailed, hbCall>>

HbNoCall == [op |-> "none", arg |-> 0, err |-> "ok", out |-> <<>>, fin |-> FALSE]

NoResponse == [transfer |-> "none", length |-> 0, coded |-> FALSE, status |-> 0,
               body |-> <<>>, wire |-> <<>>, bad |-> FALSE]

\* The headers of a response have been read, and with them the first bytes of
\* the body, as many as the net stream for headers holds.
HbOpen(r, early) ==
    LET header_nb == [NbCreate(2, 0) EXCEPT !.in.data = Take(r.wire, early)]
    IN  /\ \E size \in RecvSizes, c \in CodingSizes :
              hb' = BodyReceiverInit(r, header_nb, size, c, c)
        /\ response' = r
        /\ unsent' = Drop(r.wire, early)
        /\ cut' = FALSE /\ taken_' = 0 /\ hbFailed' = FALSE /\ hbCall' = HbNoCall

HbInit ==
    /\ hb = NoBody /\ response = NoResponse /\ unsent = <<>> /\ cut = FALSE
    /\ taken_ = 0 /\ hbFailed = FALSE /\ hbCall = HbNoCall

HbNewResponse ==
    /\ response = NoResponse
    /\ \E r \in Responses : \E early \in 0..AVS_MIN(2, Len(r.wire)) : HbOpen(r, early)

\* The application resets the stream.
HbDone ==
    /\ response # NoResponse
    /\ hb' = NoBody /\ response' = NoResponse /\ unsent' = <<>> /\ cut' = FALSE
    /\ taken_' = 0 /\ hbFailed' = FALSE /\ hbCall' = HbNoCall

\* Errors after which the rest of the body can still be read.  A chunked body
\* loses the part of a headline that it had read when the rest did not come
\* in time; with compression a peek and a readiness check read it too.
Recoverable(op, err) ==
    \/ err \in {"ok", "eof", "waiting", "einval", "enobufs"}
    \/ err = "etimedout" /\ (hb.kind # "chunked" \/ (op = "peek" /\ ~hb.z.on))

HbReturns(op, arg, r) ==
    /\ hb.kind # "none" /\ ~hbFailed
    /\ hb' = r.body
    /\ taken_' = IF op \in {"read", "getch"} THEN taken_ + Len(r.out) ELSE taken_
    /\ hbFailed' = ~Recoverable(op, r.err)
    /\ hbCall' = [op |-> op, arg |-> arg, err |-> r.err, out |-> r.out,
                  fin |-> r.fin]
    /\ UNCHANGED <<response, unsent, cut>>

HbRead(len) == HbReturns("read", len, HttpReceive(hb, len))

\* avs_stream_getch
HbGetch ==
    LET Got(r) == IF r.err = "ok" /\ r.out = <<>> THEN [r EXCEPT !.err = "eof"] ELSE r
    IN  HbReturns("getch", 1, Got(HttpReceive(hb, 1)))

HbPeek(offset) == HbReturns("peek", offset, HttpPeek(hb, offset))
HbReady == HbReturns("ready", 0, HttpReadReady(hb))

ServerSends(n) ==
    /\ hb.kind # "none" /\ ~hb.nb.socket.closed /\ unsent # <<>>
    /\ Len(hb.nb.socket.incoming) < MaxQueued
    /\ hb' = [hb EXCEPT !.nb.socket.incoming = Append(@, Take(unsent, AVS_MIN(n, Len(unsent))))]
    /\ unsent' = Drop(unsent, AVS_MIN(n, Len(unsent)))
    /\ hbCall' = HbNoCall
    /\ UNCHANGED <<response, cut, taken_, hbFailed>>

ServerCloses ==
    /\ hb.kind # "none" /\ ~hb.nb.socket.closed
    /\ hb' = [hb EXCEPT !.nb.socket.closed = TRUE]
    /\ cut' = (unsent # <<>>)
    /\ unsent' = <<>>
    /\ hbCall' = HbNoCall
    /\ UNCHANGED <<response, taken_, hbFailed>>

HbNext ==
    \/ HbNewResponse \/ HbDone
    \/ \E n \in HbSizes : HbRead(n) \/ HbPeek(n)
    \/ HbGetch \/ HbReady
    \/ \E n \in HbSegments : ServerSends(n)
    \/ ServerCloses

------------------------------------------------------------------------------

\* The bytes that reads deliver are those of the body, each once and in
\* order, wherever segments and chunks begin and end, with every mixture of
\* read sizes, peeks and readiness checks, compressed or not; a peek shows
\* the byte that is read later, and says AVS_EOF past the end only.  (A
\* decoder says it as well for the byte just after its output buffer.)
BodyIntact ==
    /\ hbCall.op = "peek" /\ hbCall.err = "eof" /\ ~response.coded /\ ~cut
          => taken_ + hbCall.arg >= Len(response.body)
    /\ hbCall.op \in {"read", "getch"}
          => hbCall.out = SubSeq(response.body, taken_ - Len(hbCall.out) + 1, taken_)
    /\ hbCall.op = "peek" /\ hbCall.err = "ok"
          => taken_ + hbCall.arg < Len(response.body)
             /\ hbCall.out[1] = response.body[taken_ + hbCall.arg + 1]

\* A read says that the message is finished.  (A read of an identity body
\* that times out says so as well, together with the error.)
Finishes == hbCall.op \in {"read", "getch"} /\ hbCall.fin
            /\ hbCall.err # "etimedout"

\* The end of the message is reported only when all of the body has been
\* read, and never for a body of known length that the server has cut short.
FinishedIsComplete ==
    Finishes /\ response.transfer # "dumb"
        => taken_ = Len(response.body)

\* Once an uncompressed body is finished nothing of the response is left on
\* the connection, which may then be used for the next request: chunk
\* headlines, trailers and the last empty line have all been read.
NothingLeftBehind ==
    Finishes /\ ~response.coded
        => hb.nb.in.data = <<>> /\ hb.nb.socket.incoming = <<>> /\ unsent = <<>>

\* A body with a Content-Length or a chunked one never takes a byte that the
\* response does not have: it does not wait for more once it is complete.
NoReadPastTheEnd ==
    hbCall.err = "etimedout" /\ hbCall.op \in {"read", "getch", "peek"}
        => unsent # <<>> \/ response.transfer = "dumb"

\* What avs_stream.h says of avs_stream_getch: AVS_EOF means that the end has
\* been reached.
EofIsTheEnd ==
    hbCall.op = "getch" /\ hbCall.err = "eof" => taken_ = Len(response.body) \/ cut

\* The reader of an HTTP body gets the body, all of it and nothing else, and
\* the connection is left where the next response begins.
BodiesCorrect ==
    /\ BodyIntact
    /\ FinishedIsComplete
    /\ NothingLeftBehind
    /\ NoReadPastTheEnd

=============================================================================
