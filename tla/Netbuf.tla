------------------------------- MODULE Netbuf -------------------------------
(***************************************************************************)
(* The buffered net stream of src/src/stream/net/avs_netbuf.c over a       *)
(* socket.  The operators return the stream after a call with the results  *)
(* of the call.  A blocking receive finds what has arrived, the end of the *)
(* peer's data, or its timeout.                                            *)
(***************************************************************************)
EXTENDS AvsBuffer

\* Entries of a plan for avs_net_socket_send: it succeeds, or k bytes go out
\* and then it fails.
SENDS == -1

------------------------------------------------------------------------------
(* The socket below, as the stream uses it                                  *)

Socket == [incoming |-> <<>>, closed |-> FALSE, timeout |-> 1,
           sent |-> <<>>, plan |-> <<>>]

SocketSend(k, data) ==
    LET entry == IF k.plan = <<>> THEN SENDS ELSE Head(k.plan)
        rest == [k EXCEPT !.plan = IF @ = <<>> THEN @ ELSE Tail(@)]
        n == IF entry = SENDS THEN Len(data) ELSE AVS_MIN(entry, Len(data))
    IN  [socket |-> [rest EXCEPT !.sent = @ \o Take(data, n)],
         err |-> IF entry = SENDS THEN "ok" ELSE "eio"]

SocketReceive(k, len) ==
    LET seg == Head(k.incoming)
        n == AVS_MIN(len, Len(seg))
        rest == IF n = Len(seg) THEN Tail(k.incoming)
                ELSE <<Drop(seg, n)>> \o Tail(k.incoming)
    IN  IF k.incoming # <<>>
        THEN [socket |-> [k EXCEPT !.incoming = rest], err |-> "ok",
              out |-> Take(seg, n)]
        ELSE [socket |-> k, err |-> IF k.closed THEN "ok" ELSE "etimedout",
              out |-> <<>>]

------------------------------------------------------------------------------
(* Methods                                                                  *)

NbResult(s, err, out, fin) ==
    [nb |-> s, err |-> err, out |-> out, fin |-> fin]

NbCreate(in_size, out_size) ==
    [in |-> BufferCreate(in_size), out |-> BufferCreate(out_size),
     socket |-> Socket]

\* What a failed send has already delivered stays in the buffer.
OutBufferFlush(s) ==
    LET f == SocketSend(s.socket, s.out.data)
    IN  NbResult([s EXCEPT !.socket = f.socket,
                           !.out = IF f.err = "ok" THEN BufferReset(@) ELSE @],
                 f.err, <<>>, FALSE)

NbWriteSome(s, data) ==
    LET Flushed(f) ==
            LET w == SocketSend(f.nb.socket, data)
            IN  IF f.err # "ok" THEN f
                ELSE NbResult([f.nb EXCEPT !.socket = w.socket], w.err, <<>>, FALSE)
    IN  IF Len(data) < BufferSpaceLeft(s.out)
        THEN NbResult([s EXCEPT !.out = BufferAppendBytes(@, data)], "ok",
                      <<>>, FALSE)
        ELSE Flushed(OutBufferFlush(s))

ReturnDataFromBuffer(s, len) ==
    LET n == AVS_MIN(BufferDataSize(s.in), len)
    IN  NbResult([s EXCEPT !.in = BufferConsumeBytes(@, n)], "ok",
                 Take(s.in.data, n), FALSE)

ReadDataToUserBuffer(s, len) ==
    LET r == SocketReceive(s.socket, len)
    IN  NbResult([s EXCEPT !.socket = r.socket], r.err, r.out,
                 r.err # "ok" \/ r.out = <<>>)

InBufferReadSome(s) ==
    LET r == SocketReceive(s.socket, BufferSpaceLeft(s.in))
    IN  IF BufferSpaceLeft(s.in) = 0 THEN NbResult(s, "enobufs", <<>>, FALSE)
        ELSE NbResult([s EXCEPT !.socket = r.socket,
                                !.in = BufferRawInsert(@, r.out)],
                      r.err, r.out, FALSE)

ReadDataThroughInternalBuffer(s, len) ==
    LET Received(r) ==
            IF r.err # "ok" THEN NbResult(r.nb, r.err, <<>>, FALSE)
            ELSE IF BufferDataSize(r.nb.in) > 0 THEN ReturnDataFromBuffer(r.nb, len)
            ELSE NbResult(r.nb, "ok", <<>>, TRUE)
    IN  Received(InBufferReadSome(s))

ReadNewData(s, len) ==
    IF len >= s.in.capacity THEN ReadDataToUserBuffer(s, len)
    ELSE ReadDataThroughInternalBuffer(s, len)

NbRead(s, len) ==
    IF BufferDataSize(s.in) <= 0 THEN ReadNewData(s, len)
    ELSE ReturnDataFromBuffer(s, len)

\* try_recv_nonblock; fault says which of its three option calls fails.
SetTimeout(s, t) == [s EXCEPT !.socket.timeout = t]

TryRecvNonblockUnrestored(s, fault) ==
    LET r == InBufferReadSome(SetTimeout(s, 0))
    IN  IF fault \in {"get", "set"} THEN NbResult(s, "einval", <<>>, FALSE)
        ELSE NbResult(r.nb, "ok", <<>>, FALSE)

TryRecvNonblock(s, fault) ==
    LET Received(r) ==
            LET err == IF r.err = "etimedout" THEN "ok" ELSE r.err
            IN  IF fault = "restore"
                THEN NbResult(r.nb, IF err = "ok" THEN "einval" ELSE err, <<>>, FALSE)
                ELSE NbResult(SetTimeout(r.nb, s.socket.timeout), err, <<>>, FALSE)
    IN  IF fault \in {"get", "set"} THEN NbResult(s, "einval", <<>>, FALSE)
        ELSE Received(InBufferReadSome(SetTimeout(s, 0)))

\* buffered_netstream_nonblock_read_ready; the answer is in fin.
NbReadReady(s, fault) ==
    LET Tried(r) == NbResult(r.nb, "ok", <<>>,
                             r.err = "ok" /\ BufferDataSize(r.nb.in) > 0)
    IN  IF BufferDataSize(s.in) > 0 THEN NbResult(s, "ok", <<>>, TRUE)
        ELSE Tried(TryRecvNonblock(s, fault))

\* The results of up to n receives into the input buffer, one after another.
Fills(s, n) ==
    LET fill[k \in 0 .. n] ==
            IF k = 0 THEN NbResult(s, "ok", <<>>, FALSE) ELSE InBufferReadSome(fill[k - 1].nb)
    IN  fill

\* It receives until the byte is there, an error occurs or nothing comes;
\* each receive before brought a byte at least.  Ended is given all receives
\* and answers from the first that ends the loop.
NbPeek(s, offset) ==
    LET Found(r) == offset < BufferDataSize(r.nb.in)
        Brought(r) == r.err = "ok" /\ r.out # <<>>
        ends(fill) == {k \in 0 .. offset + 1 : Found(fill[k]) \/ (k # 0 /\ ~Brought(fill[k]))}
        Least(ks) == CHOOSE k \in ks : \A j \in ks : k <= j
        Answer(r, received) ==
            IF received /\ r.err # "ok" THEN r
            ELSE IF received /\ r.out = <<>> THEN NbResult(r.nb, "eof", <<>>, FALSE)
            ELSE NbResult(r.nb, "ok", <<r.nb.in.data[offset + 1]>>, FALSE)
        AtEnd(fill, last) == Answer(fill[last], last # 0)
        Ended(fill) == AtEnd(fill, Least(ends(fill)))
    IN  IF offset >= s.in.capacity THEN NbResult(s, "einval", <<>>, FALSE)
        ELSE Ended(Fills(s, offset + 1))

NbResetBuffers(s) == [s EXCEPT !.in = BufferReset(@), !.out = BufferReset(@)]

\* avs_stream_netbuf_transfer: all of the buffers, or nothing.
TransferUnchecked(d, s) ==
    [to |-> [d EXCEPT !.out = BufferAppendBytes(@, s.out.data),
                      !.in = BufferAppendBytes(@, s.in.data)],
     done |-> TRUE]

NbTransfer(d, s) ==
    IF \/ BufferSpaceLeft(d.out) < BufferDataSize(s.out)
       \/ BufferSpaceLeft(d.in) < BufferDataSize(s.in)
    THEN [to |-> s, done |-> FALSE]
    ELSE TransferUnchecked(d, s)

=============================================================================
