----------------------------- MODULE NetbufCalls -----------------------------
(***************************************************************************)
(* An application that uses one buffered net stream of Netbuf, and the     *)
(* peer of its socket.  Bytes are numbered in the order in which they are  *)
(* written on either side.                                                 *)
(***************************************************************************)
EXTENDS Netbuf

CONSTANTS
    InSizes, OutSizes,   \* buffer sizes for avs_stream_netbuf_create
    NbSizes,             \* lengths the application reads and writes
    SendPlans,           \* what happens to the sends of a call
    Segments,            \* lengths of what the peer sends at once
    MaxTraffic           \* bound: bytes in both directions; a second bound
                         \* is that one send fails on a connection

ASSUME NbAssumption ==
    /\ InSizes \subseteq Nat \ {0} /\ OutSizes \subseteq Nat /\ NbSizes \subseteq Nat
    /\ SendPlans \subseteq Seq({SENDS} \cup Nat)
    /\ Segments \subseteq Nat \ {0} /\ MaxTraffic \in Nat

VARIABLES
    nb,         \* buffered_netstream_t, with the socket it owns
    arrived,    \* ghost: bytes sent by the peer
    given,      \* ghost: how many of them were read, or reset away
    accepted,   \* ghost: bytes whose write succeeded, less those reset away
    wrote,      \* number of the last byte written
    sendFailed, \* ghost: a send has failed on this connection
    wanted,     \* the timeout the application has set
    nbCall      \* the last call and its results

nbVars == <<nb, arrived, given, accepted, wrote, sendFailed, wanted, nbCall>>

------------------------------------------------------------------------------
(* The application and the peer                                             *)

NbNoCall == [op |-> "none", err |-> "ok", out |-> <<>>, fin |-> FALSE]

NbInit ==
    /\ \E i \in InSizes, o \in OutSizes : nb = NbCreate(i, o)
    /\ arrived = <<>> /\ given = 0
    /\ accepted = <<>> /\ wrote = 0 /\ sendFailed = FALSE
    /\ wanted = 1
    /\ nbCall = NbNoCall

Returns(op, r) ==
    /\ nb' = r.nb
    /\ nbCall' = [op |-> op, err |-> r.err, out |-> r.out, fin |-> r.fin]

WithPlan(plan) == [nb EXCEPT !.socket.plan = plan]
WithoutPlan(r) == [r EXCEPT !.nb.socket.plan = <<>>]

NbCallWrite(n, plan) ==
    LET data == [i \in 1..n |-> wrote + i]
        r == NbWriteSome(WithPlan(plan), data)
    IN  /\ wrote + Len(arrived) + n <= MaxTraffic
        /\ sendFailed => plan = <<>>
        /\ Returns("write", WithoutPlan(r))
        /\ wrote' = wrote + n
        /\ accepted' = IF r.err = "ok" THEN accepted \o data ELSE accepted
        /\ sendFailed' = (sendFailed \/ r.err # "ok")
        /\ UNCHANGED <<arrived, given, wanted>>

NbCallFinish(plan) ==
    LET r == OutBufferFlush(WithPlan(plan))
    IN  /\ sendFailed => plan = <<>>
        /\ Returns("finish", WithoutPlan(r))
        /\ sendFailed' = (sendFailed \/ r.err # "ok")
        /\ UNCHANGED <<arrived, given, accepted, wrote, wanted>>

NbCallRead(len) ==
    LET r == NbRead(nb, len)
    IN  /\ Returns("read", r)
        /\ given' = given + Len(r.out)
        /\ UNCHANGED <<arrived, accepted, wrote, sendFailed, wanted>>

NbCallPeek(offset) ==
    /\ nb' = NbPeek(nb, offset).nb
    /\ nbCall' = [op |-> "peek", err |-> NbPeek(nb, offset).err, fin |-> FALSE,
                  out |-> <<offset>> \o NbPeek(nb, offset).out]
    /\ UNCHANGED <<arrived, given, accepted, wrote, sendFailed, wanted>>

\* A restore that fails is logged; what the application wants is then not
\* what the socket has, and it sets the timeout again.
NbCallReadReady(fault) ==
    /\ Returns(IF fault = "none" THEN "ready" ELSE "ready_failed",
               NbReadReady(nb, fault))
    /\ wanted' = IF fault = "restore" THEN nb'.socket.timeout ELSE wanted
    /\ UNCHANGED <<arrived, given, accepted, wrote, sendFailed>>

\* avs_stream_netbuf_set_recv_timeout
NbCallSetRecvTimeout(t) ==
    /\ Returns("timeout", NbResult(SetTimeout(nb, t), "ok", <<>>, FALSE))
    /\ wanted' = t
    /\ UNCHANGED <<arrived, given, accepted, wrote, sendFailed>>

\* avs_stream_reset drops what either buffer holds.
NbCallReset ==
    /\ Returns("reset", NbResult(NbResetBuffers(nb), "ok", <<>>, FALSE))
    /\ given' = given + BufferDataSize(nb.in)
    /\ accepted' = Take(accepted, Len(accepted) - BufferDataSize(nb.out))
    /\ UNCHANGED <<arrived, wrote, sendFailed, wanted>>

\* The application moves to a stream with other buffers on the same socket.
NbCallTransfer(i, o) ==
    LET fresh == [NbCreate(i, o) EXCEPT !.socket = nb.socket]
        t == NbTransfer(fresh, nb)
    IN  /\ <<i, o>> # <<nb.in.capacity, nb.out.capacity>>
        /\ Returns("transfer", NbResult(t.to, IF t.done THEN "ok" ELSE "failed",
                                        <<>>, FALSE))
        /\ UNCHANGED <<arrived, given, accepted, wrote, sendFailed, wanted>>

\* buffered_netstream_close does not flush; a new connection follows.
NbCallClose ==
    /\ nb.socket.closed \/ wrote = MaxTraffic
    /\ \E i \in InSizes, o \in OutSizes : nb' = NbCreate(i, o)
    /\ arrived' = <<>> /\ given' = 0 /\ accepted' = <<>> /\ wrote' = 0
    /\ sendFailed' = FALSE /\ wanted' = 1 /\ nbCall' = NbNoCall

PeerSends(n) ==
    LET bytes == [i \in 1..n |-> Len(arrived) + i]
    IN  /\ ~nb.socket.closed
        /\ wrote + Len(arrived) + n <= MaxTraffic
        /\ nb' = [nb EXCEPT !.socket.incoming = Append(@, bytes)]
        /\ arrived' = arrived \o bytes
        /\ nbCall' = NbNoCall
        /\ UNCHANGED <<given, accepted, wrote, sendFailed, wanted>>

PeerCloses ==
    /\ ~nb.socket.closed
    /\ nb' = [nb EXCEPT !.socket.closed = TRUE]
    /\ nbCall' = NbNoCall
    /\ UNCHANGED <<arrived, given, accepted, wrote, sendFailed, wanted>>

NbNext ==
    \/ \E n \in NbSizes : \/ NbCallRead(n) \/ NbCallPeek(n)
                           \/ \E plan \in SendPlans : NbCallWrite(n, plan)
    \/ \E plan \in SendPlans : NbCallFinish(plan)
    \/ \E fault \in {"none", "get", "set", "restore"} : NbCallReadReady(fault)
    \/ NbCallSetRecvTimeout(1)
    \/ NbCallReset \/ NbCallClose
    \/ \E i \in InSizes, o \in OutSizes : NbCallTransfer(i, o)
    \/ \E n \in Segments : PeerSends(n)
    \/ PeerCloses

NbSpec == NbInit /\ [][NbNext]_nbVars

------------------------------------------------------------------------------

\* The bytes of all segments
Flat(segments) ==
    LET upto[k \in 0 .. Len(segments)] ==
            IF k = 0 THEN <<>> ELSE upto[k - 1] \o segments[k]
    IN  upto[Len(segments)]

\* Nothing the peer has sent is lost, repeated or reordered by reads of any
\* size (directly or through the buffer), peeks, readiness checks and
\* transfers, also when a receive times out or setting an option fails.
NbInputIntact ==
    /\ nb.in.data \o Flat(nb.socket.incoming) = Drop(arrived, given)
    /\ nbCall.op = "read" => nbCall.out = SubSeq(arrived, given - Len(nbCall.out) + 1,
                                                given)
    /\ nbCall.op = "peek" /\ nbCall.err = "ok"
         => nbCall.out[2] = arrived[given + nbCall.out[1] + 1]

\* A read that succeeds says the message is finished, and a peek says
\* AVS_EOF, only at the end of what the peer has sent.
NbEndIsTheEnd ==
    \/ nbCall.op = "read" /\ nbCall.err = "ok" /\ nbCall.fin
    \/ nbCall.op = "peek" /\ nbCall.err = "eof"
    => nb.socket.closed /\ nb.socket.incoming = <<>>

\* Until a send fails, what has gone out and what waits in the buffer is
\* exactly what the writes have accepted, in order.  After a failure bytes
\* may go out twice, but an accepted one is never lost without a reset.
NbOutputIntact ==
    LET all == nb.socket.sent \o nb.out.data
    IN  /\ ~sendFailed => all = accepted
        /\ \A i \in DOMAIN accepted : \E j \in DOMAIN all : all[j] = accepted[i]

\* Asking whether a read would block never changes the timeout that later
\* reads use (unless restoring it fails).
NbTimeoutKept == nb.socket.timeout = wanted

\* The answer "not ready" means that nothing was there to be read.
NbReadyIsTrue ==
    nbCall.op = "ready" /\ ~nbCall.fin => Drop(arrived, given) = <<>>

\* The buffered net stream is a faithful connection: data in both directions,
\* its end, the readiness it reports and the timeout of the socket.
NetbufCorrect ==
    /\ NbInputIntact
    /\ NbEndIsTheEnd
    /\ NbOutputIntact
    /\ NbTimeoutKept
    /\ NbReadyIsTrue

=============================================================================
