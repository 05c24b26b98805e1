----------------------------- MODULE TlsCommon -----------------------------
(***************************************************************************)
(* The part of a (D)TLS socket that every backend shares,                  *)
(* src/src/net/avs_ssl_common.h: how it owns the socket below it, how it   *)
(* connects or takes over a connected one, its options.  A world w is the  *)
(* TLS socket w.sock with the backend sockets w.backends; start_ssl and    *)
(* close_ssl_raw are the operators a TLS library's socket passes in.       *)
(***************************************************************************)
EXTENDS Integers, Sequences

NULLSOCK == 0

\* A backend socket: its state, who has to clean it up, its receive timeout.
FreeBackend == [state |-> "free", owner |-> "none", timeout |-> 0]
NewBackend(owner, state) == [state |-> state, owner |-> owner, timeout |-> 1]

TlsResult(w, err) == [w |-> w, err |-> err]

Unallocated(w) == {b \in DOMAIN w.backends : w.backends[b].state = "free"}

------------------------------------------------------------------------------
(* Owning a backend                                                         *)

EnsureHaveBackendSocket(w) ==
    LET b == CHOOSE i \in Unallocated(w) : \A j \in Unallocated(w) : i <= j
    IN  IF w.sock.backend # NULLSOCK THEN TlsResult(w, "ok")
        ELSE IF Unallocated(w) = {} THEN TlsResult(w, "enomem")
        ELSE TlsResult([w EXCEPT !.sock.backend = b,
                                 !.backends[b] = NewBackend("ssl", "closed")],
                       "ok")

\* avs_net_socket_cleanup() of the backend the socket holds.
CleanupBackend(w) ==
    IF w.sock.backend = NULLSOCK THEN w
    ELSE [w EXCEPT !.backends[w.sock.backend] = FreeBackend,
                   !.sock.backend = NULLSOCK]

CloseBackend(w) ==
    IF w.sock.backend = NULLSOCK THEN w
    ELSE [w EXCEPT !.backends[w.sock.backend].state = "closed"]

BindSsl(w) ==
    LET e == EnsureHaveBackendSocket(w)
        b == e.w.sock.backend
    IN  IF e.err # "ok" THEN e
        ELSE IF e.w.backends[b].state # "closed" THEN TlsResult(e.w, "eisconn")
        ELSE TlsResult([e.w EXCEPT !.backends[b].state = "bound"], "ok")

------------------------------------------------------------------------------
(* Connecting                                                               *)

\* reachable says whether avs_net_socket_connect() on the backend succeeds.
ConnectSsl(w, reachable, IsSslStarted(_), StartSsl(_), CloseSslRaw(_)) ==
    LET e == EnsureHaveBackendSocket(w)
        b == e.w.sock.backend
        connected == [e.w EXCEPT !.backends[b].state = "connected"]
        s == StartSsl(connected)
    IN  IF IsSslStarted(w) THEN TlsResult(w, "eisconn")
        ELSE IF e.err # "ok" THEN TlsResult(e.w, "ebadf")
        ELSE IF e.w.backends[b].state \notin {"closed", "bound"} \/ ~reachable
        THEN TlsResult(e.w, "econnrefused")
        ELSE IF s.err # "ok" THEN TlsResult(CloseSslRaw(s.w), s.err)
        ELSE s

\* Takes over the backend b of the caller.  When that fails the caller keeps
\* b, in the state it was in.
DecorateSsl(w, b, IsSslStarted(_), StartSsl(_), CloseSslRaw(_)) ==
    LET taken == [CleanupBackend(w) EXCEPT !.sock.backend = b,
                                           !.backends[b].owner = "ssl"]
        s == IF w.backends[b].state \in {"connected", "accepted"}
             THEN StartSsl(taken) ELSE TlsResult(taken, "ok")
        dropped == [s.w EXCEPT !.sock.backend = NULLSOCK,
                               !.backends[b].owner = "app"]
    IN  IF IsSslStarted(w) THEN TlsResult(w, "eisconn")
        ELSE IF s.err # "ok" THEN TlsResult(CloseSslRaw(dropped), s.err)
        ELSE s

------------------------------------------------------------------------------
(* Options                                                                  *)

StateOpt(w) == IF w.sock.backend = NULLSOCK THEN "closed"
               ELSE w.backends[w.sock.backend].state

\* The largest payload of one datagram: header bytes are added to it, and at
\* least one byte of padding up to a whole block.
InnerMtu(mtu, header, padding) ==
    LET room == mtu - header
        payload == IF padding > 0 THEN (room \div padding) * padding - 1
                   ELSE room
    IN  IF mtu <= 0 THEN 0 ELSE IF payload < 0 THEN -1 ELSE payload

SetDaneTlsaArray(w, records, memory) ==
    IF memory THEN TlsResult([w EXCEPT !.sock.tlsa = records], "ok")
    ELSE TlsResult(w, "enomem")

\* A copy of a pre-shared key and its identity, made of two allocations of
\* which the first `blocks` succeed; the old key survives every failure.
PskCopy(dst, src, blocks) ==
    IF src.psk = <<>> THEN [psk |-> dst, err |-> "einval"]
    ELSE IF blocks < 1 \/ (src.identity # <<>> /\ blocks < 2)
    THEN [psk |-> dst, err |-> "enomem"]
    ELSE [psk |-> src, err |-> "ok"]

------------------------------------------------------------------------------
(* What the socket promises                                                 *)

\* How many bytes a datagram with n bytes of payload takes on the wire.
WireSize(n, header, padding) ==
    header + (IF padding > 0 THEN (n \div padding + 1) * padding ELSE n)

\* AVS_NET_SOCKET_OPT_INNER_MTU is the largest payload that fits, and is
\* refused when nothing fits.
InnerMtuIsLargest(n, mtu, header, padding) ==
    mtu > 0 => IF n < 0 THEN WireSize(0, header, padding) > mtu
               ELSE /\ WireSize(n, header, padding) <= mtu
                    /\ WireSize(n + 1, header, padding) > mtu

\* Every backend of the world has one owner that can clean it up: the TLS
\* socket for the one it points to, the application for its own.
BackendsHaveOneOwner(w) ==
    \A b \in DOMAIN w.backends :
        /\ w.backends[b].owner = "ssl" <=> w.sock.backend = b
        /\ w.backends[b].owner = "none" <=> w.backends[b].state = "free"
==============================================================================
