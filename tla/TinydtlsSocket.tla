--------------------------- MODULE TinydtlsSocket --------------------------
(***************************************************************************)
(* The DTLS socket over tinyDTLS, src/src/net/tinydtls/avs_tinydtls.c: a   *)
(* pre-shared key, one library context per socket, a handshake driven one  *)
(* datagram at a time.  A use of a context or an identity that is NULL is  *)
(* the outcome "crash".                                                    *)
(***************************************************************************)
EXTENDS TlsCommon, AvsBuffer

CONSTANTS HANDSHAKE_EXCHANGES,  \* 64 in the code
          TdKeys,               \* configurations of the pre-shared key
          TdSizes, TdDatagrams, TdMaxWire

VARIABLES td,       \* the world; td.sock.exists tells whether it was created
          tdWire,   \* the datagrams in flight to the socket
          tdCall    \* the last call and what it returned

tdVars == <<td, tdWire, tdCall>>

NoPsk == [psk |-> <<>>, identity |-> <<>>]

\* A datagram of n bytes: application data, a step of the handshake (on
\* "done" the client needs its key, "finished" completes it), an alert that
\* closes the connection, or something tinyDTLS refuses.
TdMessage(kind, n) == [kind |-> kind, size |-> n]
HandshakeKinds == {"step", "done", "finished"}

ASSUME TdAssumption ==
    /\ HANDSHAKE_EXCHANGES \in Nat /\ TdSizes \subseteq Nat
    /\ \A peer \in TdDatagrams : Len(peer) \in Nat

UNSET == -1
RECORD_OVERHEAD == 1
PSK_ROOM == 2          \* what tinyDTLS provides for an identity or a key

TdSock(ctx, psk) ==
    [backend |-> NULLSOCK, exists |-> TRUE, ctx |-> ctx, connected |-> FALSE,
     psk |-> psk]
TdNoSock == [TdSock(FALSE, NoPsk) EXCEPT !.exists = FALSE]

------------------------------------------------------------------------------
(* Operations                                                               *)

\* extra: whether additional_configuration_clb(), if any, succeeds.
TdConfigureSsl(mode, key, blocks, extra) ==
    LET copied == PskCopy(NoPsk, key, blocks)
    IN  IF mode = "certificate" THEN [psk |-> NoPsk, err |-> "enotsup"]
        ELSE IF copied.err = "ok" /\ ~extra THEN [psk |-> copied.psk, err |-> "epipe"]
        ELSE copied

\* create_ssl_socket() with initialize_ssl_socket(); on an error the socket
\* is cleaned up again.
InitializeTinydtls(udp, context, configured) ==
    IF ~udp THEN [sock |-> TdNoSock, err |-> "enotsup"]
    ELSE IF ~context THEN [sock |-> TdNoSock, err |-> "enomem"]
    ELSE IF configured.err # "ok" THEN [sock |-> TdNoSock, err |-> configured.err]
    ELSE [sock |-> TdSock(TRUE, configured.psk), err |-> "ok"]

TdStarted(w) == w.sock.ctx /\ w.sock.connected

TdCloseRaw(w) == CloseBackend([w EXCEPT !.sock.ctx = FALSE, !.sock.connected = FALSE])

\* The PSK handlers the handshake calls back; they assert an identity.
GetPskInfo(psk, room) ==
    IF psk.identity = <<>> THEN "crash"
    ELSE IF room < Len(psk.identity) \/ room < Len(psk.psk) THEN "eproto"
    ELSE "ok"

\* What dtls_handle_message() makes of a datagram during the handshake: the
\* error the loop ends with, or "" when it goes on.
DtlsHandleMessage(psk, m) ==
    CASE m.kind \notin HandshakeKinds -> "eproto"
      [] m.kind = "done" /\ GetPskInfo(psk, PSK_ROOM) # "ok" -> GetPskInfo(psk, PSK_ROOM)
      [] m.kind = "finished" -> "ok"
      [] OTHER -> ""

\* peer: the datagrams the server answers with.  The loop takes one after
\* another until one ends it, the server is silent or too many have come.
SslHandshake(w, peer, remaining) ==
    LET Ends(i) == DtlsHandleMessage(w.sock.psk, peer[i])
        ends == {i \in 1 .. AVS_MIN(Len(peer), remaining) : Ends(i) # ""}
        err == Ends(CHOOSE i \in ends : \A j \in ends : i <= j)
    IN  IF ends = {} THEN TlsResult(w, "etimedout")
        ELSE TlsResult([w EXCEPT !.sock.connected = @ \/ err = "ok"], err)

\* sent: whether the first flight of dtls_connect() could be sent.  It returns
\* 0 only for a peer the context has already; a start that failed took the
\* context away, and tinyDTLS forgets a peer with its alert.
TdStartSslLenient(w, sent, peer) ==
    LET h == SslHandshake(w, peer, HANDSHAKE_EXCHANGES)
    IN  IF ~w.sock.ctx THEN TlsResult(w, "crash")
        ELSE IF h.err = "etimedout" THEN TlsResult(h.w, "ok") ELSE h

TdStartSsl(w, sent, peer) ==
    IF ~w.sock.ctx THEN TlsResult(w, "crash")
    ELSE IF ~sent THEN TlsResult(w, "ebio")
    ELSE SslHandshake(w, peer, HANDSHAKE_EXCHANGES)

\* The datagram is received into the caller's buffer and decrypted there;
\* the number of bytes is set only if it carried data.
TdReceiveSsl(connected, wire, len) ==
    LET m == Head(wire)
        Is(err, out) == [err |-> err, out |-> out, wire |-> Tail(wire),
                         connected |-> connected]
    IN  IF wire = <<>>
        THEN [err |-> "etimedout", out |-> UNSET, wire |-> wire,
              connected |-> connected]
        ELSE IF m.size > len THEN Is("emsgsize", UNSET)
        ELSE IF m.kind = "refused" THEN Is("eproto", UNSET)
        ELSE IF m.kind = "data" THEN Is("ok", m.size - RECORD_OVERHEAD)
        ELSE [Is("ok", UNSET) EXCEPT !.connected = m.kind # "alert"]

------------------------------------------------------------------------------
(* The socket at work                                                       *)

TdNoCall == [op |-> "none", err |-> "ok"]

TdInit ==
    /\ td = [sock |-> TdNoSock, backends |-> [b \in 1 .. 2 |-> FreeBackend]]
    /\ tdWire = <<>> /\ tdCall = TdNoCall

TdCreate(udp, context, mode, key, blocks, extra) ==
    LET r == InitializeTinydtls(udp, context, TdConfigureSsl(mode, key, blocks, extra))
    IN  /\ ~td.sock.exists
        /\ td' = [td EXCEPT !.sock = r.sock]
        /\ tdCall' = [op |-> "create", err |-> r.err, key |-> key]
        /\ UNCHANGED tdWire

\* The application has given up on a program that crashed.
Running == tdCall.err # "crash"

TdConnect(reachable, sent, peer) ==
    LET Start(w) == TdStartSsl(w, sent, peer)
        r == ConnectSsl(td, reachable, TdStarted, Start, TdCloseRaw)
    IN  /\ Running /\ td.sock.exists
        /\ td' = r.w /\ tdWire' = <<>>
        /\ tdCall' = [op |-> "connect", err |-> r.err,
                      finished |-> \E i \in 1 .. AVS_MIN(Len(peer), HANDSHAKE_EXCHANGES) :
                                      peer[i].kind = "finished"]

TdDecorate(b, peer) ==
    LET Start(w) == TdStartSsl(w, TRUE, peer)
        r == DecorateSsl(td, b, TdStarted, Start, TdCloseRaw)
    IN  /\ Running /\ td.sock.exists /\ td.backends[b].owner = "app"
        /\ td' = r.w /\ tdWire' = <<>>
        /\ tdCall' = [op |-> "decorate", err |-> r.err]

TdAppSocket(state) ==
    /\ Running
    /\ \E b \in Unallocated(td) :
           td' = [td EXCEPT !.backends[b] = NewBackend("app", state)]
    /\ \A b \in DOMAIN td.backends : td.backends[b].owner # "app"
    /\ tdCall' = TdNoCall
    /\ UNCHANGED tdWire

TdClose ==
    /\ Running /\ td.sock.exists
    /\ td' = TdCloseRaw(td) /\ tdCall' = TdNoCall /\ tdWire' = <<>>

TdCleanup ==
    /\ td.sock.exists
    /\ td' = [CleanupBackend(TdCloseRaw(td)) EXCEPT !.sock = TdNoSock]
    /\ tdCall' = TdNoCall /\ tdWire' = <<>>

TdPeerSends(m) ==
    /\ TdStarted(td) /\ Len(tdWire) < TdMaxWire
    /\ tdWire' = Append(tdWire, m) /\ tdCall' = TdNoCall
    /\ UNCHANGED td

TdReceive(len) ==
    LET r == TdReceiveSsl(td.sock.connected, tdWire, len)
    IN  /\ TdStarted(td)
        /\ tdWire' = r.wire
        /\ tdCall' = [op |-> "receive", err |-> r.err, out |-> r.out, len |-> len,
                      wire |-> tdWire]
        /\ td' = [td EXCEPT !.sock.connected = r.connected]

TdNext ==
    \/ \E udp, context, extra \in BOOLEAN, mode \in {"psk", "certificate"},
          key \in TdKeys, blocks \in 0 .. 2 :
           TdCreate(udp, context, mode, key, blocks, extra)
    \/ \E reachable, sent \in BOOLEAN, peer \in TdDatagrams :
           TdConnect(reachable, sent, peer)
    \/ \E b \in DOMAIN td.backends, peer \in TdDatagrams : TdDecorate(b, peer)
    \/ \E state \in {"closed", "connected"} : TdAppSocket(state)
    \/ TdClose
    \/ TdCleanup
    \/ \E kind \in {"data", "step", "alert", "refused"}, n \in TdSizes :
           TdPeerSends(TdMessage(kind, n))
    \/ \E len \in TdSizes : TdReceive(len)

TdSpec == TdInit /\ [][TdNext]_tdVars

------------------------------------------------------------------------------
(* Properties                                                               *)

\* Every backend has one owner, and a socket that exists has its whole key:
\* a failed creation leaves neither (initialize_ssl_socket, psk_copy).
TdNothingHalfMade ==
    /\ BackendsHaveOneOwner(td)
    /\ td.sock.exists => td.sock.psk.psk # <<>>
    /\ tdCall.op = "create" /\ tdCall.err = "ok" => td.sock.psk = tdCall.key

\* A connect that succeeds has completed the handshake, within the limit on
\* exchanges, and the socket then counts as connected (ssl_handshake).
TdConnectedMeansFinished ==
    tdCall.op = "connect" /\ tdCall.err = "ok" => tdCall.finished /\ TdStarted(td)

\* A receive takes exactly one datagram, and reports as read at most what the
\* buffer holds (receive_ssl, dtls_read_handler).
TdReceivesOneDatagram ==
    tdCall.op = "receive" =>
        /\ tdCall.wire # <<>> => tdWire = Tail(tdCall.wire)
        /\ tdCall.out # UNSET =>
               tdCall.out + RECORD_OVERHEAD = Head(tdCall.wire).size
        /\ tdCall.out <= tdCall.len

\* avs_socket.h about avs_net_socket_close: the socket may later be reused by
\* calling avs_net_socket_connect.
TdMayBeReused ==
    tdCall.err = "crash" => td.sock.psk.identity = <<>>

\* A socket over tinyDTLS is whole or not there, connected only after a
\* handshake, and receives datagram by datagram.
TinydtlsCorrect ==
    /\ TdNothingHalfMade
    /\ TdConnectedMeansFinished
    /\ TdReceivesOneDatagram

==============================================================================
