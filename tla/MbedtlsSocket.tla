--------------------------- MODULE MbedtlsSocket ---------------------------
(***************************************************************************)
(* The (D)TLS socket over Mbed TLS, src/src/net/mbedtls/.  The handshake   *)
(* itself, the building of a certificate chain and the records are the     *)
(* library's (external); what is modelled is what avs_mbedtls_socket.c     *)
(* does around them: verification with and without DANE, session           *)
(* resumption from the user's buffer, whole datagrams out of a byte        *)
(* stream, and the backend socket underneath.                              *)
(***************************************************************************)
EXTENDS TlsCommon, FiniteSets, AvsBuffer

CONSTANTS Issuer,       \* certificate -> certificate that signed it
          MbConfigs,    \* configurations of the socket, each with the sets
                        \* of TLSA records, the peers, the states of the
                        \* application's own sockets and the bounds on
                        \* sessions and bytes it is explored with
          MbSizes,      \* buffer sizes of receive
          MbRecords,    \* sizes of the records a peer sends
          MbMtus,       \* inner MTUs of the backend
          MbHeaders,    \* bytes a cipher adds to every datagram
          MbPaddings,   \* block sizes of ciphers, 0 for a stream cipher
          SendResults   \* results mbedtls_ssl_write() gives one after another

VARIABLES mb,        \* the world: the socket, its backends
          config,    \* the configuration the socket was created with
          sessions,  \* the sessions negotiated so far
          wire,      \* the records in flight to the socket
          mbCall,    \* the last call and what it returned
          refused    \* whether verification has failed on this socket before

mbVars == <<mb, config, sessions, wire, mbCall, refused>>

UNPARSABLE == 0
NOSESSION == 0

\* Certificate usages of a TLSA record.
SERVICE_CERTIFICATE_CONSTRAINT == 1
TRUST_ANCHOR_ASSERTION == 2
DOMAIN_ISSUED_CERTIFICATE == 3
TaOrEe == {TRUST_ANCHOR_ASSERTION, DOMAIN_ISSUED_CERTIFICATE}
EeUsages == {SERVICE_CERTIFICATE_CONSTRAINT, DOMAIN_ISSUED_CERTIFICATE}

------------------------------------------------------------------------------
(* The user's session buffer.  A cell is a byte or a few of them: the       *)
(* header carries the magic and the length, every cell of a stored session  *)
(* its number, and 0 is zeroed memory.                                      *)

HEADER(n) == 100 + n
IsHeader(cell) == cell >= 100
Zeroes(n) == [i \in 1 .. n |-> 0]

SessionCells(id, n) == <<HEADER(n)>> \o [i \in 1 .. n |-> id]

\* Mbed TLS before 2.19: written through an output buffer, then zeroed.
SessionSaveOwnFormat(buf, id, n) ==
    LET cells == SessionCells(id, n)
    IN  IF Len(cells) > Len(buf) THEN Zeroes(Len(buf))
        ELSE cells \o Zeroes(Len(buf) - Len(cells))

\* Mbed TLS 2.19 and later: the library writes behind the place of the header,
\* which is filled in afterwards.  When the session does not fit, it has
\* written a first part of it, of any length, and the old header stays.
SessionSaveNative(buf, id, n, written) ==
    LET cells == SessionCells(id, n)
        part == SubSeq(cells, 2, AVS_MIN(written + 1, Len(buf)))
    IN  IF Len(cells) > Len(buf)
        THEN Take(buf, 1) \o part \o Drop(buf, Len(part) + 1)
        ELSE cells \o Drop(buf, Len(cells))

SessionSave(buf, id, n, written) ==
    IF config.native THEN SessionSaveNative(buf, id, n, written)
    ELSE SessionSaveOwnFormat(buf, id, n)

\* The session a buffer restores to, or none.  external: the library refuses a
\* body that is not one whole session.
SessionRestore(buf) ==
    LET n == buf[1] - HEADER(0)
        body == SubSeq(buf, 2, n + 1)
    IN  IF \A i \in 1 .. Len(buf) : buf[i] = 0 THEN NOSESSION
        ELSE IF ~IsHeader(buf[1]) \/ n + 1 > Len(buf) THEN NOSESSION
        ELSE IF \E id \in DOMAIN sessions :
                    /\ sessions[id].size = n
                    /\ body = [i \in 1 .. n |-> id]
        THEN body[1] ELSE NOSESSION

------------------------------------------------------------------------------
(* Verification of the peer's certificates                                  *)

\* external: the library walks up from the peer's own certificate until it
\* meets a trusted issuer.  It reports the trusted root as part of the chain.
VerChain(chain, store) ==
    LET anchored == {i \in 1 .. Len(chain) : Issuer[chain[i]] \in store}
        i == CHOOSE k \in anchored : \A l \in anchored : k <= l
        root == Issuer[chain[i]]
    IN  IF anchored = {} THEN [certs |-> chain, trusted |-> FALSE]
        ELSE [certs |-> Take(chain, i) \o (IF root = chain[i] THEN <<>>
                                           ELSE <<root>>),
              trusted |-> TRUE]

CertFlags(ver, expired, i) ==
    (IF i = Len(ver.certs) /\ ~ver.trusted THEN {"not_trusted"} ELSE {})
        \union (IF ver.certs[i] \in expired THEN {"expired"} ELSE {})

Opportunistic(c) == c.dane /\ ~c.validate

\* The trust store a connection verifies against.
TrustStore(c, tlsa) ==
    (IF c.validate THEN c.store ELSE {})
        \union (IF c.dane
                THEN {r.cert : r \in {t \in tlsa : /\ t.usage = TRUST_ANCHOR_ASSERTION
                                                   /\ t.full}}
                ELSE {})

UpdateCertConfiguration(c, tlsa) ==
    IF UNPARSABLE \in TrustStore(c, tlsa) THEN "eproto" ELSE "ok"

HasDaneTaOrEeEntries(tlsa) == \E t \in tlsa : t.usage \in TaOrEe

DaneMatch(crt, entry) == entry.cert = crt

ResetDaneVerifyState(d) ==
    [d EXCEPT !.mask = {}, !.flags = {}, !.result = FALSE]

UpdateDaneVerifyState(d, tlsa, crt, is_ee, flags) ==
    [d EXCEPT !.flags = @ \union flags,
              !.mask = @ \union
                  {t.usage : t \in {u \in tlsa :
                                      /\ (u.usage \in EeUsages) = is_ee
                                      /\ DaneMatch(crt, u)}}]

PerformCertVerification(c, d, tlsa) ==
    LET valid_matches == IF Opportunistic(c) THEN TaOrEe ELSE 0 .. 3
    IN  IF d.flags = {"not_trusted"} /\ d.mask \cap TaOrEe # {} THEN {}
        ELSE IF d.flags = {} /\ tlsa # {} /\ d.mask \cap valid_matches = {}
        THEN {"not_trusted"}
        ELSE d.flags

VerifyCertCbStale(c, d, tlsa, crt, index, flags) ==
    LET updated == UpdateDaneVerifyState([d EXCEPT !.last = index], tlsa, crt,
                                         index = 0, flags)
        failed == index = 0 /\ PerformCertVerification(c, updated, tlsa) # {}
    IN  IF Opportunistic(c) /\ ~HasDaneTaOrEeEntries(tlsa)
        THEN [d |-> d, failed |-> FALSE]
        ELSE [d |-> IF failed THEN [updated EXCEPT !.result = TRUE] ELSE updated,
              failed |-> failed]

VerifyCertCb(c, d, tlsa, crt, index, flags) ==
    LET begun == IF index # d.last - 1 THEN ResetDaneVerifyState(d) ELSE d
        updated == UpdateDaneVerifyState([begun EXCEPT !.last = index], tlsa,
                                         crt, index = 0, flags)
        failed == index = 0 /\ PerformCertVerification(c, updated, tlsa) # {}
    IN  IF Opportunistic(c) /\ ~HasDaneTaOrEeEntries(tlsa)
        THEN [d |-> d, failed |-> FALSE]
        ELSE [d |-> IF failed THEN [updated EXCEPT !.result = TRUE] ELSE updated,
              failed |-> failed]

\* The library calls back for the topmost certificate first.
RECURSIVE VerifyFrom(_, _, _, _, _, _)
VerifyFrom(c, d, tlsa, ver, expired, index) ==
    LET cb == VerifyCertCb(c, d, tlsa, ver.certs[index + 1], index,
                           CertFlags(ver, expired, index + 1))
    IN  IF cb.failed \/ index = 0 THEN cb
        ELSE VerifyFrom(c, cb.d, tlsa, ver, expired, index - 1)

\* MBEDTLS_SSL_VERIFY_NONE, _REQUIRED, and _OPTIONAL with the callback.
VerifyPeer(c, d, tlsa, peer) ==
    LET ver == VerChain(peer.chain, TrustStore(c, tlsa))
    IN  IF c.dane
        THEN VerifyFrom(c, d, tlsa, ver, peer.expired, Len(ver.certs) - 1)
        ELSE [d |-> d,
              failed |-> c.validate /\ \E i \in DOMAIN ver.certs :
                                          CertFlags(ver, peer.expired, i) # {}]

WrapHandshakeResult(c, d, failed) == failed \/ (c.dane /\ d.result)

------------------------------------------------------------------------------
(* The handshake                                                            *)

IsSslStarted(w) == w.sock.valid

CloseSslRaw(w) == [CloseBackend(w) EXCEPT !.sock.valid = FALSE,
                                          !.sock.avail = <<>>]

\* A receive of the library through the backend: with its own timeout if it
\* has one, and the backend's put back afterwards.
AvsBioRecv(w, timeout_ms) ==
    LET b == w.sock.backend
        orig == w.backends[b].timeout
        set == IF timeout_ms # 0
               THEN [w EXCEPT !.backends[b].timeout = timeout_ms] ELSE w
    IN  [set EXCEPT !.backends[b].timeout = orig]

NewSession == Len(sessions) + 1

\* flags.session_fresh after a handshake: set before it from whether a session
\* is offered, and again by fake_session_cache_set when a new one was made.
SessionFresh(restored, resumed) == ~resumed

\* Which side of the handshake the socket takes.
UpdateSslEndpointConfig(w) ==
    CASE StateOpt(w) = "connected" -> "client"
      [] StateOpt(w) = "accepted" -> "server"
      [] OTHER -> "einval"

\* peer is what the other side does: answers or not, resumes or presents a
\* chain of certificates, how large the session gets, and how much of one that
\* does not fit the buffer the library writes.
StartSsl(w, peer) ==
    LET s == w.sock
        endpoint == UpdateSslEndpointConfig(w)
        buffered == Len(s.buffer) > 0 /\ endpoint = "client"
        restored == IF buffered THEN SessionRestore(s.buffer) ELSE NOSESSION
        resumed == restored # NOSESSION /\ peer.resumes
        v == IF resumed THEN [d |-> s.dane, failed |-> FALSE]
             ELSE VerifyPeer(config, s.dane, s.tlsa, peer)
        begun == [AvsBioRecv(w, IF config.dgram THEN 2 ELSE 0)
                     EXCEPT !.sock.fresh = restored = NOSESSION]
        verified == [begun EXCEPT !.sock.dane = v.d]
        done == [verified EXCEPT
                   !.sock.valid = TRUE, !.sock.fresh = SessionFresh(restored, resumed),
                   !.sock.session = IF resumed THEN restored ELSE NewSession,
                   !.sock.buffer = IF buffered /\ ~resumed
                                   THEN SessionSave(@, NewSession, peer.size, peer.written)
                                   ELSE @]
    IN  IF endpoint = "einval" THEN TlsResult(w, "einval")
        ELSE IF UpdateCertConfiguration(config, s.tlsa) # "ok"
        THEN TlsResult(w, "eproto")
        ELSE IF peer.broken # "ok" THEN TlsResult(begun, peer.broken)
        ELSE IF WrapHandshakeResult(config, v.d, v.failed)
        THEN TlsResult(verified, "eproto")
        ELSE TlsResult(done, "ok")

------------------------------------------------------------------------------
(* Data                                                                     *)

\* external: mbedtls_ssl_read() hands out what is left of the record it
\* decrypted last, and reads another when nothing is left.
SslRead(s, records, len) ==
    LET left == s.avail # <<>>
        record == IF left THEN s.avail ELSE Head(records)
        n == AVS_MIN(len, Len(record))
    IN  IF ~left /\ records = <<>>
        THEN [s |-> s, records |-> records, err |-> "etimedout", out |-> <<>>]
        ELSE IF record = <<>>
        THEN [s |-> s, records |-> records, err |-> "closed", out |-> <<>>]
        ELSE [s |-> [s EXCEPT !.avail = Drop(record, n)],
              records |-> IF left THEN records ELSE Tail(records),
              err |-> "ok", out |-> Take(record, n)]

\* On a datagram socket what was left of the previous datagram is thrown
\* away first, and a datagram that does not fit is an error.
ReceiveSsl(s, records, len) ==
    LET dropped == IF len > 0 /\ config.dgram THEN [s EXCEPT !.avail = <<>>]
                   ELSE s
        r == SslRead(dropped, records, len)
    IN  IF r.err = "closed" THEN [r EXCEPT !.err = "ok"]
        ELSE IF r.err = "ok" /\ config.dgram /\ r.s.avail # <<>>
        THEN [r EXCEPT !.err = "emsgsize"] ELSE r

\* The library writes as much of the rest as it likes, or fails.
LibraryFails == 0

RECURSIVE SendSsl(_, _, _)
SendSsl(sent, n, plan) ==
    LET k == IF plan = <<>> THEN n ELSE Head(plan)
    IN  IF sent >= n THEN [sent |-> sent, err |-> "ok"]
        ELSE IF k = LibraryFails THEN [sent |-> sent, err |-> "eio"]
        ELSE SendSsl(sent + AVS_MIN(k, n - sent), n,
                     IF plan = <<>> THEN plan ELSE Tail(plan))

------------------------------------------------------------------------------
(* What verification promises                                               *)

\* The certificates of a chain that satisfy a record of one of the usages:
\* the peer's own for the two EE usages, its issuers for the others.
Matched(tlsa, certs, usages) ==
    \E t \in tlsa, i \in DOMAIN certs :
        /\ t.usage \in usages /\ t.cert = certs[i]
        /\ (t.usage \in EeUsages) = (i = 1)

\* Whether a peer is to be accepted: by PKIX alone, by DANE alone
\* (opportunistic, unless no record is usable), or by PKIX constrained by
\* DANE, where a DANE-TA or DANE-EE record makes up for a missing root.
Acceptable(c, tlsa, peer) ==
    LET ver == VerChain(peer.chain, TrustStore(c, tlsa))
        current == \A i \in DOMAIN ver.certs : ver.certs[i] \notin peer.expired
    IN  CASE ~c.dane /\ ~c.validate -> TRUE
          [] ~c.dane /\ c.validate -> ver.trusted /\ current
          [] Opportunistic(c) ->
                 HasDaneTaOrEeEntries(tlsa) =>
                     current /\ Matched(tlsa, ver.certs, TaOrEe)
          [] OTHER ->
                 current /\ IF ver.trusted
                            THEN tlsa = {} \/ Matched(tlsa, ver.certs, 0 .. 3)
                            ELSE Matched(tlsa, ver.certs, TaOrEe)

------------------------------------------------------------------------------
(* The socket at work                                                       *)

NoCall == [op |-> "none", err |-> "ok"]

NewSock(buffer) ==
    [backend |-> NULLSOCK, valid |-> FALSE, fresh |-> TRUE, tlsa |-> {},
     dane |-> [last |-> 0, mask |-> {}, flags |-> {}, result |-> FALSE],
     buffer |-> buffer, session |-> NOSESSION, avail |-> <<>>]

MbStart(c) ==
    /\ config = c
    /\ mb = [sock |-> NewSock(Zeroes(c.bufsize)),
             backends |-> [b \in 1 .. 2 |-> FreeBackend]]
    /\ sessions = <<>> /\ wire = <<>> /\ mbCall = NoCall /\ refused = FALSE

MbInit == \E c \in MbConfigs : MbStart(c)

\* What every handshake leaves behind.
Handshaken(r, peer) ==
    LET new == r.err = "ok" /\ r.w.sock.session = NewSession
    IN  /\ mb' = r.w
        /\ mbCall' = [op |-> "handshake", err |-> r.err,
                      full |-> new, acceptable |-> Acceptable(config, mb.sock.tlsa, peer),
                      stale |-> refused]
        /\ sessions' = IF new
                       THEN Append(sessions, [size |-> peer.size,
                                              ok |-> Acceptable(config, mb.sock.tlsa, peer)])
                       ELSE sessions
        /\ refused' = (refused \/ (r.err = "eproto" /\ r.w.sock.dane.result))
        /\ wire' = <<>>
        /\ UNCHANGED config

MbConnect(reachable, peer) ==
    LET Start(w) == StartSsl(w, peer)
        r == ConnectSsl(mb, reachable, IsSslStarted, Start, CloseSslRaw)
    IN  /\ Len(sessions) < config.maxSessions
        /\ IF r.err \in {"eisconn", "ebadf", "econnrefused"}
           THEN /\ mb' = r.w /\ mbCall' = NoCall
                /\ UNCHANGED <<config, sessions, wire, refused>>
           ELSE Handshaken(r, peer)

MbDecorate(b, peer) ==
    LET Start(w) == StartSsl(w, peer)
        r == DecorateSsl(mb, b, IsSslStarted, Start, CloseSslRaw)
    IN  /\ Len(sessions) < config.maxSessions
        /\ mb.backends[b].owner = "app"
        /\ IF r.err = "eisconn" \/ mb.backends[b].state = "closed"
           THEN /\ mb' = r.w /\ mbCall' = NoCall
                /\ UNCHANGED <<config, sessions, wire, refused>>
           ELSE Handshaken(r, peer)

\* A socket of the application, to decorate later; and its end.
AppSocket(state) ==
    /\ \E b \in Unallocated(mb) :
           mb' = [mb EXCEPT !.backends[b] = NewBackend("app", state)]
    /\ \A b \in DOMAIN mb.backends : mb.backends[b].owner # "app"
    /\ mbCall' = NoCall
    /\ UNCHANGED <<config, sessions, wire, refused>>

AppCleanup(b) ==
    /\ mb.backends[b].owner = "app"
    /\ mb' = [mb EXCEPT !.backends[b] = FreeBackend]
    /\ mbCall' = NoCall
    /\ UNCHANGED <<config, sessions, wire, refused>>

MbBind ==
    LET r == BindSsl(mb)
    IN  /\ mb' = r.w /\ mbCall' = NoCall
        /\ UNCHANGED <<config, sessions, wire, refused>>

MbClose ==
    /\ mb' = CloseSslRaw(mb) /\ mbCall' = NoCall /\ wire' = <<>>
    /\ UNCHANGED <<config, sessions, refused>>

\* cleanup_ssl(), then a new socket with the same buffer.
MbRecreate ==
    LET w == CleanupBackend(CloseSslRaw(mb))
    IN  /\ mb' = [w EXCEPT !.sock = NewSock(w.sock.buffer)]
        /\ mbCall' = NoCall /\ wire' = <<>> /\ refused' = FALSE
        /\ UNCHANGED <<config, sessions>>

MbSetTlsa(records, memory) ==
    LET r == SetDaneTlsaArray(mb, records, memory)
    IN  /\ mb' = r.w /\ mbCall' = NoCall
        /\ UNCHANGED <<config, sessions, wire, refused>>

\* Bytes a peer has sent carry their position; a record of none is the
\* notification that it closes.
Carried == Len(mb.sock.avail)
LastByte == IF wire # <<>> /\ wire[Len(wire)] # <<>>
            THEN wire[Len(wire)][Len(wire[Len(wire)])]
            ELSE IF mb.sock.avail # <<>> THEN mb.sock.avail[Carried] ELSE 0

MbPeerSends(n) ==
    /\ mb.sock.valid /\ (wire # <<>> => wire[Len(wire)] # <<>>)
    /\ LastByte + n <= config.maxBytes
    /\ wire' = Append(wire, [i \in 1 .. n |-> LastByte + i])
    /\ mbCall' = NoCall
    /\ UNCHANGED <<mb, config, sessions, refused>>

MbReceive(len) ==
    LET r == ReceiveSsl(mb.sock, wire, len)
        next == IF wire = <<>> THEN <<>> ELSE Head(wire)
    IN  /\ mb.sock.valid
        /\ mb' = [AvsBioRecv(mb, 0) EXCEPT !.sock = r.s]
        /\ wire' = r.records
        /\ mbCall' = [op |-> "receive", err |-> r.err, out |-> r.out, len |-> len,
                      message |-> next, rest |-> mb.sock.avail]
        /\ UNCHANGED <<config, sessions, refused>>

MbSend(n, plan) ==
    LET r == SendSsl(0, n, plan)
    IN  /\ mb.sock.valid
        /\ mbCall' = [op |-> "send", err |-> r.err, sent |-> r.sent, len |-> n]
        /\ UNCHANGED <<mb, config, sessions, wire, refused>>

\* The backend tells its inner MTU and the library what the cipher adds.
MbGetInnerMtu(mtu, header, padding) ==
    /\ mb.sock.valid /\ config.dgram
    /\ mbCall' = [op |-> "inner_mtu", err |-> "ok", mtu |-> mtu,
                  header |-> header, padding |-> padding,
                  result |-> InnerMtu(mtu, header, padding)]
    /\ UNCHANGED <<mb, config, sessions, wire, refused>>

MbNext ==
    \/ \E reachable \in BOOLEAN, peer \in config.peers : MbConnect(reachable, peer)
    \/ \E b \in DOMAIN mb.backends, peer \in config.peers : MbDecorate(b, peer)
    \/ \E state \in config.appStates : AppSocket(state)
    \/ \E b \in DOMAIN mb.backends : AppCleanup(b)
    \/ MbBind
    \/ MbClose
    \/ MbRecreate
    \/ \E records \in config.tlsas, memory \in BOOLEAN : MbSetTlsa(records, memory)
    \/ \E n \in MbRecords : MbPeerSends(n)
    \/ \E len \in MbSizes : MbReceive(len)
    \/ \E n \in MbSizes, plan \in SendResults : MbSend(n, plan)
    \/ \E mtu \in MbMtus, header \in MbHeaders, padding \in MbPaddings :
           MbGetInnerMtu(mtu, header, padding)

------------------------------------------------------------------------------
(* Properties                                                               *)

\* Every backend socket has exactly one owner, through failed handshakes and
\* failed decorations: nothing leaks and nothing is cleaned up twice
\* (connect_ssl, decorate_ssl, cleanup_ssl).
MbBackendOwnedOnce ==
    /\ BackendsHaveOneOwner(mb)
    /\ mb.sock.valid => StateOpt(mb) \in {"connected", "accepted"}

\* A full handshake succeeds only with a peer the configuration and the TLSA
\* records of that moment accept, whatever earlier handshakes left in the
\* verification state (verify_cert_cb, wrap_handshake_result); a resumed one
\* continues a session that was so established.
MbAcceptedOnlyIfVerified ==
    /\ mbCall.op = "handshake" /\ mbCall.err = "ok" /\ mbCall.full
          => mbCall.acceptable
    /\ mb.sock.valid => sessions[mb.sock.session].ok

\* Unless verification has failed on the socket before, a peer that answers
\* and is acceptable is not turned away: every refusal is for a reason of
\* this handshake.
MbRefusedForAReason ==
    mbCall.op = "handshake" /\ mbCall.err = "eproto" /\ ~mbCall.stale
        => ~mbCall.acceptable \/ UNPARSABLE \in TrustStore(config, mb.sock.tlsa)

\* AVS_NET_SOCKET_OPT_SESSION_RESUMED of a connected socket tells whether the
\* session is an earlier one (flags.session_fresh, fake_session_cache_set).
MbSessionFlagIsTrue ==
    mbCall.op = "handshake" /\ mbCall.err = "ok"
        => mb.sock.fresh = mbCall.full

\* A session that fits the buffer is the one the buffer restores to, whatever
\* longer, shorter or torn session was there before.  Under a header there is
\* one whole session, except with Mbed TLS 2.19 and later once a session did
\* not fit; before 2.19 such a session leaves nothing.
MbBufferIsOneSession ==
    LET buf == mb.sock.buffer
        id == SessionRestore(buf)
        Fits(i) == sessions[i].size < Len(buf)
    IN  buf # <<>> =>
          /\ IsHeader(buf[1]) /\ id = NOSESSION =>
                 config.native /\ \E i \in DOMAIN sessions : ~Fits(i)
          /\ mb.sock.valid /\ mb.sock.fresh /\ StateOpt(mb) = "connected" =>
                 IF Fits(mb.sock.session) THEN id = mb.sock.session
                 ELSE config.native \/ id = NOSESSION

\* One receive on a datagram socket returns one datagram from its beginning,
\* and says so when it was cut; on a stream socket the bytes come in order
\* (receive_ssl).  A send succeeds when everything was written (send_ssl).
MbMessagesWhole ==
    /\ mbCall.op = "send" => (mbCall.err = "ok") = (mbCall.sent = mbCall.len)
    /\ mbCall.op = "receive" /\ mbCall.len > 0 /\ mbCall.err \in {"ok", "emsgsize"} =>
           IF config.dgram
           THEN /\ mbCall.out = Take(mbCall.message,
                                     AVS_MIN(mbCall.len, Len(mbCall.message)))
                /\ (mbCall.err = "ok") = (Len(mbCall.message) <= mbCall.len)
           ELSE LET all == mbCall.rest \o mbCall.message
                IN  mbCall.out = Take(all, Len(mbCall.out))

\* The inner MTU of a DTLS socket is the largest payload that fits into the
\* datagrams of the backend, for every cipher's header and block size
\* (get_opt_ssl).
MbInnerMtu ==
    mbCall.op = "inner_mtu" =>
        InnerMtuIsLargest(mbCall.result, mbCall.mtu, mbCall.header,
                          mbCall.padding)

\* A call of the library never leaves its own receive timeout in the backend
\* socket (avs_bio_recv).
MbTimeoutKept ==
    \A b \in DOMAIN mb.backends :
        mb.backends[b].owner # "none" => mb.backends[b].timeout = 1

\* avs_socket.h about the session buffer: it is filled with zeroes in case
\* of error, and all the unused space is zeroed after writing data.  With Mbed
\* TLS 2.19 and later neither holds (SessionSaveNative).
MbBufferZeroed ==
    LET buf == mb.sock.buffer
        n == buf[1] - HEADER(0)
    IN  mbCall.op = "handshake" /\ mbCall.err = "ok" /\ mbCall.full
        /\ Len(buf) > 0 /\ StateOpt(mb) = "connected"
        => IF SessionRestore(buf) = mb.sock.session
           THEN \A i \in n + 2 .. Len(buf) : buf[i] = 0
           ELSE \A i \in 1 .. Len(buf) : buf[i] = 0

\* A socket over Mbed TLS, through any sequence of connections, refusals,
\* resumptions and closes: who owns the backend, whom it lets in, what it
\* says and stores about its session, and the data.
MbedtlsCorrect ==
    /\ MbBackendOwnedOnce
    /\ MbAcceptedOnlyIfVerified
    /\ MbRefusedForAReason
    /\ MbSessionFlagIsTrue
    /\ MbBufferIsOneSession
    /\ MbMessagesWhole
    /\ MbTimeoutKept
    /\ MbInnerMtu

==============================================================================
