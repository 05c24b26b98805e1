--------------------------- MODULE OpensslSocket ---------------------------
(***************************************************************************)
(* The (D)TLS socket over OpenSSL, src/src/net/openssl/avs_openssl.c.  The *)
(* library's handshake, its verification and its records are external;     *)
(* modelled is what the socket sets up for them: the verification mode and *)
(* the TLSA records it hands over, the ciphers, the retransmission timer   *)
(* and how it stops OpenSSL by taking the network away, the session buffer *)
(* and the detection of truncated datagrams.                               *)
(***************************************************************************)
EXTENDS TlsCommon, FiniteSets, AvsBuffer

CONSTANTS UINT_MAX,
          OsConfigs,    \* configurations, with the peers, TLSA records and
                        \* bounds each is explored with
          OsSizes       \* buffer sizes, and sizes of records and sessions

ASSUME OsAssumption ==
    /\ UINT_MAX \in Nat /\ OsSizes \subseteq Nat \ {0}
    /\ \A c \in OsConfigs :
          /\ c.dgram \in BOOLEAN /\ c.validate \in BOOLEAN /\ c.dane \in BOOLEAN
          /\ c.min_us \in Nat /\ c.max_us \in 0 .. UINT_MAX /\ c.bufsize \in Nat
          /\ c.appStates \subseteq {"closed", "connected", "accepted"}
          /\ \A peer \in c.peers : peer.answers \in Nat /\ peer.size \in Nat \ {0}
          /\ \A tlsa \in c.tlsas : \A t \in tlsa : t.usage \in 0 .. 3

VARIABLES os,        \* the world
          osConfig,
          osSessions,\* sizes of the sessions negotiated so far
          osWire,    \* the records in flight to the socket
          osCall     \* the last call and what it returned

osVars == <<os, osConfig, osSessions, osWire, osCall>>

------------------------------------------------------------------------------
(* Ciphers                                                                  *)

\* A cipher OpenSSL knows, or does not.
Known(c) == c.known

\* lost: the entries whose writes into the list fail.  A failed entry is
\* forgotten when a later one succeeds.
IdsToCipherList(ids, psk, lost) ==
    LET usable == {i \in DOMAIN ids : Known(ids[i]) /\ ids[i].psk = psk}
    IN  [list |-> {ids[i].id : i \in usable \ lost},
         err |-> IF \E i \in usable \cap lost : \A j \in usable : j <= i
                 THEN "enomem" ELSE "ok"]

\* SSL_set_cipher_list() of a list without a cipher fails.
FixSocketCiphersuites(c) ==
    LET l == IdsToCipherList(c.ciphers, c.psk, c.lost)
    IN  IF c.ciphers = <<>> THEN [list |-> IF c.psk THEN {"PSK"} ELSE {"!PSK"},
                                  err |-> "ok"]
        ELSE IF l.err = "ok" /\ l.list = {} THEN [l EXCEPT !.err = "eproto"]
        ELSE l

------------------------------------------------------------------------------
(* Verification                                                             *)

PKIX_TA == 0
PKIX_EE == 1
DANE_TA == 2
DANE_EE == 3

VerifyMode(c) ==
    CASE c.validate /\ c.dane -> "dane_enforced"
      [] c.validate /\ ~c.dane -> "truststore"
      [] ~c.validate /\ c.dane -> "dane_opportunistic"
      [] OTHER -> "disabled"

\* The TLSA records SSL_dane_tlsa_add() accepts.
UsableRecords(c, tlsa) ==
    {t \in tlsa : /\ t.wellFormed
                  /\ VerifyMode(c) = "dane_opportunistic"
                         => t.usage \notin {PKIX_TA, PKIX_EE}}

\* What start_ssl() asks of the library.
Verification(c, tlsa) ==
    LET usable == UsableRecords(c, tlsa)
        on == CASE VerifyMode(c) = "disabled" -> FALSE
                [] VerifyMode(c) = "dane_opportunistic" -> usable # {}
                [] OTHER -> TRUE
    IN  [peer |-> on, host |-> on, records |-> IF c.dane THEN usable ELSE {}]

\* external: a certificate matched by a DANE-EE record needs nothing else.
LibraryAccepts(v, peer) ==
    LET Hit(usage) == \E t \in v.records : t.usage = usage /\ t.cert \in peer.matches
        good == peer.current /\ (v.host => peer.named)
    IN  \/ ~v.peer
        \/ v.records = {} /\ peer.trusted /\ good
        \/ Hit(DANE_EE)
        \/ Hit(DANE_TA) /\ good
        \/ (Hit(PKIX_TA) \/ Hit(PKIX_EE)) /\ peer.trusted /\ good

------------------------------------------------------------------------------
(* The retransmission timer                                                 *)

\* What dtls_timer_cb() does when a timer of timer_us has run out: the next
\* one, or the end of all communication.
DtlsTimerCbWrapping(c, timer_us) ==
    IF timer_us = 0 THEN [next |-> c.min_us, blocked |-> FALSE]
    ELSE IF timer_us >= c.max_us THEN [next |-> 0, blocked |-> TRUE]
    ELSE [next |-> AVS_MIN((timer_us * 2) % (UINT_MAX + 1), c.max_us),
          blocked |-> FALSE]

DtlsTimerCb(c, timer_us) ==
    LET doubled == IF timer_us <= UINT_MAX \div 2 THEN timer_us * 2 ELSE UINT_MAX
    IN  IF timer_us = 0 THEN [next |-> c.min_us, blocked |-> FALSE]
        ELSE IF timer_us >= c.max_us THEN [next |-> 0, blocked |-> TRUE]
        ELSE [next |-> AVS_MIN(doubled, c.max_us), blocked |-> FALSE]

\* The timers OpenSSL is told for up to n transmissions.
DtlsTimers(c, n) ==
    LET timer[k \in 0 .. n] ==
            IF k = 0 THEN [next |-> 0, blocked |-> FALSE]
            ELSE DtlsTimerCb(c, timer[k - 1].next)
    IN  timer

\* OpenSSL waits as long as it is told until the peer answers, which it does
\* to the n-th transmission, or until it cannot communicate any more.
Retransmit(c, n) ==
    LET timer == DtlsTimers(c, n)
        stops == {k \in 1 .. n : timer[k].blocked}
        last == IF stops = {} THEN n ELSE CHOOSE k \in stops : \A j \in stops : k <= j
    IN  [blocked |-> stops # {}, waited |-> [i \in 1 .. last - 1 |-> timer[i].next]]

------------------------------------------------------------------------------
(* The session buffer: cells as in the model of the Mbed TLS socket; the    *)
(* serialised session carries its own length.                               *)

OsZeroes(n) == [i \in 1 .. n |-> 0]
SessionImage(id, n) == [i \in 1 .. n |-> id]

NewSessionCb(buf, id, n) ==
    IF n <= Len(buf) THEN SessionImage(id, n) \o OsZeroes(Len(buf) - n)
    ELSE OsZeroes(Len(buf))

\* d2i_SSL_SESSION(): a whole session at the start of the buffer.
Deserialise(buf) ==
    LET whole == {id \in DOMAIN osSessions :
                    /\ osSessions[id] <= Len(buf)
                    /\ Take(buf, osSessions[id]) = SessionImage(id, osSessions[id])}
    IN  IF whole = {} THEN 0 ELSE CHOOSE id \in whole : TRUE

------------------------------------------------------------------------------
(* The handshake                                                            *)

OsStarted(w) == w.sock.ssl

OsCloseRaw(w) == CloseBackend([w EXCEPT !.sock.ssl = FALSE, !.sock.avail = <<>>])

\* A read of the library: with the timer as the timeout, put back afterwards.
\* Without a backend there is no network.
AvsBioRead(w, deadline) ==
    LET b == w.sock.backend
        orig == w.backends[b].timeout
        adjusted == [w EXCEPT !.backends[b].timeout = deadline]
    IN  IF b = NULLSOCK THEN w
        ELSE IF osConfig.dgram /\ deadline > 0
        THEN [adjusted EXCEPT !.backends[b].timeout = orig]
        ELSE w

\* dtls_timer_cb() takes the backend away, start_ssl() puts it back.
SslHandshakeStopped(w, r) ==
    IF r.blocked THEN [w EXCEPT !.sock.backend = NULLSOCK] ELSE w

OsStartSsl(w, peer) ==
    LET client == StateOpt(w) = "connected"
        r == IF osConfig.dgram THEN Retransmit(osConfig, peer.answers)
             ELSE [blocked |-> FALSE, waited |-> <<>>]
        begun == AvsBioRead([w EXCEPT !.sock.ssl = TRUE], osConfig.min_us)
        stopped == SslHandshakeStopped(begun, r)
        restored == [stopped EXCEPT !.sock.backend = w.sock.backend]
        old == IF client THEN Deserialise(w.sock.buffer) ELSE 0
        reused == old # 0 /\ peer.resumes
        new == Len(osSessions) + 1
        buffer == IF client /\ ~reused
                  THEN NewSessionCb(w.sock.buffer, new, peer.size) ELSE w.sock.buffer
        done == [restored EXCEPT
                   !.sock = [@ EXCEPT !.reused = reused, !.buffer = buffer,
                                      !.session = IF reused THEN old ELSE new]]
    IN  IF FixSocketCiphersuites(osConfig).err # "ok"
        THEN TlsResult(begun, FixSocketCiphersuites(osConfig).err)
        ELSE IF r.blocked THEN TlsResult(restored, "etimedout")
        ELSE IF ~reused /\ ~LibraryAccepts(Verification(osConfig, w.sock.tlsa), peer)
        THEN TlsResult(restored, "eproto")
        ELSE TlsResult(done, "ok")

------------------------------------------------------------------------------
(* Data                                                                     *)

\* SSL_read(): what is left of the last record, or a record from the network.
OsSslRead(w, records, len) ==
    LET s == w.sock
        left == s.avail # <<>>
        record == IF left THEN s.avail ELSE Head(records)
        n == AVS_MIN(len, Len(record))
        blocked == s.backend = NULLSOCK \/ records = <<>>
    IN  IF ~left /\ blocked
        THEN [w |-> w, records |-> records, n |-> -1, out |-> <<>>]
        ELSE [w |-> [w EXCEPT !.sock.avail = Drop(record, n)],
              records |-> IF left THEN records ELSE Tail(records),
              n |-> n, out |-> Take(record, n)]

\* Reads until nothing is left: of the last record only, when the network
\* has been taken away.
Drain(w, records) ==
    LET more == IF w.sock.backend = NULLSOCK THEN <<>> ELSE records
    IN  [w |-> [w EXCEPT !.sock.avail = <<>>],
         records |-> IF w.sock.backend = NULLSOCK THEN records ELSE <<>>,
         truncated |-> w.sock.avail # <<>> \/ more # <<>>]

OsReceiveSsl(w, records, len) ==
    LET r == OsSslRead(w, records, len)
        blocked == [r.w EXCEPT !.sock.backend = NULLSOCK]
        d == Drain(blocked, r.records)
        back == [d.w EXCEPT !.sock.backend = r.w.sock.backend]
    IN  IF r.n < 0
        THEN [w |-> r.w, records |-> r.records, err |-> "etimedout", out |-> <<>>]
        ELSE IF osConfig.dgram /\ len > 0 /\ r.n = len
        THEN [w |-> back, records |-> d.records, out |-> r.out,
              err |-> IF d.truncated THEN "emsgsize" ELSE "ok"]
        ELSE [w |-> r.w, records |-> r.records, err |-> "ok", out |-> r.out]

------------------------------------------------------------------------------
(* The socket at work                                                       *)

OsNoCall == [op |-> "none", err |-> "ok"]

OsNewSock(buffer) ==
    [backend |-> NULLSOCK, ssl |-> FALSE, reused |-> FALSE, tlsa |-> {},
     buffer |-> buffer, session |-> 0, avail |-> <<>>]

OsStart(c) ==
    /\ osConfig = c
    /\ os = [sock |-> OsNewSock(OsZeroes(c.bufsize)),
             backends |-> [b \in 1 .. 2 |-> FreeBackend]]
    /\ osSessions = <<>> /\ osWire = <<>> /\ osCall = OsNoCall

OsInit == \E c \in OsConfigs : OsStart(c)

OsHandshaken(r, peer) ==
    LET full == r.err = "ok" /\ r.w.sock.session = Len(osSessions) + 1
    IN  /\ os' = r.w
        /\ osCall' = [op |-> "handshake", err |-> r.err, peer |-> peer, full |-> full,
                      tlsa |-> os.sock.tlsa,
                      waited |-> IF osConfig.dgram
                                 THEN Retransmit(osConfig, peer.answers).waited
                                 ELSE <<>>]
        /\ osSessions' = IF full THEN Append(osSessions, peer.size) ELSE osSessions
        /\ osWire' = <<>>
        /\ UNCHANGED osConfig

OsConnect(reachable, peer) ==
    LET Start(w) == OsStartSsl(w, peer)
        r == ConnectSsl(os, reachable, OsStarted, Start, OsCloseRaw)
    IN  /\ Len(osSessions) < osConfig.maxSessions
        /\ IF r.err \in {"eisconn", "ebadf", "econnrefused"}
           THEN os' = r.w /\ osCall' = OsNoCall /\ UNCHANGED <<osConfig, osSessions, osWire>>
           ELSE OsHandshaken(r, peer)

OsDecorate(b, peer) ==
    LET Start(w) == OsStartSsl(w, peer)
        r == DecorateSsl(os, b, OsStarted, Start, OsCloseRaw)
    IN  /\ Len(osSessions) < osConfig.maxSessions
        /\ os.backends[b].owner = "app"
        /\ IF r.err = "eisconn" \/ os.backends[b].state = "closed"
           THEN os' = r.w /\ osCall' = OsNoCall /\ UNCHANGED <<osConfig, osSessions, osWire>>
           ELSE OsHandshaken(r, peer)

OsAppSocket(state) ==
    /\ \E b \in Unallocated(os) :
           os' = [os EXCEPT !.backends[b] = NewBackend("app", state)]
    /\ \A b \in DOMAIN os.backends : os.backends[b].owner # "app"
    /\ osCall' = OsNoCall
    /\ UNCHANGED <<osConfig, osSessions, osWire>>

OsClose ==
    /\ os' = OsCloseRaw(os) /\ osCall' = OsNoCall /\ osWire' = <<>>
    /\ UNCHANGED <<osConfig, osSessions>>

OsRecreate ==
    LET w == CleanupBackend(OsCloseRaw(os))
    IN  /\ os' = [w EXCEPT !.sock = OsNewSock(w.sock.buffer)]
        /\ osCall' = OsNoCall /\ osWire' = <<>>
        /\ UNCHANGED <<osConfig, osSessions>>

OsSetTlsa(records) ==
    /\ os' = SetDaneTlsaArray(os, records, TRUE).w /\ osCall' = OsNoCall
    /\ UNCHANGED <<osConfig, osSessions, osWire>>

\* A TLS 1.3 server sends another ticket on the established connection.
OsNewTicket(n) ==
    /\ os.sock.ssl /\ StateOpt(os) = "connected" /\ os.sock.buffer # <<>>
    /\ Len(osSessions) < osConfig.maxSessions
    /\ osSessions' = Append(osSessions, n)
    /\ os' = [os EXCEPT !.sock.buffer = NewSessionCb(@, Len(osSessions) + 1, n),
                        !.sock.session = Len(osSessions) + 1]
    /\ osCall' = OsNoCall
    /\ UNCHANGED <<osConfig, osWire>>

OsLastByte == IF osWire # <<>> THEN osWire[Len(osWire)][Len(osWire[Len(osWire)])]
              ELSE IF os.sock.avail # <<>> THEN os.sock.avail[Len(os.sock.avail)]
              ELSE 0

OsPeerSends(n) ==
    /\ os.sock.ssl /\ OsLastByte + n <= osConfig.maxBytes
    /\ osWire' = Append(osWire, [i \in 1 .. n |-> OsLastByte + i])
    /\ osCall' = OsNoCall
    /\ UNCHANGED <<os, osConfig, osSessions>>

OsReceive(len) ==
    LET r == OsReceiveSsl(os, osWire, len)
    IN  /\ os.sock.ssl
        /\ os' = AvsBioRead(r.w, 0) /\ osWire' = r.records
        /\ osCall' = [op |-> "receive", err |-> r.err, out |-> r.out, len |-> len,
                      rest |-> os.sock.avail,
                      message |-> IF osWire = <<>> THEN <<>> ELSE Head(osWire)]
        /\ UNCHANGED <<osConfig, osSessions>>

\* SSL_write() takes everything or fails.
OsSend(n, sent) ==
    /\ os.sock.ssl /\ sent <= n
    /\ osCall' = [op |-> "send", err |-> IF sent < n THEN "eproto" ELSE "ok",
                  all |-> sent = n]
    /\ UNCHANGED <<os, osConfig, osSessions, osWire>>

OsNext ==
    \/ \E reachable \in BOOLEAN, peer \in osConfig.peers : OsConnect(reachable, peer)
    \/ \E b \in DOMAIN os.backends, peer \in osConfig.peers : OsDecorate(b, peer)
    \/ \E state \in osConfig.appStates : OsAppSocket(state)
    \/ OsClose
    \/ OsRecreate
    \/ \E records \in osConfig.tlsas : OsSetTlsa(records)
    \/ \E n \in OsSizes : OsNewTicket(n)
    \/ \E n \in OsSizes : OsPeerSends(n)
    \/ \E len \in OsSizes : OsReceive(len)
    \/ \E n \in OsSizes, sent \in {0, 1} : OsSend(n, sent)

OsSpec == OsInit /\ [][OsNext]_osVars

------------------------------------------------------------------------------
(* Properties                                                               *)

\* The backend that dtls_timer_cb() and receive_ssl() take away to stop
\* OpenSSL from communicating is always put back, with its own timeout, and
\* has one owner through every failure.
OsBackendKept ==
    /\ BackendsHaveOneOwner(os)
    /\ os.sock.ssl => StateOpt(os) \in {"connected", "accepted"}
    /\ \A b \in DOMAIN os.backends :
          os.backends[b].owner # "none" => os.backends[b].timeout = 1

\* What a peer has to show, by the configuration: nothing, a trusted chain
\* for the right name, or what a usable TLSA record asks for.
OsPolicy(c, tlsa, peer) ==
    LET sound == {t \in tlsa : t.wellFormed}
        Shown(usages) == \E t \in sound : t.usage \in usages /\ t.cert \in peer.matches
        usable == IF c.validate THEN sound
                  ELSE {t \in sound : t.usage \in {DANE_TA, DANE_EE}}
        good == peer.current /\ peer.named
    IN  IF ~c.dane THEN c.validate => peer.trusted /\ good
        ELSE IF usable = {} THEN c.validate => peer.trusted /\ good
        ELSE \/ Shown({DANE_EE})
             \/ Shown({DANE_TA}) /\ good
             \/ c.validate /\ Shown({PKIX_TA, PKIX_EE}) /\ peer.trusted /\ good

\* A full handshake with a peer that answers succeeds exactly when the policy
\* accepts it: the opportunistic mode neither verifies against records it
\* cannot use nor skips the name of a peer it does verify (start_ssl).
OsVerifiesExactly ==
    osCall.op = "handshake" =>
        /\ osCall.err = "ok" /\ osCall.full => OsPolicy(osConfig, osCall.tlsa, osCall.peer)
        /\ osCall.err = "eproto" /\ FixSocketCiphersuites(osConfig).err = "ok"
              => ~OsPolicy(osConfig, osCall.tlsa, osCall.peer)

\* Retransmissions of a DTLS handshake wait min, twice as long each time, max
\* at most, also when doubling exceeds an unsigned int; the handshake gives
\* up only after it has waited max once (dtls_timer_cb).
OsTimerBacksOff ==
    osCall.op = "handshake" /\ osConfig.dgram =>
        LET w == osCall.waited
        IN  /\ \A i \in DOMAIN w :
                  w[i] = IF i = 1 THEN osConfig.min_us
                         ELSE AVS_MIN(2 * w[i - 1], osConfig.max_us)
            /\ osCall.err = "etimedout" =>
                  w # <<>> /\ w[Len(w)] >= osConfig.max_us

\* Only ciphers the application enabled, and of the kind its credentials
\* call for, are offered, whatever writes into the list fail
\* (ids_to_cipher_list).
OsCiphersAllowed ==
    osCall.op = "handshake" /\ osCall.err = "ok" /\ osConfig.ciphers # <<>> =>
        \A id \in FixSocketCiphersuites(osConfig).list :
            \E i \in DOMAIN osConfig.ciphers :
                /\ osConfig.ciphers[i].id = id
                /\ osConfig.ciphers[i].psk = osConfig.psk

\* The session buffer holds the newest session whole and zeroes behind it,
\* or only zeroes (new_session_cb).
OsBufferIsNewest ==
    LET buf == os.sock.buffer
        id == Deserialise(buf)
        used == IF id = 0 THEN 0 ELSE osSessions[id]
    IN  /\ \A i \in used + 1 .. Len(buf) : buf[i] = 0
        /\ os.sock.ssl /\ StateOpt(os) = "connected" => id \in {0, os.sock.session}

\* One receive on a datagram socket returns one datagram from its beginning,
\* tells when it was cut, and reads no later datagram while it finds that
\* out; on a stream socket the bytes come in order (receive_ssl).
OsMessagesWhole ==
    /\ osCall.op = "send" => (osCall.err = "ok" <=> osCall.all)
    /\ osCall.op = "receive" /\ osCall.err \in {"ok", "emsgsize"} =>
          IF osConfig.dgram
          THEN /\ osCall.out = Take(osCall.message,
                                    AVS_MIN(osCall.len, Len(osCall.message)))
               /\ osCall.err = "ok" <=> Len(osCall.message) <= osCall.len
          ELSE LET all == osCall.rest \o osCall.message
               IN  osCall.out = Take(all, Len(osCall.out))

\* A socket over OpenSSL, through any sequence of connections, refusals,
\* resumptions and closes: its backend, whom it lets in, how long it waits,
\* what it offers, and the data.
OpensslCorrect ==
    /\ OsBackendKept
    /\ OsVerifiesExactly
    /\ OsTimerBacksOff
    /\ OsCiphersAllowed
    /\ OsBufferIsNewest
    /\ OsMessagesWhole

==============================================================================
