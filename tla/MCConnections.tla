--------------------------- MODULE MCConnections ----------------------------
(***************************************************************************)
(* Instances for TLC of the modules on the way of a byte from the          *)
(* application to the network: the streams (AvsStream), the buffered net   *)
(* stream (NetbufCalls), HTTP bodies (HttpBody), the TLS sockets           *)
(* (MbedtlsSocket, OpensslSocket, TinydtlsSocket, ClientCertChain), the    *)
(* socket API above them (NetApi) and the socket that stands in for all of *)
(* them in tests (Mocksock).  They share no state: a behaviour is one of a *)
(* single part, while the others rest in one of their initial states.      *)
(***************************************************************************)
EXTENDS AvsStream, NetbufCalls, HttpBody, MbedtlsSocket, OpensslSocket,
        TinydtlsSocket, ClientCertChain, NetApi, Mocksock

VARIABLE part       \* the part whose behaviour it is

-----------------------------------------------------------------------------
(* Streams: texts with every kind of line end, short and failing transfers  *)

SomeContents == {<<>>, <<1, 2, 3>>, <<1, CR, LF, 2>>, <<CR, 2, LF>>, <<1, NUL, LF>>,
                 <<1, CR, CR, LF>>}
SomeInputPlans == {<<>>, <<1, FAIL>>}
SomeOutputPlans == {<<>>, <<1, 0, 1>>, <<1, FAIL, 1>>}

\* The net stream below: sends that fail after a byte
SomeSendPlans == {<<>>, <<1>>}

-----------------------------------------------------------------------------
(* HTTP bodies: delimited by the connection, a length or chunks; compressed *)
(* or not; well-formed, damaged and cut short                               *)

PlainBody(transfer, length, status, body, bytes) ==
    [transfer |-> transfer, length |-> length, coded |-> FALSE, status |-> status,
     body |-> body, wire |-> bytes, bad |-> FALSE]
CodedBody(transfer, length, body, bytes, bad) ==
    [transfer |-> transfer, length |-> length, coded |-> TRUE, status |-> 200,
     body |-> body, wire |-> bytes, bad |-> bad]
SomeResponses == {
    PlainBody("dumb", 0, 200, <<1, 2, 3>>, <<1, 2, 3>>),
    PlainBody("dumb", 0, 204, <<>>, <<>>),
    PlainBody("length", 3, 200, <<1, 2, 3>>, <<1, 2, 3>>),
    PlainBody("chunked", 0, 200, <<>>, <<HEX(0), EOL, EOL>>),
    PlainBody("chunked", 0, 200, <<1, 2, 3>>,
              <<HEX(2), EOL, 1, 2, EOL, HEX(1), EOL, 3, EOL, HEX(0), EOL, JUNK, EOL, EOL>>),
    PlainBody("chunked", 0, 200, <<1>>,
              <<JUNK, EOL, HEX(1), EOL, 1, EOL, TOOBIG, EOL>>),
    CodedBody("length", 3, <<10, 11, 20, 21>>, <<1, 2, ZEND>>, FALSE),
    CodedBody("length", 2, <<10, 11>>, <<1, ZBAD>>, TRUE),
    CodedBody("length", 1, <<10, 11>>, <<1>>, TRUE),
    CodedBody("chunked", 0, <<10, 11, 20, 21>>,
              <<HEX(2), EOL, 1, 2, EOL, HEX(1), EOL, ZEND, EOL, HEX(0), EOL, EOL>>, FALSE) }

-----------------------------------------------------------------------------
(* Mbed TLS sockets.  Certificate 1 is a peer's, 2 issued it, 3 is a root,  *)
(* 4 is self-signed.                                                        *)

SomeIssuer == <<2, 3, 3, 4>>
MbTlsa(usage, cert, full) == [usage |-> usage, cert |-> cert, full |-> full]
MbPeer(broken, resumes, chain, expired, size) ==
    [broken |-> broken, resumes |-> resumes, chain |-> chain, expired |-> expired,
     size |-> size, written |-> 0]
MbPlain(dgram, validate) ==
    [dgram |-> dgram, validate |-> validate, dane |-> FALSE, store |-> {3}, bufsize |-> 0,
     native |-> TRUE, tlsas |-> {{}}, maxSessions |-> 1, maxBytes |-> 3, appStates |-> {},
     peers |-> {MbPeer("etimedout", FALSE, <<1>>, {}, 1), MbPeer("ok", TRUE, <<1, 2>>, {}, 1),
                MbPeer("ok", FALSE, <<1, 2>>, {2}, 2)}]
MbDane(validate, bufsize, tlsas, peers) ==
    [MbPlain(FALSE, validate) EXCEPT
        !.dane = TRUE, !.bufsize = bufsize, !.native = FALSE, !.tlsas = tlsas,
        !.maxSessions = 2, !.maxBytes = 0, !.peers = peers]
MbResuming(native) ==
    [MbPlain(TRUE, TRUE) EXCEPT
        !.bufsize = 3, !.native = native, !.maxSessions = 3, !.maxBytes = 0,
        !.peers = {MbPeer("etimedout", FALSE, <<1>>, {}, 1)}
                      \union {MbPeer("ok", r, <<1, 2>>, {}, n) : r \in BOOLEAN, n \in 1 .. 3}
                      \union {[MbPeer("ok", FALSE, <<1, 2>>, {}, 3) EXCEPT !.written = n]
                                : n \in 1 .. 2}]
SomeTlsas == {{MbTlsa(0, 2, FALSE)}, {MbTlsa(2, 3, TRUE), MbTlsa(1, 4, FALSE)},
              {MbTlsa(3, 1, FALSE)}, {MbTlsa(2, 0, TRUE)}}
SomeMbPeers == {MbPeer("ok", TRUE, <<1, 2>>, {}, 1), MbPeer("ok", FALSE, <<1, 2>>, {2}, 2),
                MbPeer("ok", FALSE, <<1, 2, 3>>, {}, 3), MbPeer("ok", FALSE, <<4>>, {}, 2),
                MbPeer("ok", FALSE, <<4>>, {4}, 1)}
SomeMbConfigs == {
    [MbPlain(FALSE, TRUE) EXCEPT !.appStates = {"closed", "connected", "accepted"},
                                 !.maxBytes = 0],
    MbPlain(TRUE, TRUE), MbPlain(FALSE, FALSE), MbResuming(TRUE), MbResuming(FALSE),
    MbDane(TRUE, 0, SomeTlsas, SomeMbPeers), MbDane(FALSE, 0, SomeTlsas, SomeMbPeers),
    MbDane(TRUE, 3, {{MbTlsa(3, 1, FALSE)}},
           {MbPeer("ok", TRUE, <<1, 2>>, {}, 1), MbPeer("ok", FALSE, <<4>>, {}, 2)}) }
SomeSendResults == {<<>>, <<1>>, <<1, 0>>}

-----------------------------------------------------------------------------
(* OpenSSL sockets                                                          *)

OsCipher(id, known, psk) == [id |-> id, known |-> known, psk |-> psk]
OsTlsa(usage, cert, wellFormed) ==
    [usage |-> usage, cert |-> cert, wellFormed |-> wellFormed]
OsPeer(trusted, current, named, matches) ==
    [answers |-> 1, trusted |-> trusted, current |-> current, named |-> named,
     matches |-> matches, resumes |-> FALSE, size |-> 1]
OsGood == [OsPeer(TRUE, TRUE, TRUE, {1}) EXCEPT !.resumes = TRUE]
OsPlain ==
    [dgram |-> FALSE, validate |-> TRUE, dane |-> FALSE, psk |-> FALSE, ciphers |-> <<>>,
     lost |-> {}, min_us |-> 1, max_us |-> 4, bufsize |-> 0, maxSessions |-> 1,
     maxBytes |-> 0, tlsas |-> {{}}, appStates |-> {},
     peers |-> {OsGood, [OsGood EXCEPT !.trusted = FALSE]}]
OsDgram(min, max) ==
    [OsPlain EXCEPT !.dgram = TRUE, !.min_us = min, !.max_us = max, !.maxBytes = 3,
                    !.appStates = {"connected"},
                    !.peers = {[OsGood EXCEPT !.answers = n] : n \in {1, 2, 4, 9}}]
OsDane(validate) ==
    [OsPlain EXCEPT !.validate = validate, !.dane = TRUE,
        !.tlsas = {{OsTlsa(0, 1, TRUE)}, {OsTlsa(3, 1, TRUE)},
                   {OsTlsa(2, 1, TRUE), OsTlsa(1, 2, TRUE)}, {OsTlsa(2, 1, FALSE)}},
        !.peers = {OsPeer(t, c, n, m) : t, c, n \in BOOLEAN, m \in {{}, {1}, {2}}}]
OsResuming ==
    [OsPlain EXCEPT !.bufsize = 2, !.maxSessions = 3,
        !.peers = {[OsGood EXCEPT !.size = n, !.resumes = r] : n \in 1 .. 3, r \in BOOLEAN}]
OsCiphers(psk, lost) ==
    [OsPlain EXCEPT !.psk = psk, !.lost = lost,
        !.ciphers = <<OsCipher(1, TRUE, TRUE), OsCipher(2, TRUE, FALSE),
                      OsCipher(3, FALSE, FALSE), OsCipher(4, TRUE, FALSE)>>]
SomeOsConfigs == {
    [OsPlain EXCEPT !.maxBytes = 3, !.appStates = {"closed", "connected", "accepted"}],
    OsDgram(1, 4), OsDgram(3, 7), OsDgram(5, 2), OsDane(TRUE), OsDane(FALSE), OsResuming,
    OsCiphers(TRUE, {}), OsCiphers(FALSE, {2}), OsCiphers(FALSE, {4}) }

-----------------------------------------------------------------------------
(* tinyDTLS sockets, client chains and the socket API                       *)

TdPsk(identity) == [psk |-> <<1>>, identity |-> identity]
SomeTdKeys == {NoPsk, TdPsk(<<>>), TdPsk(<<2>>), TdPsk(<<2, 2, 2>>)}
TdFlight(kinds) == [i \in DOMAIN kinds |-> TdMessage(kinds[i], 1)]
SomeTdDatagrams == {<<>>, TdFlight(<<"step", "done", "finished">>),
                    TdFlight(<<"step", "step", "done", "finished">>),
                    TdFlight(<<"step", "refused">>)}

AllGraphs == [ChainCerts -> ChainCerts]
SomeChains == {<<1>>, <<1, 2>>, <<2, 1>>, <<1, 1>>, <<1, 2, 3>>}

SomeTlsaArrays == UNION {[1 .. n -> {<<>>, <<1>>, <<1, 2>>}] : n \in 0 .. 3}

-----------------------------------------------------------------------------
(* Mock sockets                                                             *)

SomeMkCommands == {
    Command("connect", "here", TRUE), Command("bind", "there", FALSE),
    Command("accept", NOARG, FALSE), Command("mid_close", NOARG, FALSE),
    Command("shutdown", NOARG, TRUE) }
SomeMkItems == {
    Item("in", <<1, 2>>, "ok", TRUE), Item("in", <<>>, "ok", FALSE),
    Item("out", <<1>>, "ok", TRUE), Item("out", <<>>, "fail", FALSE) }

-----------------------------------------------------------------------------
(* The union                                                                *)

Parts == {"streams", "netbuf", "http_body", "mbedtls", "openssl", "tinydtls", "chain", "net",
          "mocksock"}

ConnectionsInit ==
    /\ part \in Parts
    /\ part # "streams" => strm = CHOOSE s \in Outputs : TRUE
    /\ StmInit
    /\ part # "netbuf" => nb = NbCreate(CHOOSE i \in InSizes : TRUE, CHOOSE o \in OutSizes : TRUE)
    /\ NbInit
    /\ HbInit
    /\ IF part = "mbedtls" THEN MbInit ELSE MbStart([MbPlain(FALSE, TRUE) EXCEPT !.peers = {}])
    /\ IF part = "openssl" THEN OsInit ELSE OsStart([OsPlain EXCEPT !.peers = {}])
    /\ TdInit
    /\ ChInit
    /\ NetInit
    /\ part # "mocksock" => mk = Mock("stream")
    /\ MkInit

ConnectionsNext ==
    \/ /\ part = "streams" /\ StmNext
       /\ UNCHANGED <<part, nbVars, hbVars, mbVars, osVars, tdVars, chainCase, netVars,
                      mkVars>>
    \/ /\ part = "netbuf" /\ NbNext
       /\ UNCHANGED <<part, stmVars, hbVars, mbVars, osVars, tdVars, chainCase, netVars,
                      mkVars>>
    \/ /\ part = "http_body" /\ HbNext
       /\ UNCHANGED <<part, stmVars, nbVars, mbVars, osVars, tdVars, chainCase, netVars,
                      mkVars>>
    \/ /\ part = "mbedtls" /\ MbNext
       /\ UNCHANGED <<part, stmVars, nbVars, hbVars, osVars, tdVars, chainCase, netVars,
                      mkVars>>
    \/ /\ part = "openssl" /\ OsNext
       /\ UNCHANGED <<part, stmVars, nbVars, hbVars, mbVars, tdVars, chainCase, netVars,
                      mkVars>>
    \/ /\ part = "tinydtls" /\ TdNext
       /\ UNCHANGED <<part, stmVars, nbVars, hbVars, mbVars, osVars, chainCase, netVars,
                      mkVars>>
    \/ /\ part = "chain" /\ ChNext
       /\ UNCHANGED <<part, stmVars, nbVars, hbVars, mbVars, osVars, tdVars, netVars,
                      mkVars>>
    \/ /\ part = "net" /\ NetNext
       /\ UNCHANGED <<part, stmVars, nbVars, hbVars, mbVars, osVars, tdVars, chainCase,
                      mkVars>>
    \/ /\ part = "mocksock" /\ MkNext
       /\ UNCHANGED <<part, stmVars, nbVars, hbVars, mbVars, osVars, tdVars, chainCase, netVars>>

ConnectionsSpec ==
    ConnectionsInit /\ [][ConnectionsNext]_<<part, stmVars, nbVars, hbVars, mbVars,
                                            osVars, tdVars, chainCase, netVars, mkVars>>

=============================================================================
