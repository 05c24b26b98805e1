-------------------------- MODULE ClientCertChain --------------------------
(***************************************************************************)
(* How a client completes its own certificate chain from the trust store:  *)
(* rebuild_client_cert_chain() of the Mbed TLS socket, which inserts what  *)
(* the library's verification walks over until a cycle shows, and the one  *)
(* of the OpenSSL socket, which looks up one issuer at a time.  A          *)
(* certificate is a number; copies of one are equal.                       *)
(***************************************************************************)
EXTENDS Integers, Sequences, FiniteSets

CONSTANTS ChainCerts,    \* certificates
          IssuerGraphs,  \* functions from certificates to their issuers
          ConfiguredChains

VARIABLES chainCase    \* the issuers, the trust store, the configured chain

------------------------------------------------------------------------------
(* Mbed TLS                                                                 *)

\* external: mbedtls_x509_crt_verify() of a lone certificate.  It stops at
\* the first issuer it finds in the trust store; a self-signed certificate
\* that is in the trust store is its own root and adds nothing.
VerifiedChain(issuer, store, cert) ==
    IF issuer[cert] \in store /\ issuer[cert] # cert THEN <<cert, issuer[cert]>>
    ELSE <<cert>>

\* The callback is called from the topmost certificate down and inserts a
\* copy of each but the last right behind the last configured one.
RECURSIVE InsertVerified(_, _, _)
InsertVerified(walked, index, inserted) ==
    IF index = 1 THEN inserted
    ELSE InsertVerified(walked, index - 1, <<walked[index]>> \o inserted)

\* Whether the certificate at place i of the chain occurs before it.
CertMakesCycleAtNeighbour(chain, i) == chain[i] = chain[i - 1]

CertMakesCycleInChain(chain, i) == \E j \in 1 .. i - 1 : chain[j] = chain[i]

\* One round after another until nothing is added or a cycle is cut off.
RECURSIVE RebuildFrom(_, _, _)
RebuildFrom(issuer, store, chain) ==
    LET last == Len(chain)
        walked == VerifiedChain(issuer, store, chain[last])
        longer == chain \o InsertVerified(walked, Len(walked), <<>>)
        cycles == {i \in last + 1 .. Len(longer) : CertMakesCycleInChain(longer, i)}
        first == CHOOSE i \in cycles : \A j \in cycles : i <= j
    IN  IF Len(longer) = last \/ Len(chain) > 2 * Cardinality(ChainCerts)
        THEN chain
        ELSE IF cycles # {} THEN SubSeq(longer, 1, first - 1)
        ELSE RebuildFrom(issuer, store, longer)

MbedtlsRebuild(issuer, store, chain) ==
    RebuildFrom(issuer, store, chain)

------------------------------------------------------------------------------
(* OpenSSL                                                                  *)

\* external: X509_STORE_CTX_get1_issuer(), 0 for none.
Get1Issuer(issuer, store, cert) ==
    IF issuer[cert] \in store THEN issuer[cert] ELSE 0

CertIsInChain(chain, cert) == \E i \in DOMAIN chain : chain[i] = cert

\* first_cert is kept apart from the rest of the chain.
RECURSIVE OpensslRebuildFrom(_, _, _, _, _)
OpensslRebuildFrom(issuer, store, first_cert, rest, last_cert) ==
    LET next_cert == Get1Issuer(issuer, store, last_cert)
    IN  IF next_cert = 0 \/ Len(rest) > 2 * Cardinality(ChainCerts) THEN rest
        ELSE IF next_cert = first_cert \/ CertIsInChain(rest, next_cert) THEN rest
        ELSE OpensslRebuildFrom(issuer, store, first_cert,
                                Append(rest, next_cert), next_cert)

OpensslRebuild(issuer, store, chain) ==
    <<chain[1]>> \o OpensslRebuildFrom(issuer, store, chain[1], Tail(chain),
                                       chain[Len(chain)])

------------------------------------------------------------------------------
(* rebuild_client_cert_chain(), by both sockets                             *)

NoCase == [issuer |-> <<>>, store |-> {}, chain |-> <<>>, mbedtls |-> <<>>,
           openssl |-> <<>>, built |-> FALSE]

ChInit == chainCase = NoCase

RebuildClientCertChain(issuer, store, chain) ==
    chainCase' = [issuer |-> issuer, store |-> store, chain |-> chain,
                  mbedtls |-> MbedtlsRebuild(issuer, store, chain),
                  openssl |-> OpensslRebuild(issuer, store, chain), built |-> TRUE]

\* The next socket
ChAnother == chainCase.built /\ chainCase' = NoCase

ChNext ==
    \/ /\ ~chainCase.built
       /\ \E issuer \in IssuerGraphs, store \in SUBSET ChainCerts, chain \in ConfiguredChains :
             RebuildClientCertChain(issuer, store, chain)
    \/ ChAnother

------------------------------------------------------------------------------
(* Properties                                                               *)

\* What the application configured is kept as it was.
KeepsConfigured(c, chain) == SubSeq(chain, 1, Len(c.chain)) = c.chain

\* Every certificate added was issued to the one before it by the trust
\* store and is in the chain once.
AddsIssuers(c, chain) ==
    \A i \in Len(c.chain) + 1 .. Len(chain) :
        /\ chain[i] = c.issuer[chain[i - 1]] /\ chain[i] \in c.store
        /\ \A j \in 1 .. i - 1 : chain[j] # chain[i]

\* Nothing is missing: the last certificate has no issuer in the store that
\* is not in the chain yet.
GoesToTheEnd(c, chain) ==
    LET next == c.issuer[chain[Len(chain)]]
    IN  next \in c.store => \E i \in DOMAIN chain : chain[i] = next

\* For every way certificates can issue each other, self-signed and
\* cross-signed cycles included, rebuild_client_cert_chain() ends with the
\* longest chain without repetition that extends the configured one.
RebuildIsMaximal ==
    chainCase.built =>
        \A chain \in {chainCase.mbedtls, chainCase.openssl} :
            /\ KeepsConfigured(chainCase, chain)
            /\ AddsIssuers(chainCase, chain)
            /\ GoesToTheEnd(chainCase, chain)
==============================================================================
