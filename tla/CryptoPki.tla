----------------------------- MODULE CryptoPki -----------------------------
(***************************************************************************)
(* The PKI operations built on the loaders, in both implementations:       *)
(* generating an EC key, creating a certificate signing request, reading   *)
(* the expiration date of a certificate, and parsing a PKCS#7 "certs-only" *)
(* message (avs_openssl_pki.c, avs_mbedtls_pki.c).                         *)
(*                                                                         *)
(* A call of the cryptographic library either succeeds or is the one that  *)
(* the environment makes fail ("fail" below).  held is the set of library  *)
(* objects that exist when the function returns; output is the buffer of   *)
(* the caller, where STALE marks what was there before.                    *)
(***************************************************************************)
EXTENDS CryptoLoader

CONSTANTS DerData,       \* the DER data that a key or a request encodes to
          PkiSizes,      \* sizes of the output buffers
          Messages,      \* PKCS#7 messages: [signed, data, signers, certs, crls]
          Forms,         \* which levels of a message have indefinite length
          Damages        \* changes of one cell, see Damaged

STALE == -1
WIPED == 0

PkiCall(size) == [err |-> "OK", held |-> {}, size |-> size,
                  output |-> [i \in 1..size |-> STALE]]

Keep(call, object) == [call EXCEPT !.held = @ \cup {object}]
LetGo(call, objects) == [call EXCEPT !.held = @ \ objects]

------------------------------------------------------------------------------
(* DER output                                                               *)

\* Mbed TLS writes DER data at the end of the buffer.
MoveDerDataToStart(buffer, data_size) ==
    [i \in DOMAIN buffer |->
        IF i <= data_size THEN buffer[Len(buffer) - data_size + i] ELSE WIPED]

WriteDerAtEnd(buffer, data) ==
    [i \in DOMAIN buffer |->
        IF i > Len(buffer) - Len(data) THEN data[i - (Len(buffer) - Len(data))] ELSE buffer[i]]

\* The library writes backwards, the outermost tag last: when it fails, or the
\* buffer ends, the last cells of the data, done of them, are in the buffer
\* and stay there.
MbWriteDer(call, fail, done) ==
    IF fail = "write" \/ Len(DerData) > call.size
    THEN LET n == IF done > call.size THEN call.size ELSE done
         IN  Fail([call EXCEPT !.output = WriteDerAtEnd(@,
                       SubSeq(DerData, Len(DerData) - n + 1, Len(DerData)))], "EPROTO")
    ELSE [call EXCEPT !.size = Len(DerData),
              !.output = MoveDerDataToStart(WriteDerAtEnd(@, DerData), Len(DerData))]

\* OpenSSL is asked for the size first; the size is returned also when the
\* buffer is too small for it.
OsWriteDer(call, fail) ==
    IF fail = "write" THEN Fail(call, "EPROTO")
    ELSE IF Len(DerData) > call.size THEN Fail([call EXCEPT !.size = Len(DerData)], "E2BIG")
    ELSE [call EXCEPT !.size = Len(DerData),
              !.output = [i \in DOMAIN @ |-> IF i <= Len(DerData) THEN DerData[i] ELSE @[i]]]

------------------------------------------------------------------------------
(* avs_crypto_pki_ec_gen                                                    *)

MbEcGen(fail, size, done) ==
    LET call == PkiCall(size)
        made == Keep(call, "pk")
        result == IF fail = "generate" THEN Fail(made, "EPROTO")
                  ELSE MbWriteDer(made, fail, done)
    IN  CASE fail = "global" -> Fail(call, "UNKNOWN")
          [] fail \in {"prng", "oid"} -> Fail(call, "EINVAL")
          [] fail = "group" -> Fail(call, "ENOTSUP")
          [] fail = "new" -> Fail(call, "ENOMEM")
          [] fail \notin {"global", "prng", "oid", "group", "new"} -> LetGo(result, {"pk"})

OsEcGen(fail, size) ==
    LET call == PkiCall(size)
        group == Keep(call, "group")
        key == Keep(group, "key")
        done == IF fail = "new" THEN Fail(group, "ENOMEM")
                ELSE IF fail = "generate" THEN LetGo(Fail(key, "EPROTO"), {"key"})
                ELSE LetGo(OsWriteDer(key, fail), {"key"})
    IN  CASE fail = "global" -> Fail(call, "UNKNOWN")
          [] fail = "prng" -> Fail(call, "EINVAL")
          [] fail \in {"oid", "group"} -> Fail(call, "ENOTSUP")
          [] fail \notin {"global", "prng", "oid", "group"} -> LetGo(done, {"group"})

------------------------------------------------------------------------------
(* avs_crypto_pki_csr_create.  The subject is converted entry by entry:     *)
(* "oid" is an entry whose name is no OID, "entry" one without memory.      *)

MbConvertSubject(call, fail) ==
    CASE fail = "oid" -> Fail(Keep(call, "subject"), "EINVAL")
      [] fail = "entry" -> Fail(Keep(call, "subject"), "ENOMEM")
      [] fail \notin {"oid", "entry"} -> Keep(call, "subject")

MbCsrCreate(fail, key_info, size, done) ==
    LET call == PkiCall(size)
        \* the request owns the subject, also a half converted one
        subject == MbConvertSubject(Keep(call, "csr"), fail)
        loaded == MbLoadPrivateKey(key_info, MbStart(0))
        key == IF loaded.present THEN Keep(subject, "key") ELSE subject
        result == IF subject.err # "OK" THEN subject
                  ELSE IF loaded.err # "OK" THEN Fail(key, loaded.err)
                  ELSE MbWriteDer(key, fail, done)
    IN  CASE fail = "global" -> Fail(call, "UNKNOWN")
          [] fail = "digest" -> Fail(call, "ENOTSUP")
          [] fail \notin {"global", "digest"} -> LetGo(result, {"key", "csr", "subject"})

OsConvertSubject(call, fail) ==
    CASE fail = "new" -> Fail(call, "ENOMEM")
      [] fail = "oid" -> Fail(LetGo(Keep(call, "name"), {"name"}), "ENOTSUP")
      [] fail = "entry" -> Fail(LetGo(Keep(call, "name"), {"name"}), "ENOMEM")
      [] fail \notin {"new", "oid", "entry"} -> Keep(call, "name")

OsSign(call, fail) ==
    CASE fail = "context" -> Fail(call, "ENOMEM")
      [] fail = "digest" -> Fail(call, "ENOTSUP")
      [] fail = "sign" -> Fail(call, "EPROTO")
      [] fail \notin {"context", "digest", "sign"} -> call

\* key is the reference that the loader left, if any; assert(key) after a
\* loader that succeeded, which an engine without such a key does as well.
OsCsrCreate(fail, key_info, size) ==
    LET call == PkiCall(size)
        converted == OsConvertSubject(Keep(call, "req"), fail)
        subject == IF converted.err # "OK" THEN converted
                   ELSE LetGo(IF fail = "set" THEN Fail(converted, "EPROTO") ELSE converted,
                             {"name"})
        loaded == OsLoadPrivateKey(key_info, Start(0))
        key == IF subject.err # "OK" THEN subject
               ELSE LET taken == IF loaded.out # <<>> THEN Keep(subject, "key") ELSE subject
                    IN  IF loaded.err # "OK" THEN Fail(taken, loaded.err)
                        ELSE IF loaded.out = <<>> THEN Fail(taken, "ABORT")
                        ELSE IF fail = "pubkey" THEN Fail(taken, "EPROTO") ELSE taken
        signed == IF key.err # "OK" THEN key ELSE OsSign(key, fail)
        done == IF signed.err # "OK" THEN signed ELSE OsWriteDer(signed, fail)
    IN  CASE fail = "global" -> Fail(call, "UNKNOWN")
          [] fail = "request" -> Fail(call, "ENOMEM")
          [] fail \notin {"global", "request"} -> LetGo(done, {"key", "req"})

------------------------------------------------------------------------------
(* avs_crypto_certificate_expiration_date; the date of certificate c is c   *)

INVALID == -1
ABORT == -2      \* an assertion fails

MbExpirationDate(info, allocs) ==
    LET loaded == MbLoadCerts(info, MbStart(allocs))
    IN  CASE loaded.err # "OK" -> [date |-> INVALID, held |-> loaded.present]
          \* the chain is not released when it is empty
          [] loaded.err = "OK" /\ loaded.out = <<>> -> [date |-> INVALID, held |-> TRUE]
          [] loaded.err = "OK" /\ loaded.out # <<>> ->
                [date |-> loaded.out[1], held |-> ChainCleanup(loaded).present]

\* assert(!cert) after an error, assert(cert) after a success
OsExpirationDate(info, allocs) ==
    LET Loaded(load) ==
            CASE (load.err # "OK") # (load.out = <<>>) -> [date |-> ABORT, held |-> FALSE]
              [] load.err # "OK" /\ load.out = <<>> -> [date |-> INVALID, held |-> FALSE]
              [] load.err = "OK" /\ load.out # <<>> -> [date |-> load.out[1], held |-> FALSE]
    IN  Loaded(OsLoadFirstClientCert(info, Start(allocs)))

------------------------------------------------------------------------------
(* PKCS#7, Mbed TLS: a parser of BER over a buffer of cells.  A cell is a   *)
(* tag, a length (INDEFINITE, or a number below it) or content; an object   *)
(* identifier with its tag and length is one cell.  A position is the       *)
(* number of cells before it.                                               *)

EOC == 0
INT == 2
SEQ == 48
SET == 49
INDEFINITE == 128
CERTIFICATES == 160
CRLS == 161
SIGNED_DATA_OID == 300
DATA_OID == 301
OTHER_OID == 302

Malformed(parse) == [parse EXCEPT !.err = "EPROTO"]

\* mbedtls_asn1_get_len: a number of cells that are there, or an error
GetLen(buf, p, end) ==
    IF p >= end \/ buf[p + 1] >= INDEFINITE \/ buf[p + 1] > end - (p + 1)
    THEN [ok |-> FALSE, p |-> p, len |-> 0]
    ELSE [ok |-> TRUE, p |-> p + 1, len |-> buf[p + 1]]

\* get_ber_tag: like mbedtls_asn1_get_tag, with -1 for an indefinite length
GetBerTag(buf, p, end, tag) ==
    LET len == GetLen(buf, p + 1, end)
    IN  IF p >= end \/ buf[p + 1] # tag THEN [ok |-> FALSE, p |-> p, len |-> 0]
        ELSE IF ~len.ok /\ p + 1 < end /\ buf[p + 2] = INDEFINITE
        THEN [ok |-> TRUE, p |-> p + 2, len |-> -1]
        ELSE len

\* The end of contents that an indefinite length needs
GetEoc(buf, p, end) ==
    LET eoc == GetBerTag(buf, p, end, EOC) IN [eoc EXCEPT !.ok = @ /\ eoc.len = 0]

\* pkcs7_inner_content_info_verify
InnerContentInfoVerify(buf, parse, end) ==
    LET tag == GetBerTag(buf, parse.p, end, SEQ)
        eoc == GetEoc(buf, tag.p + 1, end)
    IN  IF ~tag.ok \/ (tag.len >= 0 /\ tag.len # 1) \/ tag.p + 1 > end
           \/ buf[tag.p + 1] # DATA_OID
        THEN Malformed(parse)
        ELSE IF tag.len >= 0 THEN [parse EXCEPT !.p = tag.p + 1]
        ELSE IF eoc.ok THEN [parse EXCEPT !.p = eoc.p] ELSE Malformed(parse)

\* pkcs7_x509_set_parse: copies the elements of the set to a list
RECURSIVE X509SetParse(_, _, _, _, _)
X509SetParse(buf, parse, end, set_len, list) ==
    LET len == GetLen(buf, parse.p + 1, end)
    IN  IF parse.p >= end \/ (set_len < 0 /\ buf[parse.p + 1] = EOC) THEN parse
        ELSE IF ~len.ok THEN Malformed(parse)
        ELSE IF AllocFails(parse) THEN Fail(parse, "ENOMEM")
        ELSE X509SetParse(buf,
                 [Allocated(parse) EXCEPT
                     !.p = len.p + len.len,
                     ![list] = Append(@, SubSeq(buf, parse.p + 1, len.p + len.len))],
                 end, set_len, list)

\* The optional [0] certificates and [1] crls
OptionalSet(buf, parse, end, tag, list) ==
    LET header == GetBerTag(buf, parse.p, end, tag)
        set_end == IF header.len >= 0 THEN header.p + header.len ELSE end
        set == X509SetParse(buf, [parse EXCEPT !.p = header.p], set_end, header.len, list)
        eoc == GetEoc(buf, set.p, end)
    IN  IF parse.p >= end \/ buf[parse.p + 1] # tag THEN parse
        ELSE IF ~header.ok THEN Malformed(parse)
        ELSE IF set.err # "OK" THEN set
        ELSE IF header.len >= 0
        THEN IF set.p = set_end THEN set ELSE Malformed(set)
        ELSE IF eoc.ok THEN [set EXCEPT !.p = eoc.p] ELSE Malformed(set)

\* digestAlgorithms are skipped; without a length they must be empty.
SkipDigestAlgorithms(buf, parse, end) ==
    LET tag == GetBerTag(buf, parse.p, end, SET)
        eoc == GetEoc(buf, tag.p, end)
    IN  IF ~tag.ok THEN Malformed(parse)
        ELSE IF tag.len >= 0 THEN [parse EXCEPT !.p = tag.p + tag.len]
        ELSE IF eoc.ok THEN [parse EXCEPT !.p = eoc.p] ELSE Malformed(parse)

SignerInfosMustBeEmpty(buf, parse, end) ==
    LET tag == GetBerTag(buf, parse.p, end, SET)
        eoc == GetEoc(buf, tag.p, end)
    IN  IF ~tag.ok \/ tag.len > 0 THEN Malformed(parse)
        ELSE IF tag.len = 0 THEN [parse EXCEPT !.p = tag.p]
        ELSE IF eoc.ok THEN [parse EXCEPT !.p = eoc.p] ELSE Malformed(parse)

\* What follows the contents of a level whose length was len
CloseLevel(buf, parse, end, len) ==
    LET eoc == GetEoc(buf, parse.p, end)
    IN  IF parse.err # "OK" \/ len >= 0 THEN parse
        ELSE IF eoc.ok THEN [parse EXCEPT !.p = eoc.p] ELSE Malformed(parse)

\* pkcs7_signed_data_parse: version, digest algorithms, content info, certificates,
\* CRLs, signers; the first part that is wrong ends it.
SignedDataParse(buf, parse, end) ==
    LET tag == GetBerTag(buf, parse.p, end, SEQ)
        version == GetBerTag(buf, tag.p, end, INT)
        start == [parse EXCEPT !.p = version.p + version.len]
        digests == SkipDigestAlgorithms(buf, start, end)
        inner == InnerContentInfoVerify(buf, digests, end)
        certs == OptionalSet(buf, inner, end, CERTIFICATES, "certs")
        crls == OptionalSet(buf, certs, end, CRLS, "crls")
        signers == SignerInfosMustBeEmpty(buf, crls, end)
    IN  CASE \/ ~tag.ok \/ (tag.len >= 0 /\ tag.len # end - tag.p)
             \/ ~version.ok \/ version.len # 1 \/ buf[version.p + 1] # 1 -> Malformed(parse)
          [] OTHER ->
                IF digests.err # "OK" THEN digests
                ELSE IF inner.err # "OK" THEN inner
                ELSE IF certs.err # "OK" THEN certs
                ELSE IF crls.err # "OK" THEN crls
                ELSE CloseLevel(buf, signers, end, tag.len)

\* pkcs7_content_info_parse
ContentInfoParse(buf, parse) ==
    LET end == Len(buf)
        tag == GetBerTag(buf, parse.p, end, SEQ)
        content == GetBerTag(buf, tag.p + 1, end, CERTIFICATES)
        data == SignedDataParse(buf, [parse EXCEPT !.p = content.p], end)
        Closed(closed) ==
            IF closed.err = "OK" /\ closed.p # end THEN Malformed(closed) ELSE closed
    IN  IF ~tag.ok \/ (tag.len >= 0 /\ tag.len # end - tag.p) THEN Malformed(parse)
        ELSE IF tag.len = 0 \/ tag.p + 1 > end \/ buf[tag.p + 1] # SIGNED_DATA_OID
        THEN Malformed(parse)
        ELSE IF ~content.ok \/ (content.len >= 0 /\ content.len # end - content.p)
        THEN Malformed(parse)
        ELSE Closed(CloseLevel(buf, CloseLevel(buf, data, end, content.len), end, tag.len))

\* Mutant: what was copied before the error is kept.
MbParsePkcs7Keeping(buf, allocs) ==
    ContentInfoParse(buf, [err |-> "OK", p |-> 0, certs |-> <<>>, crls |-> <<>>,
                           allocs |-> allocs])

\* avs_crypto_parse_pkcs7_certs_only
MbParsePkcs7(buf, allocs) ==
    LET Cleared(parse) ==
            IF parse.err = "OK" THEN parse ELSE [parse EXCEPT !.certs = <<>>, !.crls = <<>>]
    IN  Cleared(ContentInfoParse(buf, [err |-> "OK", p |-> 0, certs |-> <<>>, crls |-> <<>>,
                                       allocs |-> allocs]))

------------------------------------------------------------------------------
(* PKCS#7, OpenSSL: the library decodes the message, the code examines it   *)

\* copy_cert and copy_crl: one element of the list for each
RECURSIVE CopyAll(_, _, _)
CopyAll(parse, objects, list) ==
    IF objects = <<>> \/ parse.err \notin {"OK", "none"} THEN parse
    ELSE IF AllocFails(parse) THEN Fail(parse, "ENOMEM")
    ELSE CopyAll([Allocated(parse) EXCEPT !.err = "OK", ![list] = Append(@, Head(objects))],
                 Tail(objects), list)

\* err starts as AVS_EPROTO ("none" here) and becomes AVS_OK with the first copy: a
\* message with neither certificates nor CRLs is an error.
OsParsePkcs7(message, decodes, allocs) ==
    LET empty == [err |-> "none", certs |-> <<>>, crls |-> <<>>, allocs |-> allocs]
        copied == CopyAll(CopyAll(empty, message.certs, "certs"), message.crls, "crls")
        parse == IF ~decodes \/ ~message.signed \/ message.signers \/ ~message.data
                 THEN Fail(empty, "EPROTO")
                 ELSE IF copied.err = "none" THEN Fail(copied, "EPROTO") ELSE copied
    IN  IF parse.err = "OK" THEN parse ELSE [parse EXCEPT !.certs = <<>>, !.crls = <<>>]

------------------------------------------------------------------------------
(* The encoding that a message has (external: the sender's)                 *)

Levels == {"info", "content", "data", "digests", "inner", "certs", "crls", "signers"}

Wrap(tag, body, indefinite) ==
    IF indefinite THEN <<tag, INDEFINITE>> \o body \o <<EOC, EOC>>
    ELSE <<tag, Len(body)>> \o body

Encode(message, form) ==
    LET digests == Wrap(SET, message.digests, "digests" \in form)
        inner == Wrap(SEQ, <<IF message.data THEN DATA_OID ELSE OTHER_OID>>, "inner" \in form)
        certs == IF message.certs = <<>> THEN <<>>
                 ELSE Wrap(CERTIFICATES, FlattenSeq(message.certs), "certs" \in form)
        crls == IF message.crls = <<>> THEN <<>>
                ELSE Wrap(CRLS, FlattenSeq(message.crls), "crls" \in form)
        signers == Wrap(SET, IF message.signers THEN <<7>> ELSE <<>>, "signers" \in form)
        data == Wrap(SEQ, <<INT, 1, 1>> \o digests \o inner \o certs \o crls \o signers,
                     "data" \in form)
    IN  Wrap(SEQ, <<IF message.signed THEN SIGNED_DATA_OID ELSE OTHER_OID>>
                      \o Wrap(CERTIFICATES, data, "content" \in form),
             "info" \in form)

\* One cell is replaced, removed with all that follow it, or added at the end.
Damaged(buf, damage) ==
    CASE damage.kind = "none" -> buf
      [] damage.kind = "cell" ->
            [i \in DOMAIN buf |-> IF i = damage.at THEN damage.cell ELSE buf[i]]
      [] damage.kind = "cut" ->
            SubSeq(buf, 1, IF damage.at > Len(buf) THEN Len(buf) ELSE damage.at)
      [] damage.kind = "more" -> Append(buf, damage.cell)

------------------------------------------------------------------------------
(* The state machine                                                        *)

VARIABLE pki    \* the call made last

Idle == [of |-> "none"]

PkiInit == pki = Idle

PkiFails == {"none", "global", "prng", "oid", "group", "new", "generate", "write", "entry",
             "digest", "set", "pubkey", "context", "sign", "request"}

EcGen ==
    /\ pki = Idle
    /\ \E fail \in PkiFails, size \in PkiSizes, done \in 0..(Len(DerData) - 1) :
        pki' = [of |-> "ec_gen", fail |-> fail, mb |-> MbEcGen(fail, size, done),
                os |-> OsEcGen(fail, size)]

CsrCreate ==
    /\ pki = Idle
    /\ \E fail \in PkiFails, info \in LdKeyInfos, size \in PkiSizes,
          done \in 0..(Len(DerData) - 1) :
        pki' = [of |-> "csr", fail |-> fail, mb |-> MbCsrCreate(fail, info, size, done),
                os |-> OsCsrCreate(fail, info, size)]

ExpirationDate ==
    /\ pki = Idle
    /\ \E info \in LdCertInfos, allocs \in 0..LdMaxAllocs :
        pki' = [of |-> "expiration", info |-> info, mb |-> MbExpirationDate(info, allocs),
                os |-> OsExpirationDate(info, allocs)]

ParsePkcs7 ==
    /\ pki = Idle
    /\ \E message \in Messages, form \in Forms, damage \in Damages, allocs \in 0..LdMaxAllocs :
        /\ allocs = 0 \/ damage.kind = "none"
        /\ "digests" \in form => message.digests = <<>>
        /\ LET buf == Damaged(Encode(message, form), damage)
           IN  pki' = [of |-> "pkcs7", message |-> message, form |-> form, damage |-> damage,
                       buf |-> buf, mb |-> MbParsePkcs7(buf, allocs),
                       os |-> OsParsePkcs7(message, damage.kind = "none", allocs)]

PkiReturn == pki # Idle /\ pki' = Idle

PkiNext == EcGen \/ CsrCreate \/ ExpirationDate \/ ParsePkcs7 \/ PkiReturn

------------------------------------------------------------------------------
(* Properties                                                               *)

\* A key or a request that was generated is at the start of the buffer and has the
\* size returned; with Mbed TLS, which wrote it at the end first, no second copy of
\* any part of it is left behind.
DerAtStart ==
    pki.of \in {"ec_gen", "csr"} =>
        /\ pki.mb.err = "OK" =>
               /\ pki.mb.size = Len(DerData)
               /\ pki.mb.output = DerData \o [i \in 1..(Len(pki.mb.output) - pki.mb.size) |-> WIPED]
        /\ pki.os.err = "OK" => SubSeq(pki.os.output, 1, pki.os.size) = DerData

\* Whichever call of the library fails, key generation and request creation return with
\* every object released and the size of the buffer as it was (OpenSSL: or the size that
\* would be enough).  OpenSSL has then written nothing; Mbed TLS has written some cells at
\* the end of the buffer, never the whole of the data.  (An engine without the key makes
\* OsCsrCreate fail an assertion.)
PkiReleasesAll ==
    pki.of \in {"ec_gen", "csr"} =>
        LET written == { i \in DOMAIN pki.mb.output : pki.mb.output[i] # STALE }
        IN  /\ pki.mb.held = {} /\ (pki.os.err # "ABORT" => pki.os.held = {})
            /\ pki.os.err # "OK" =>
                   /\ pki.os.output = [i \in DOMAIN pki.os.output |-> STALE]
                   /\ pki.os.size = IF pki.os.err = "E2BIG" THEN Len(DerData)
                                    ELSE Len(pki.os.output)
            /\ pki.mb.err # "OK" =>
                   /\ pki.mb.size = Len(pki.mb.output)
                   /\ Cardinality(written) < Len(DerData)
                   /\ \A i \in written : i..Len(pki.mb.output) \subseteq written

\* What the comment in move_der_data_to_start says the function is for: no stray
\* copies of a key are kept in the buffer.  When mbedtls_pk_write_key_der fails,
\* what it has written of the key stays there.
FailureLeavesNoKey ==
    pki.of = "ec_gen" /\ pki.mb.err # "OK" =>
        \A i \in DOMAIN pki.mb.output : pki.mb.output[i] \in {STALE, WIPED}

\* The expiration date is that of the first certificate that the info describes; a date
\* is only given for an info that was loaded to its end.  (OsExpirationDate is ABORT
\* for an empty info, and for one with an error after its first certificate.)
ExpirationIsOfTheFirst ==
    pki.of = "expiration" =>
        \A call \in {pki.mb, pki.os} :
            call.date \notin {INVALID, ABORT} => call.date = Described(pki.info)[1]

\* Definite lengths inside a level of indefinite length are refused: their end is
\* compared with the end of the whole buffer.
Supported(form) ==
    /\ "info" \in form => "content" \in form
    /\ "content" \in form => "data" \in form

CertsOnly(message) == message.signed /\ message.data /\ ~message.signers

\* The Mbed TLS parser reads what was encoded: for every choice of definite and
\* indefinite lengths that it supports, exactly the certificates and CRLs of the
\* message are returned, in order; other messages are refused.
Pkcs7RoundTrips ==
    pki.of = "pkcs7" /\ pki.damage.kind = "none" /\ pki.mb.allocs = 0 =>
        IF Supported(pki.form) /\ CertsOnly(pki.message)
        THEN pki.mb.err = "OK" /\ pki.mb.certs = pki.message.certs
                /\ pki.mb.crls = pki.message.crls
        ELSE pki.mb.err = "EPROTO"

\* Nothing else is accepted: a buffer that parses, after any change of one cell, is the
\* encoding of the certificates and CRLs returned, up to the lengths chosen, the skipped
\* digest algorithms and sets that are present but empty.
Pkcs7AcceptsOnlyEncodings ==
    pki.of = "pkcs7" /\ pki.mb.err = "OK" =>
        \E form \in SUBSET Levels, digests \in {<<>>} \cup { <<cell>> : cell \in Range(pki.buf) } :
            Encode([signed |-> TRUE, data |-> TRUE, signers |-> FALSE, digests |-> digests,
                    certs |-> pki.mb.certs, crls |-> pki.mb.crls], form) = pki.buf

\* After an error both lists are empty, whatever had been copied.
Pkcs7FailureHoldsNothing ==
    pki.of = "pkcs7" =>
        \A call \in {pki.mb, pki.os} :
            call.err # "OK" => call.certs = <<>> /\ call.crls = <<>>

\* The two implementations agree on every message with a certificate or a CRL.
Pkcs7Agree ==
    pki.of = "pkcs7" /\ pki.damage.kind = "none" /\ Supported(pki.form)
        /\ pki.message.certs \o pki.message.crls # <<>> =>
            /\ (pki.mb.err = "OK") = (pki.os.err = "OK")
            /\ pki.mb.certs = pki.os.certs /\ pki.mb.crls = pki.os.crls

\* Keys, requests, dates and PKCS #7 messages: what is returned is right, and
\* a failure returns nothing and holds nothing.
PkiCorrect ==
    /\ DerAtStart
    /\ PkiReleasesAll
    /\ ExpirationIsOfTheFirst
    /\ Pkcs7AcceptsOnlyEncodings
    /\ Pkcs7RoundTrips
    /\ Pkcs7FailureHoldsNothing
    /\ Pkcs7Agree

=============================================================================
