---------------------------- MODULE CryptoLoader ----------------------------
(***************************************************************************)
(* How credentials described by a security info (a tree of sources: files, *)
(* directories, buffers, engine queries, arrays and lists) become objects  *)
(* of the cryptographic library.  Two implementations: OpenSSL             *)
(* (avs_openssl_data_loader.c), where every object read is handed to a     *)
(* callback that may keep a reference to it, and Mbed TLS                  *)
(* (avs_mbedtls_data_loader.c), where objects are appended to a chain that *)
(* is released when anything fails.                                        *)
(*                                                                         *)
(* What a file or a buffer holds is data of the model:                     *)
(*   form   "pem" (items one after another), "der" (one item), "junk"      *)
(*   items  the objects of the wanted type; BAD is one that does not parse *)
(*   nul    the buffer ends with a null byte (files are read with one)     *)
(*   rest   something follows the DER-encoded object                       *)
(* An info is [source, given, contents, entries]: given says whether its   *)
(* pointer is set; contents is what the file, the buffer or the files of   *)
(* the directory hold, <<>> for one that cannot be opened.                 *)
(***************************************************************************)
EXTENDS Integers, Sequences, SequencesExt, FiniteSets

CONSTANTS LdCertInfos,    \* the certificate infos given to the loaders
          LdKeyInfos,     \* the private key infos given to the loaders
          LdMaxAllocs     \* which allocation fails, at most

BAD == 0
NoInfo == [source |-> "none", given |-> FALSE, contents |-> <<>>, entries |-> <<>>]

------------------------------------------------------------------------------
(* The state of a call: the error, what the caller holds afterwards, how    *)
(* many references exist, and how many allocations are left (0: no limit).  *)

Start(allocs) == [err |-> "OK", out |-> <<>>, refs |-> 0, allocs |-> allocs]

Fail(call, err) == [call EXCEPT !.err = err]

AllocFails(call) == call.allocs = 1

Allocated(call) == [call EXCEPT !.allocs = IF @ > 0 THEN @ - 1 ELSE 0]

Hold(call, object) == [call EXCEPT !.out = Append(@, object), !.refs = @ + 1]

\* avs_ossl_object_pem_read and avs_ossl_object_der_read return a reference
ObjectRead(call) == [call EXCEPT !.refs = @ + 1]

ObjectFree(call) == [call EXCEPT !.refs = @ - 1]

------------------------------------------------------------------------------
(* OpenSSL: the callbacks                                                   *)

LoadKeyCb(object, call) ==
    IF call.out # <<>> THEN Fail([call EXCEPT !.out = <<>>, !.refs = @ - 1], "EIO")
    ELSE IF AllocFails(call) THEN Fail(call, "ENOMEM")
    ELSE Hold(Allocated(call), object)

LoadFirstCert(object, call) ==
    IF call.out # <<>> THEN call
    ELSE IF AllocFails(call) THEN Fail(call, "ENOMEM")
    ELSE Hold(Allocated(call), object)

\* The store keeps a reference of its own; an object it has is not added again.
LoadSingleCertToStore(object, call) ==
    IF \E i \in DOMAIN call.out : call.out[i] = object THEN call
    ELSE IF AllocFails(call) THEN Fail(call, "ENOMEM")
    ELSE Hold(Allocated(call), object)

LoadCrlCb(object, call) ==
    IF AllocFails(call) THEN Fail(call, "ENOMEM")
    ELSE IF \E i \in DOMAIN call.out : call.out[i] = object THEN Allocated(call)
    ELSE Hold(Allocated(call), object)

\* load_cert of avs_openssl.c: the context takes the first certificate as its
\* own, the following ones as its chain.
LoadCert(object, call) ==
    IF AllocFails(call) THEN Fail(call, "EPROTO")
    ELSE Hold(Allocated(call), object)

Callback(cb, object, call) ==
    CASE cb = "key" -> LoadKeyCb(object, call)
      [] cb = "first" -> LoadFirstCert(object, call)
      [] cb = "store" -> LoadSingleCertToStore(object, call)
      [] cb = "crl" -> LoadCrlCb(object, call)
      [] cb = "chain" -> LoadCert(object, call)

------------------------------------------------------------------------------
(* OpenSSL: buffers and files                                               *)

\* Every object is read, given to the callback and released; the first object
\* that does not parse, or that the callback refuses, ends the loop.
RECURSIVE LoadPemItems(_, _, _)
\* Mutant: a block that does not parse ends the loop like the end of the data.
LoadPemItemsLenient(items, cb, call) ==
    IF items = <<>> \/ call.err # "OK" \/ Head(items) = BAD THEN call
    ELSE LoadPemItems(Tail(items), cb,
                      ObjectFree(Callback(cb, Head(items), ObjectRead(call))))

LoadPemItems(items, cb, call) ==
    IF items = <<>> \/ call.err # "OK" THEN call
    ELSE IF Head(items) = BAD THEN Fail(call, "EPROTO")
    ELSE LoadPemItems(Tail(items), cb,
                      ObjectFree(Callback(cb, Head(items), ObjectRead(call))))

\* EIO says that there is nothing like PEM in the buffer.
LoadPemObjects(content, cb, call) ==
    IF AllocFails(call) THEN Fail(call, "ENOMEM")
    ELSE IF content.form # "pem" \/ content.items = <<>> THEN Fail(Allocated(call), "EIO")
    ELSE LoadPemItems(content.items, cb, Allocated(call))

LoadDerObject(content, cb, call) ==
    IF content.form # "der" \/ content.items[1] = BAD THEN Fail(call, "EPROTO")
    ELSE ObjectFree(IF content.rest THEN Fail(ObjectRead(call), "EIO")
                    ELSE Callback(cb, content.items[1], ObjectRead(call)))

LoadPemOrDerObjects(content, cb, call) ==
    LET pem == LoadPemObjects(content, cb, call)
    IN  IF pem.err = "EIO" THEN LoadDerObject(content, cb, [pem EXCEPT !.err = "OK"]) ELSE pem

\* load_file_into_buffer: contents is <<>> when the file cannot be opened.
LoadFileIntoBuffer(contents, call) ==
    IF AllocFails(call) THEN Fail(call, "ENOMEM")
    ELSE IF contents = <<>> THEN Fail(Allocated(call), "EIO")
    ELSE Allocated(call)

LoadCertsFromFile(contents, cb, call) ==
    LET file == LoadFileIntoBuffer(contents, call)
    IN  IF file.err # "OK" THEN file ELSE LoadPemOrDerObjects(contents[1], cb, file)

\* X509_load_crl_file adds what it can parse, as PEM or else as one DER object;
\* what follows that object in the file does not matter.
LoadCrlFromFile(contents, call) ==
    LET loaded == LoadPemOrDerObjects([contents[1] EXCEPT !.rest = FALSE], "crl", call)
    IN  IF contents = <<>> \/ AllocFails(call) THEN Fail(call, "EPROTO")
        ELSE IF loaded.err = "OK" THEN loaded ELSE Fail(loaded, "EPROTO")

------------------------------------------------------------------------------
(* OpenSSL: infos                                                           *)

LoadKeyFromBuffer(content, call) == LoadPemOrDerObjects(content, "key", call)

LoadKeyFromFile(contents, call) ==
    LET file == LoadFileIntoBuffer(contents, call)
    IN  IF file.err # "OK" THEN file ELSE LoadKeyFromBuffer(contents[1], file)

\* The engine is not part of the repository; the loader returns AVS_OK whatever
\* key, or no key, the engine gives.
OsLoadPrivateKey(info, call) ==
    CASE info = NoInfo \/ info.source = "path" \/ ~info.given -> Fail(call, "EINVAL")
      [] info.source = "engine" /\ info.given ->
            IF info.contents = <<>> THEN call ELSE Hold(call, info.contents[1].items[1])
      [] info.source = "file" /\ info.given -> LoadKeyFromFile(info.contents, call)
      [] info.source = "buffer" /\ info.given -> LoadKeyFromBuffer(info.contents[1], call)

\* pass_cert_to_cb
PassCertToCb(info, cb, call) ==
    CASE info.source = "path" -> Fail(call, "ENOTSUP")
      [] info.source # "path" /\ ~info.given -> Fail(call, "EINVAL")
      [] info.source = "engine" /\ info.given ->
            IF info.contents = <<>> THEN Fail(call, "EPROTO")
            ELSE ObjectFree(Callback(cb, info.contents[1].items[1], ObjectRead(call)))
      [] info.source = "file" /\ info.given -> LoadCertsFromFile(info.contents, cb, call)
      [] info.source = "buffer" /\ info.given ->
            LoadPemOrDerObjects(info.contents[1], cb, call)

\* load_certs_to_store: a directory is only registered with the store, which
\* opens its files when it looks for an issuer.
LoadCertsToStore(info, call) ==
    IF info.source # "path" THEN PassCertToCb(info, "store", call)
    ELSE IF ~info.given THEN Fail(call, "EINVAL")
    ELSE IF AllocFails(call) THEN Fail(call, "EPROTO")
    ELSE Allocated(call)

LoadCrlLeaf(info, call) ==
    CASE info.source = "path" \/ ~info.given -> Fail(call, "EINVAL")
      [] info.source = "engine" /\ info.given ->
            IF info.contents = <<>> THEN Fail(call, "EPROTO")
            ELSE Hold(call, info.contents[1].items[1])
      [] info.source = "file" /\ info.given -> LoadCrlFromFile(info.contents, call)
      [] info.source = "buffer" /\ info.given ->
            LoadPemOrDerObjects(info.contents[1], "crl", call)

Leaf(info, cb, call) ==
    CASE cb = "store" -> LoadCertsToStore(info, call)
      [] cb = "crl" -> LoadCrlLeaf(info, call)
      [] cb \in {"first", "chain"} -> PassCertToCb(info, cb, call)

\* load_cert_tree, and the same recursion in _avs_crypto_openssl_load_crls
RECURSIVE LoadCertTree(_, _, _), LoadCertEntries(_, _, _)
LoadCertTree(info, cb, call) ==
    CASE info.source = "empty" -> call
      [] info.source \in {"array", "list"} -> LoadCertEntries(info.entries, cb, call)
      [] info.source \notin {"empty", "array", "list"} -> Leaf(info, cb, call)

LoadCertEntries(entries, cb, call) ==
    IF entries = <<>> \/ call.err # "OK" THEN call
    ELSE LoadCertEntries(Tail(entries), cb, LoadCertTree(Head(entries), cb, call))

OsLoadTree(info, cb, call) ==
    IF info = NoInfo THEN Fail(call, "EINVAL") ELSE LoadCertTree(info, cb, call)

OsLoadClientCerts(info, call) == OsLoadTree(info, "chain", call)

OsLoadFirstClientCert(info, call) == OsLoadTree(info, "first", call)

OsLoadCaCerts(info, call) == OsLoadTree(info, "store", call)

OsLoadCrls(info, call) == OsLoadTree(info, "crl", call)

------------------------------------------------------------------------------
(* Mbed TLS: present says whether the output pointer is set                 *)

MbStart(allocs) == [err |-> "OK", present |-> FALSE, out |-> <<>>, allocs |-> allocs]

\* mbedtls_x509_crt_parse and its relatives append what they can parse and
\* return how many objects they could not; PEM data must end with a null byte.
Parse(content, nul) ==
    LET readable == content.form = "der" \/ (content.form = "pem" /\ nul)
        good == SelectSeq(content.items, LAMBDA item : item # BAD)
    IN  [objects |-> IF readable THEN good ELSE <<>>,
         failed |-> IF ~readable \/ good = <<>> THEN -1 ELSE Len(content.items) - Len(good)]

Appended(call, parsed) ==
    IF AllocFails(call) THEN Fail(call, "EPROTO")
    ELSE [Allocated(call) EXCEPT !.out = @ \o parsed.objects,
                                 !.err = IF parsed.failed # 0 THEN "EPROTO" ELSE "OK"]

AppendFromBuffer(content, call) == Appended(call, Parse(content, content.nul))

AppendFromFile(contents, call) ==
    IF contents = <<>> THEN Fail(call, "EPROTO") ELSE Appended(call, Parse(contents[1], TRUE))

\* Files of a directory that do not parse are passed over while one does.
AppendCaFromPath(contents, call) ==
    IF AllocFails(call) THEN Fail(call, "EPROTO")
    ELSE [Allocated(call) EXCEPT
             !.out = @ \o FlattenSeq([i \in DOMAIN contents |-> Parse(contents[i], TRUE).objects]),
             !.err = IF \A i \in DOMAIN contents : Parse(contents[i], TRUE).failed < 0
                     THEN "EPROTO" ELSE "OK"]

\* The leaves of append_certs and append_crls; there are no CRL directories.
AppendLeaf(info, crl, call) ==
    CASE ~info.given \/ (crl /\ info.source = "path") -> Fail(call, "EINVAL")
      [] info.source = "engine" /\ info.given ->
            IF info.contents = <<>> THEN Fail(call, "EPROTO")
            ELSE [call EXCEPT !.out = Append(@, info.contents[1].items[1])]
      [] info.source = "file" /\ info.given -> AppendFromFile(info.contents, call)
      [] info.source = "path" /\ info.given /\ ~crl -> AppendCaFromPath(info.contents, call)
      [] info.source = "buffer" /\ info.given -> AppendFromBuffer(info.contents[1], call)

RECURSIVE AppendTree(_, _, _), AppendEntries(_, _, _)
AppendTree(info, crl, call) ==
    CASE info.source = "empty" -> call
      [] info.source \in {"array", "list"} -> AppendEntries(info.entries, crl, call)
      [] info.source \notin {"empty", "array", "list"} -> AppendLeaf(info, crl, call)

AppendEntries(entries, crl, call) ==
    IF entries = <<>> \/ call.err # "OK" THEN call
    ELSE AppendEntries(Tail(entries), crl, AppendTree(Head(entries), crl, call))

\* _avs_crypto_mbedtls_x509_crt_cleanup and its relatives
ChainCleanup(call) == [call EXCEPT !.present = FALSE, !.out = <<>>]

\* _avs_crypto_mbedtls_load_certs and _avs_crypto_mbedtls_load_crls
MbLoad(info, crl, call) ==
    LET done == AppendTree(info, crl, [Allocated(call) EXCEPT !.present = TRUE])
    IN  IF info = NoInfo THEN Fail(call, "EINVAL")
        ELSE IF AllocFails(call) THEN Fail(call, "ENOMEM")
        ELSE IF done.err # "OK" THEN ChainCleanup(done) ELSE done

MbLoadCerts(info, call) == MbLoad(info, FALSE, call)

MbLoadCrls(info, call) == MbLoad(info, TRUE, call)

\* mbedtls_pk_parse_key takes the first key of the buffer.
ParseKey(content, nul) ==
    content.form # "junk" /\ content.items[1] # BAD /\ (content.form = "pem" => nul)

\* A buffer without a null byte at its end is copied to one that has it.
MbKeyFromBuffer(content, call) ==
    IF ParseKey(content, content.nul) THEN [call EXCEPT !.out = <<content.items[1]>>]
    ELSE IF content.nul THEN Fail(call, "EPROTO")
    ELSE IF AllocFails(call) THEN Fail(call, "ENOMEM")
    ELSE IF ParseKey(content, TRUE) THEN [Allocated(call) EXCEPT !.out = <<content.items[1]>>]
    ELSE Fail(Allocated(call), "EPROTO")

MbKeyFromFile(contents, call) ==
    IF contents = <<>> \/ ~ParseKey(contents[1], TRUE) THEN Fail(call, "EPROTO")
    ELSE [call EXCEPT !.out = <<contents[1].items[1]>>]

\* An engine source without a query returns before the release of the context.
MbLoadPrivateKey(info, call) ==
    LET new == [Allocated(call) EXCEPT !.present = TRUE]
        done == CASE info.source = "path" \/ ~info.given -> Fail(new, "EINVAL")
                  [] info.source = "engine" /\ info.given ->
                        IF info.contents = <<>> THEN Fail(new, "EPROTO")
                        ELSE [new EXCEPT !.out = <<info.contents[1].items[1]>>]
                  [] info.source = "file" /\ info.given -> MbKeyFromFile(info.contents, new)
                  [] info.source = "buffer" /\ info.given ->
                        MbKeyFromBuffer(info.contents[1], new)
    IN  IF info = NoInfo THEN Fail(call, "EINVAL")
        ELSE IF AllocFails(call) THEN Fail(call, "ENOMEM")
        ELSE IF info.source = "engine" /\ ~info.given THEN Fail(new, "EINVAL")
        ELSE IF done.err # "OK" THEN ChainCleanup(done) ELSE done

------------------------------------------------------------------------------
(* The state machine: one load after another                                *)

VARIABLE loads    \* the load made last: [of, info, os, mb]

Unloaded == [of |-> "none", info |-> NoInfo, os |-> Start(0), mb |-> MbStart(0)]

LdInit == loads = Unloaded

LoadCerts(of) ==
    /\ loads = Unloaded
    /\ \E info \in LdCertInfos \cup {NoInfo}, allocs \in 0..LdMaxAllocs :
        loads' = [of |-> of, info |-> info,
                  os |-> CASE of = "chain" -> OsLoadClientCerts(info, Start(allocs))
                           [] of = "first" -> OsLoadFirstClientCert(info, Start(allocs))
                           [] of = "store" -> OsLoadCaCerts(info, Start(allocs))
                           [] of = "crl" -> OsLoadCrls(info, Start(allocs)),
                  mb |-> IF of = "crl" THEN MbLoadCrls(info, MbStart(allocs))
                         ELSE MbLoadCerts(info, MbStart(allocs))]

LoadPrivateKey ==
    /\ loads = Unloaded
    /\ \E info \in LdKeyInfos \cup {NoInfo}, allocs \in 0..LdMaxAllocs :
        loads' = [of |-> "key", info |-> info,
                  os |-> OsLoadPrivateKey(info, Start(allocs)),
                  mb |-> MbLoadPrivateKey(info, MbStart(allocs))]

\* The caller is done with what it has.
Release == loads # Unloaded /\ loads' = Unloaded

LdNext ==
    \/ \E of \in {"chain", "first", "store", "crl"} : LoadCerts(of)
    \/ LoadPrivateKey
    \/ Release

------------------------------------------------------------------------------
(* Properties                                                               *)

RECURSIVE Leaves(_)
Leaves(info) ==
    IF info.source \in {"array", "list"}
    THEN FlattenSeq([i \in DOMAIN info.entries |-> Leaves(info.entries[i])])
    ELSE IF info.source = "empty" THEN <<>> ELSE <<info>>

Contents(info) == FlattenSeq([i \in DOMAIN Leaves(info) |-> Leaves(info)[i].contents])

Described(info) ==
    FlattenSeq([i \in DOMAIN Contents(info) |->
        SelectSeq(Contents(info)[i].items, LAMBDA item : item # BAD)])

\* Every reference that OpenSSL's objects have after a load belongs to the store,
\* the context or the variable of the caller: each object read is released on every
\* path, and the second of two private keys takes the first one with it.
LoadersKeepNoReference == loads.os.refs = Len(loads.os.out)

\* A load that reports success has loaded every object that the info describes, in
\* order, and found none that it could not read: nothing after an error in a nested
\* array is passed over in silence.  The
\* exceptions are explicit: only the first certificate is wanted, a store keeps one of
\* equal objects and opens directories later, unreadable files of a directory may be
\* skipped, and Mbed TLS takes the first key of a file.
SuccessIsWhole ==
    /\ "OK" \in {loads.os.err, loads.mb.err} /\ loads.of \in {"chain", "store", "crl"} =>
           \A i \in DOMAIN Leaves(loads.info) :
               LET leaf == Leaves(loads.info)[i]
               IN  leaf.source # "path" =>
                       \A c \in DOMAIN leaf.contents : BAD \notin Range(leaf.contents[c].items)
    /\ loads.os.err = "OK" /\ loads.of = "chain" => loads.os.out = Described(loads.info)
    /\ loads.os.err = "OK" /\ loads.of \in {"store", "crl"} =>
           LET leaves == SelectSeq(Leaves(loads.info), LAMBDA leaf : leaf.source # "path")
           IN  Range(loads.os.out)
                   = UNION { Range(Described(leaves[i])) : i \in DOMAIN leaves }
    /\ loads.os.err = "OK" /\ loads.of = "first" =>
           loads.os.out = SubSeq(Described(loads.info), 1,
                                 IF Described(loads.info) = <<>> THEN 0 ELSE 1)
    /\ loads.mb.err = "OK" /\ loads.of # "key" => loads.mb.out = Described(loads.info)
    /\ loads.mb.err = "OK" /\ loads.of = "key" =>
           loads.mb.out = <<Described(loads.info)[1]>>

\* Mbed TLS: a load that fails leaves the output pointer NULL, except for the private
\* key of an engine without a query, where the context stays for the caller to release.
FailedLoadLeavesNull ==
    loads.mb.err # "OK" =>
        ~loads.mb.present \/ (loads.of = "key" /\ loads.info.source = "engine")

WellFormed(content) ==
    content.nul /\ ~content.rest /\ content.form # "junk" /\ BAD \notin Range(content.items)

\* For infos without directories whose files and buffers are well formed, the two
\* implementations agree: both load the same certificates, or both fail.
LoadersAgree ==
    loads.of \in {"chain", "store"} /\ loads.info # NoInfo /\ loads.os.allocs = 0
        /\ loads.mb.allocs = 0
        /\ (\A i \in DOMAIN Leaves(loads.info) :
               /\ Leaves(loads.info)[i].source # "path"
               /\ \A c \in DOMAIN Leaves(loads.info)[i].contents :
                      WellFormed(Leaves(loads.info)[i].contents[c])) =>
            /\ (loads.os.err = "OK") = (loads.mb.err = "OK")
            /\ loads.os.err = "OK" /\ loads.mb.err = "OK" =>
                   Range(loads.os.out) = Range(loads.mb.out)

\* load_key_from_buffer asserts that the key is set exactly when the load succeeded
\* ("assert(avs_is_err(err) == !*out_key)").  A key followed by one that does not parse
\* breaks it: the first key stays in the output while the load reports EPROTO.
KeySetIffLoaded ==
    loads.of = "key" /\ loads.info.source \in {"file", "buffer"} /\ loads.info.given =>
        (loads.os.err # "OK") = (loads.os.out = <<>>)

\* A load of certificates or keys that succeeds is whole, with both libraries
\* alike, and no reference is lost on any path; with Mbed TLS one that fails
\* leaves nothing.  (With OpenSSL what went into a store before the failure
\* stays in it, and a key may stay: KeySetIffLoaded.)
LoadersCorrect ==
    /\ LoadersKeepNoReference
    /\ SuccessIsWhole
    /\ FailedLoadLeavesNull
    /\ LoadersAgree

=============================================================================
