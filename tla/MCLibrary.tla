------------------------------ MODULE MCLibrary -----------------------------
(***************************************************************************)
(* Instances for TLC of the modules that do not talk to the network: the   *)
(* log, the containers, time, URLs, text codecs, persistence, the data of  *)
(* certificates and keys, PKI, and the test runner that the library offers *)
(* to tests.  They share no state: a behaviour is one of a single part,    *)
(* while the others rest in one of their initial states.                   *)
(***************************************************************************)
EXTENDS AvsLog, AvsRbtree, ListLinks, AvsVector, AvsTime, AvsUrl, AvsCodecs,
        PersistenceCalls, CryptoInfo, CryptoPki, AvsUnit

VARIABLE part       \* the part whose behaviour it is

SeqsUpTo(S, n) == UNION {[1 .. k -> S] : k \in 0 .. n}

-----------------------------------------------------------------------------
(* Containers and time                                                      *)

SomeKey(e) == IF e > 7 THEN 4 ELSE e        \* element 8 has the key of 4
SomeListKey(e) == e % 2
SomeMultipliers == {-7, -3, -1, 0, 1, 2, 5, 7}

-----------------------------------------------------------------------------
(* URLs: all short ones, and longer ones after a protocol; the text codecs  *)

SomeUrls == SeqsUpTo(UrlChars, 3)
    \union {<<LETTER, COLON, SLASH, SLASH>> \o s :
              s \in SeqsUpTo({DIGIT, LETTER, COLON, SLASH, AT, QUERY}, 5)
                        \union SeqsUpTo({DIGIT, LETTER, PERCENT, AT}, 5)
                        \union SeqsUpTo({DIGIT, COLON, OPEN, CLOSE}, 5)}

SomeBytes == SeqsUpTo({0, 90, 129, 255}, 4)
SomeB64Texts == SeqsUpTo({0, 33, 63, PAD, SPACE, STRANGE}, 4) \union SeqsUpTo({63, PAD}, 6)
SomeTokenTexts == SeqsUpTo({1, QUOTE, BACKSLASH, DELIM}, 5)
SomeAddresses == [1 .. 8 -> {0, 65535}]

-----------------------------------------------------------------------------
(* Persistence; descriptions of certificates and keys                       *)

Field(kind, value) == [kind |-> kind, value |-> value]
SomeRecords == {
    <<Field("u16", 2), Field("string", <<1>>), Field("u64", 6)>>,
    <<Field("string", NULLPTR), Field("buffer", <<0, 1>>), Field("string", <<>>)>>,
    <<Field("buffer", <<0, 1, 1, 0>>)>>, <<Field("buffer", <<0, 1>>)>>,
    <<Field("strings", << <<1>>, NULLPTR, <<>> >>), Field("bytes", <<1, 0>>)>>,
    <<Field("strings", << <<1, 1>>, <<1>> >>), Field("u16", 1)>>,
    <<Field("tree", <<0, 1>>), Field("strings", <<>>), Field("numbers", <<2, 2>>)>> }
SomeMagic == <<1, 0>>

SomeInfos == {
    Zeroed, FromPath(CHAIN, <<1, 2>>), FromFile(CHAIN, <<1>>, NULLPTR),
    FromFile(KEY, <<1>>, <<2>>), FromBuffer(KEY, <<0, 1>>, <<>>),
    FromFile(CRL, <<1>>, NULLPTR),
    FromArray(CHAIN, <<FromFile(CHAIN, <<1>>, <<>>), Zeroed,
                       FromBuffer(CHAIN, <<0>>, <<3>>)>>),
    FromList(CHAIN, <<FromPath(CHAIN, <<3>>),
                      FromArray(CHAIN, <<FromBuffer(CHAIN, <<0, 2>>, NULLPTR),
                                         FromFile(CHAIN, <<2>>, <<1>>)>>)>>),
    FromArray(CHAIN, <<FromPath(CHAIN, <<1>>), FromPath(CRL, <<1>>)>>) }

-----------------------------------------------------------------------------
(* Loading certificates and keys: each source with well-formed, malformed   *)
(* and missing contents, alone, in pairs and nested                         *)

Pem(items, nul) == [form |-> "pem", items |-> items, nul |-> nul, rest |-> FALSE]
Der(item, rest) == [form |-> "der", items |-> <<item>>, nul |-> TRUE, rest |-> rest]
Junk == [form |-> "junk", items |-> <<>>, nul |-> TRUE, rest |-> FALSE]
Source(source, given, data) ==
    [source |-> source, given |-> given, contents |-> data, entries |-> <<>>]
Nest(source, entries) ==
    [source |-> source, given |-> TRUE, contents |-> <<>>, entries |-> entries]
SomeContents == {Pem(<<1>>, TRUE), Pem(<<2, 1>>, TRUE), Pem(<<2>>, FALSE),
                 Pem(<<1, BAD>>, TRUE), Der(3, FALSE), Der(3, TRUE), Der(BAD, FALSE), Junk}
SingleSources ==
    {Source("empty", TRUE, <<>>)}
    \union {Source(s, FALSE, <<>>) : s \in {"file", "path", "buffer", "engine"}}
    \union {Source(s, TRUE, <<c>>) : s \in {"file", "buffer"}, c \in SomeContents}
    \union {Source("engine", TRUE, <<Der(1, FALSE)>>), Source("file", TRUE, <<>>),
            Source("engine", TRUE, <<>>), Source("path", TRUE, <<>>),
            Source("path", TRUE, <<Pem(<<1>>, TRUE), Junk, Der(2, FALSE)>>),
            Source("path", TRUE, <<Junk>>)}
SomeCertInfos ==
    SingleSources
    \union {Nest("array", <<a, b>>) : a, b \in SingleSources}
    \union {Nest("list", <<>>)}
    \union {Nest("list", <<Nest("array", <<a>>), Nest("list", <<b>>)>>) :
              a, b \in {Source("file", TRUE, <<c>>) : c \in SomeContents}}
SomeKeyInfos ==
    (SingleSources \ {Source("empty", TRUE, <<>>)})
    \union {Source("buffer", TRUE, <<Pem(items, nul)>>) :
              items \in {<<1, 2>>, <<1, 2, 1>>, <<BAD, 1>>}, nul \in BOOLEAN}

-----------------------------------------------------------------------------
(* PKCS #7 messages, in definite and indefinite form, damaged in one cell   *)

SomeDer == <<5, 6>>
Cert(c) == <<SEQ, 1, c>>
Message(signed, data, signers, digests, certs, crls) ==
    [signed |-> signed, data |-> data, signers |-> signers, digests |-> digests,
     certs |-> certs, crls |-> crls]
SomeMessages == {
    Message(TRUE, TRUE, FALSE, <<>>, <<Cert(50), Cert(51)>>, <<Cert(52)>>),
    Message(TRUE, TRUE, FALSE, <<9>>, <<>>, <<Cert(52)>>),
    Message(TRUE, TRUE, FALSE, <<>>, <<>>, <<>>),
    Message(FALSE, TRUE, FALSE, <<>>, <<Cert(50)>>, <<>>),
    Message(TRUE, FALSE, FALSE, <<>>, <<Cert(50)>>, <<>>),
    Message(TRUE, TRUE, TRUE, <<>>, <<Cert(50)>>, <<>>) }
SomeForms == {f \in SUBSET Levels : Cardinality(f) <= 1 \/ Cardinality(f) >= 7}
                 \union SUBSET {"info", "content", "data"}
SomeDamages ==
    {[kind |-> "none"], [kind |-> "more", cell |-> EOC]}
    \union {[kind |-> "cell", at |-> a, cell |-> c] :
              a \in 1 .. 20, c \in {EOC, 1, 3, INDEFINITE, CERTIFICATES}}
    \union {[kind |-> "cut", at |-> a] : a \in 0 .. 20}

-----------------------------------------------------------------------------
(* The test runner                                                          *)

SomeUnitSuites == << <<"a", "x">>, <<"b", "x">>, <<"a", "y">> >>
SomeUnitArgs == {<<>>, <<"-v", "a">>, <<"a", "y", "z">>, <<"b", "-l">>, <<"a", "-v", "x">>,
                 <<"c">>}
SomeMemBytes == {<<>>, <<1>>, <<1, 2>>}

-----------------------------------------------------------------------------
(* The union                                                                *)

Parts == {"log", "rbtree", "list", "vector", "time", "url", "codecs", "persistence",
          "crypto_info", "loader", "pki", "unit"}

LibraryInit ==
    /\ part \in Parts
    /\ part # "log" => log_global = TRUE
    /\ LogInit /\ RbInit /\ LlInit /\ VecInit
    /\ TmInit /\ UrlInit /\ CodInit
    /\ part # "persistence" => record = CHOOSE r \in Records : TRUE
    /\ PsInit
    /\ part # "crypto_info" => info = Zeroed
    /\ CiInit /\ LdInit /\ PkiInit
    /\ part # "unit" => runner = Starting(<<>>)
    /\ UnitInit

LibraryNext ==
    \/ /\ part = "log" /\ LogNext
       /\ UNCHANGED <<part, rbVars, llVars, vecVars, tm, url, coded, psVars,
                      ciVars, loads, pki, unitVars>>
    \/ /\ part = "rbtree" /\ RbNext
       /\ UNCHANGED <<part, logVars, llVars, vecVars, tm, url, coded, psVars,
                      ciVars, loads, pki, unitVars>>
    \/ /\ part = "list" /\ LlNext
       /\ UNCHANGED <<part, logVars, rbVars, vecVars, tm, url, coded, psVars,
                      ciVars, loads, pki, unitVars>>
    \/ /\ part = "vector" /\ VecNext
       /\ UNCHANGED <<part, logVars, rbVars, llVars, tm, url, coded, psVars,
                      ciVars, loads, pki, unitVars>>
    \/ /\ part = "time" /\ TmNext
       /\ UNCHANGED <<part, logVars, rbVars, llVars, vecVars, url, coded, psVars,
                      ciVars, loads, pki, unitVars>>
    \/ /\ part = "url" /\ UrlNext
       /\ UNCHANGED <<part, logVars, rbVars, llVars, vecVars, tm, coded, psVars,
                      ciVars, loads, pki, unitVars>>
    \/ /\ part = "codecs" /\ CodNext
       /\ UNCHANGED <<part, logVars, rbVars, llVars, vecVars, tm, url, psVars,
                      ciVars, loads, pki, unitVars>>
    \/ /\ part = "persistence" /\ PsNext
       /\ UNCHANGED <<part, logVars, rbVars, llVars, vecVars, tm, url, coded,
                      ciVars, loads, pki, unitVars>>
    \/ /\ part = "crypto_info" /\ CiNext
       /\ UNCHANGED <<part, logVars, rbVars, llVars, vecVars, tm, url, coded,
                      psVars, loads, pki, unitVars>>
    \/ /\ part = "loader" /\ LdNext
       /\ UNCHANGED <<part, logVars, rbVars, llVars, vecVars, tm, url, coded,
                      psVars, ciVars, pki, unitVars>>
    \/ /\ part = "pki" /\ PkiNext
       /\ UNCHANGED <<part, logVars, rbVars, llVars, vecVars, tm, url, coded,
                      psVars, ciVars, loads, unitVars>>
    \/ /\ part = "unit" /\ UnitNext
       /\ UNCHANGED <<part, logVars, rbVars, llVars, vecVars, tm, url, coded,
                      psVars, ciVars, loads, pki>>

LibrarySpec ==
    LibraryInit /\ [][LibraryNext]_<<part, logVars, rbVars, llVars, vecVars, tm, url, coded,
                                    psVars, ciVars, loads, pki, unitVars>>

=============================================================================
