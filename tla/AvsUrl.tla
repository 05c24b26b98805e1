------------------------------- MODULE AvsUrl --------------------------------
(***************************************************************************)
(* The URL parser of src/src/url/avs_url.c.  The parsed URL is one block of*)
(* strlen(raw_url) + 1 bytes into which the parts are copied one after the *)
(* other, each with its null byte, and indices to where they start.  The   *)
(* characters are those that the parser tells apart: a digit, a letter     *)
(* (also a hexadecimal digit), the delimiters and one that is valid        *)
(* nowhere.                                                                *)
(***************************************************************************)
EXTENDS Integers, Sequences

CONSTANTS UrlInputs     \* strings, sequences of UrlChars

NULLCHAR == 0
DIGIT == 1
LETTER == 10
COLON == 20
SLASH == 21
AT == 22
QUERY == 23
OPEN == 24
CLOSE == 25
PERCENT == 26
BADCHAR == 27
UrlChars == {DIGIT, LETTER, COLON, SLASH, AT, QUERY, OPEN, CLOSE, PERCENT, BADCHAR}

IsAlnum(c) == c \in {DIGIT, LETTER}
IsXdigit(c) == IsAlnum(c)
SchemaChar(c) == IsAlnum(c)
CredentialChars == {DIGIT, LETTER, QUERY}
HostChars == {DIGIT, LETTER, COLON}
PathChars == {DIGIT, LETTER, SLASH, QUERY, COLON, AT}

\* The byte that an escape stands for: one that is not among the others, or
\* the null byte for two zeros, which are two DIGITs here.
Escaped(h, l) == IF h = DIGIT /\ l = DIGIT THEN NULLCHAR ELSE 100 + 16 * h + l

INVALID_PTR == -1

CharAt(s, i) == IF i <= Len(s) THEN s[i] ELSE NULLCHAR
Rest(s, i) == SubSeq(s, i, Len(s))

\* How many characters from the front satisfy a condition
Span(s, ok(_)) ==
    LET bad == { i \in DOMAIN s : ~ok(s[i]) }
    IN  IF bad = {} THEN Len(s) ELSE (CHOOSE i \in bad : \A j \in bad : i <= j) - 1

\* avs_url_percent_decode
RECURSIVE DecodeLoop(_)
DecodeLoop(s) ==
    IF s = <<>> THEN [ok |-> TRUE, out |-> <<>>]
    ELSE IF Head(s) # PERCENT
    THEN LET r == DecodeLoop(Tail(s)) IN [r EXCEPT !.out = <<Head(s)>> \o @]
    ELSE IF IsXdigit(CharAt(s, 2)) /\ IsXdigit(CharAt(s, 3))
    THEN LET r == DecodeLoop(Rest(s, 4))
         IN  [r EXCEPT !.out = <<Escaped(s[2], s[3])>> \o @]
    ELSE [ok |-> FALSE, out |-> <<>>]

PercentDecode(s) == DecodeLoop(s)

\* avs_url_percent_encode: what is not unreserved becomes an escape.
PercentEncode(s, unreserved) ==
    LET text(c) == IF IsAlnum(c) \/ c \in unreserved THEN <<c>>
                   ELSE <<PERCENT, (c - 100) \div 16, (c - 100) % 16>>
        RECURSIVE Encode(_)
        Encode(rest) == IF rest = <<>> THEN <<>> ELSE text(Head(rest)) \o Encode(Tail(rest))
    IN  Encode(s)

\* prepare_string: a null byte in the decoded text makes it shorter than its
\* length.
PrepareString(s) ==
    LET r == PercentDecode(s)
    IN  [r EXCEPT !.ok = r.ok /\ \A i \in DOMAIN r.out : r.out[i] # NULLCHAR]

RECURSIVE ValidPart(_, _)
ValidPart(s, chars) ==
    IF s = <<>> THEN TRUE
    ELSE IF Head(s) \in chars THEN ValidPart(Tail(s), chars)
    ELSE /\ Head(s) = PERCENT /\ IsXdigit(CharAt(s, 2)) /\ IsXdigit(CharAt(s, 3))
         /\ ValidPart(Rest(s, 4), chars)

------------------------------------------------------------------------------
(* The parts; u is [ok, in, data, proto, user, password, host, port, path]  *)

NewUrl(raw) ==
    [ok |-> TRUE, in |-> raw, data |-> <<>>, proto |-> FALSE, user |-> INVALID_PTR,
     password |-> INVALID_PTR, host |-> INVALID_PTR, port |-> INVALID_PTR,
     path |-> INVALID_PTR]

Error(u) == [u EXCEPT !.ok = FALSE]

ParseProtocol(u) ==
    LET n == Span(u.in, SchemaChar)
    IN  IF CharAt(u.in, n + 1) # COLON THEN u
        ELSE [u EXCEPT !.data = SubSeq(u.in, 1, n) \o <<NULLCHAR>>,
                       !.in = Rest(u.in, n + 2), !.proto = TRUE]

\* A user name or a password: copied, validated, and decoded in place
Credential(u, text) ==
    LET plain == PrepareString(text)
    IN  IF ValidPart(text, CredentialChars) /\ plain.ok
        THEN [u EXCEPT !.data = u.data \o plain.out \o <<NULLCHAR>>] ELSE Error(u)

ParseUsernameAndPassword(u, text) ==
    LET n == Span(text, LAMBDA c : c # COLON)
        named == [Credential(u, SubSeq(text, 1, n)) EXCEPT !.user = Len(u.data)]
    IN  IF ~named.ok \/ n = Len(text) THEN named
        ELSE [Credential(named, Rest(text, n + 2)) EXCEPT !.password = Len(named.data)]

ParseCredentials(u) ==
    LET at == Span(u.in, LAMBDA c : c # AT)
        slash == Span(u.in, LAMBDA c : c # SLASH)
    IN  IF at = Len(u.in) \/ slash < at THEN u
        ELSE [ParseUsernameAndPassword(u, SubSeq(u.in, 1, at)) EXCEPT !.in = Rest(u.in, at + 2)]

ParseHostSkipping(u) ==
    LET n == Span(u.in, LAMBDA c : c \notin {SLASH, QUERY, COLON})
    IN  IF ~u.ok THEN u
        ELSE [u EXCEPT !.host = Len(u.data),
                       !.data = u.data \o SubSeq(u.in, 1, n) \o <<NULLCHAR>>,
                       !.in = Rest(u.in, n + 2)]

ParseHost(u) ==
    LET bracket == CharAt(u.in, 1) = OPEN
        text == IF bracket THEN Tail(u.in) ELSE u.in
        n == Span(text, LAMBDA c : IF bracket THEN c # CLOSE
                                   ELSE c \notin {SLASH, QUERY, COLON})
    IN  IF ~u.ok THEN u
        ELSE IF bracket /\ n = Len(text) THEN Error(u)
        ELSE [u EXCEPT !.host = Len(u.data),
                       !.data = u.data \o SubSeq(text, 1, n) \o <<NULLCHAR>>,
                       !.in = Rest(text, IF bracket THEN n + 2 ELSE n + 1)]

ParsePort(u) ==
    LET n == Span(Tail(u.in), LAMBDA c : c = DIGIT)
        rest == Rest(u.in, n + 2)
    IN  IF ~u.ok \/ CharAt(u.in, 1) # COLON THEN u
        ELSE IF CharAt(rest, 1) \notin {NULLCHAR, SLASH, QUERY} THEN Error(u)
        ELSE [u EXCEPT !.port = Len(u.data), !.in = rest,
                       !.data = u.data \o SubSeq(u.in, 2, n + 1) \o <<NULLCHAR>>]

ParsePath(u) ==
    LET slash == u.host # INVALID_PTR /\ CharAt(u.in, 1) \in {NULLCHAR, QUERY}
    IN  IF ~u.ok THEN u
        ELSE [u EXCEPT !.path = Len(u.data), !.in = <<>>,
                       !.data = u.data \o (IF slash THEN <<SLASH>> ELSE <<>>)
                                \o u.in \o <<NULLCHAR>>]

ParseLenient(raw) ==
    LET u == ParseProtocol(NewUrl(raw))
        authority == [u EXCEPT !.in = Rest(u.in, 3)]
    IN  ParsePath(IF CharAt(u.in, 1) = SLASH /\ CharAt(u.in, 2) = SLASH
                  THEN ParsePort(ParseHost(ParseCredentials(authority))) ELSE u)

\* avs_url_protocol, avs_url_user and the others: the text up to the null byte
Text(u, ptr) ==
    SubSeq(u.data, ptr + 1, ptr + Span(Rest(u.data, ptr + 1), LAMBDA c : c # NULLCHAR))

Validate(u) ==
    /\ u.proto
    /\ u.host # INVALID_PTR /\ Text(u, u.host) # <<>>
    /\ \A i \in DOMAIN Text(u, u.host) : Text(u, u.host)[i] \in HostChars
    /\ u.port # INVALID_PTR => Len(Text(u, u.port)) \in 1..5
    /\ CharAt(Text(u, u.path), 1) = SLASH
    /\ ValidPart(Text(u, u.path), PathChars)

------------------------------------------------------------------------------

VARIABLE url        \* [raw, parsed]: the last string parsed

NoUrl == [raw |-> <<>>, parsed |-> NewUrl(<<>>)]

UrlInit == url = NoUrl

AvsUrlParse(raw) == url' = [raw |-> raw, parsed |-> ParseLenient(raw)]

AvsUrlFree == url # NoUrl /\ url' = NoUrl

UrlNext == \/ url = NoUrl /\ \E raw \in UrlInputs : AvsUrlParse(raw)
           \/ AvsUrlFree

------------------------------------------------------------------------------

\* strlen(raw_url) + 1 bytes are enough for every string, and no index is
\* outside them: the count in the comment of avs_url_parse_lenient, which no
\* check backs up when assertions are off.
UrlFits ==
    LET u == url.parsed
    IN  /\ Len(u.data) <= Len(url.raw) + 1
        /\ \A ptr \in {u.user, u.password, u.host, u.port, u.path} :
              ptr < Len(u.data) \/ ~u.ok \/ ptr = INVALID_PTR

\* A URL accepted as a whole is one that its parts make when they are written
\* down again, the encoded credentials included: no character of it is lost,
\* invented or moved to another part (the one exception is the slash of an
\* empty path).
PartsMakeTheUrl ==
    LET u == url.parsed
        part(ptr, before) == IF ptr = INVALID_PTR THEN <<>> ELSE before \o Text(u, ptr)
        secret(ptr, before) ==
            IF ptr = INVALID_PTR THEN <<>>
            ELSE before \o PercentEncode(Text(u, ptr), {QUERY})
        hosts == { Text(u, u.host), <<OPEN>> \o Text(u, u.host) \o <<CLOSE>> }
        paths == { Text(u, u.path), Tail(Text(u, u.path)) }
    IN  u.path # INVALID_PTR /\ u.ok /\ Validate(u)
          => \E host \in hosts, path \in paths :
                url.raw = Text(u, 0) \o <<COLON, SLASH, SLASH>> \o secret(u.user, <<>>)
                            \o secret(u.password, <<COLON>>)
                            \o (IF u.user # INVALID_PTR THEN <<AT>> ELSE <<>>)
                            \o host \o part(u.port, <<COLON>>) \o path

\* Parsing a URL stays inside its buffer and loses no character.
UrlCorrect ==
    /\ UrlFits
    /\ PartsMakeTheUrl

=============================================================================
