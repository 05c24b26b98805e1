------------------------------ MODULE AvsCodecs ------------------------------
(***************************************************************************)
(* The text conversions of the library: base64 of                          *)
(* src/src/algorithm/avs_base64.c, hexadecimal, tokens and numbers of      *)
(* src/src/utils/, and the printed IPv6 address of                         *)
(* src/src/net/compat/posix/avs_inet_ntop.c.  Each is a function of its    *)
(* arguments; a state is a call with its arguments (coded), and the        *)
(* invariants compare what the function gives with what it should.         *)
(***************************************************************************)
EXTENDS Integers, Sequences, FiniteSets

CONSTANTS
    B64Inputs,      \* byte strings to encode
    B64Texts,       \* texts to decode: digits 0..63, PAD, SPACE, STRANGE
    TokenTexts,     \* texts to cut into tokens
    Addresses       \* IPv6 addresses, eight words

PAD == 64
SPACE == 65
STRANGE == 66

SeqMin(a, b) == IF a < b THEN a ELSE b

------------------------------------------------------------------------------
(* Base64; config is [padding, whitespace, require]                         *)

EncodedSize(n) == (n \div 3) * 4 + (IF n % 3 # 0 THEN 4 ELSE 0) + 1

EncodedSizeWithoutPadding(n) ==
    (n \div 3) * 4 + (IF n % 3 # 0 THEN (n % 3) + 1 ELSE 0) + 1

EstimateDecodedSize(n) == 3 * ((n + 3) \div 4)

\* One pass over the bytes with the bits left over (sh), then the last digit
RECURSIVE EncodeFrom(_, _, _)
EncodeFrom(in, i, sh) ==
    LET num == in[i + 1]
    IN  IF i = Len(in)
        THEN (CASE i % 3 = 1 -> <<sh * 16>> [] i % 3 = 2 -> <<sh * 4>> [] OTHER -> <<>>)
        ELSE CASE i % 3 = 0 -> <<num \div 4>> \o EncodeFrom(in, i + 1, num % 4)
               [] i % 3 = 1 -> <<sh * 16 + num \div 16>> \o EncodeFrom(in, i + 1, num % 16)
               [] OTHER -> <<sh * 4 + num \div 64, num % 64>> \o EncodeFrom(in, i + 1, 0)

PadAlways(text, n) == text \o [i \in 1..(n - (Len(text) % n)) |-> PAD]

PadTo(text, n) == text \o [i \in 1..((n - (Len(text) % n)) % n) |-> PAD]

Base64Encode(in, outLength, config) ==
    LET text == EncodeFrom(in, 0, 0)
        needed == IF config.padding THEN EncodedSize(Len(in))
                  ELSE EncodedSizeWithoutPadding(Len(in))
    IN  IF outLength < needed THEN [ok |-> FALSE, text |-> <<>>]
        ELSE [ok |-> TRUE, text |-> IF config.padding THEN PadTo(text, 4) ELSE text]

Undecodable == [ok |-> FALSE, out |-> <<>>, padding |-> 0]

\* Checked for every character, before it is looked at.
NoRoomLeft(d, outSize) == Len(d.out) >= outSize

\* d is [acc, bits, out, padding]; acc keeps the bits not yet used.
RECURSIVE DecodeFrom(_, _, _, _)
DecodeFrom(text, d, outSize, config) ==
    LET ch == Head(text)
        acc == d.acc * 64 + ch
        bits == d.bits + 6 - 8
        digit == IF bits >= 0
                 THEN [d EXCEPT !.acc = acc % (2 ^ bits), !.bits = bits,
                                !.out = Append(d.out, acc \div (2 ^ bits))]
                 ELSE [d EXCEPT !.acc = acc, !.bits = d.bits + 6]
    IN  IF text = <<>> THEN [ok |-> TRUE, out |-> d.out, padding |-> d.padding]
        ELSE IF NoRoomLeft(d, outSize) THEN Undecodable
        ELSE IF ch = SPACE
        THEN IF config.whitespace THEN DecodeFrom(Tail(text), d, outSize, config)
             ELSE Undecodable
        ELSE IF ch = PAD /\ config.padding
        THEN IF config.require
             THEN IF d.padding = 2 THEN Undecodable
                  ELSE DecodeFrom(Tail(text), [d EXCEPT !.padding = @ + 1], outSize, config)
             ELSE DecodeFrom(Tail(text), d, outSize, config)
        ELSE IF d.padding > 0 \/ ch \notin 0..63 THEN Undecodable
        ELSE DecodeFrom(Tail(text), digit, outSize, config)

DecodeUnpadded(text, outSize, config) ==
    DecodeFrom(text, [acc |-> 0, bits |-> 0, out |-> <<>>, padding |-> 0], outSize, config)

Base64Decode(text, outSize, config) ==
    LET r == DecodeUnpadded(text, outSize, config)
    IN  IF /\ r.ok /\ config.padding /\ config.require
           /\ r.padding # (3 - (Len(r.out) % 3)) % 3
        THEN Undecodable ELSE r

------------------------------------------------------------------------------
(* Hexadecimal; a text is a sequence of digits 0..15, STRANGE is another      *)

Hexlify(in, outSize) ==
    LET n == SeqMin(Len(in), (outSize - 1) \div 2)
    IN  [done |-> n, text |-> [i \in 1..(2 * n) |->
            IF i % 2 = 1 THEN in[(i + 1) \div 2] \div 16 ELSE in[i \div 2] % 16]]

Unhexlify(text, outSize) ==
    LET n == SeqMin(Len(text) \div 2, outSize)
    IN  [ok |-> Len(text) % 2 = 0 /\ \A i \in 1..(2 * n) : text[i] \in 0..15,
         out |-> [i \in 1..n |-> text[2 * i - 1] * 16 + text[2 * i]]]

------------------------------------------------------------------------------
(* Tokens: a text is a string of QUOTE, BACKSLASH, DELIM and other letters  *)

QUOTE == 70
BACKSLASH == 71
DELIM == 72

\* avs_consume_quotable_token: where src ends up, and what is written to dest;
\* written also counts the null byte.
RECURSIVE TokenLoop(_, _, _, _, _)
TokenLoop(s, i, quote, room, copied) ==
    LET end == i > Len(s)
        escape == quote /\ s[i] = BACKSLASH
        at == IF escape THEN i + 1 ELSE i       \* where the value is
        lost == at > Len(s)                     \* the null byte was escaped
        stop == lost \/ (~quote /\ s[at] = DELIM)
    IN  IF end THEN [src |-> i, copied |-> copied]
        ELSE IF s[i] = QUOTE THEN TokenLoop(s, i + 1, ~quote, room, copied)
        ELSE IF stop THEN [src |-> at, copied |-> copied]
        ELSE TokenLoop(s, at + 1, quote, IF room > 0 THEN room - 1 ELSE 0,
                       IF room > 0 THEN Append(copied, s[at]) ELSE copied)

\* The null byte takes the place of the last character when there is no room.
ConsumeToken(s, from, destSize) ==
    LET r == TokenLoop(s, from, FALSE, destSize, <<>>)
        full == Len(r.copied) = destSize
    IN  [src |-> IF r.src <= Len(s) THEN r.src + 1 ELSE r.src,
         dest |-> IF destSize = 0 THEN <<>>
                  ELSE IF full THEN SubSeq(r.copied, 1, destSize - 1) ELSE r.copied,
         written |-> IF full THEN destSize ELSE Len(r.copied) + 1]

------------------------------------------------------------------------------
(* inet_ntop6: the longest run of zero words, the first of equal ones, is   *)
(* written as "::"                                                          *)

\* The scan over the words; cur and best are [base, len].
NoRun == [base |-> -1, len |-> -1]

Better(cur, best) ==
    IF cur.base # -1 /\ (best.base = -1 \/ cur.len > best.len) THEN cur ELSE best

RECURSIVE LongestRun(_, _, _, _)
LongestRun(words, i, cur, best) ==
    IF i = 8 THEN Better(cur, best)
    ELSE IF words[i + 1] = 0
    THEN LongestRun(words, i + 1,
                    IF cur.base = -1 THEN [base |-> i, len |-> 1]
                    ELSE [cur EXCEPT !.len = @ + 1], best)
    ELSE LongestRun(words, i + 1, [cur EXCEPT !.base = -1], Better(cur, best))

BestRun(words) ==
    LET best == LongestRun(words, 0, NoRun, NoRun)
    IN  IF best.base # -1 /\ best.len < 2 THEN [best EXCEPT !.base = -1] ELSE best

COLON_ == -1        \* a colon in the text; a word is its number
IPV4 == -2          \* the last two words in dotted form

Ntop6(words) ==
    LET best == BestRun(words)
        inside(i) == best.base # -1 /\ i >= best.base /\ i < best.base + best.len
        v4 == best.base = 0 /\ (best.len = 6 \/ (best.len = 5 /\ words[6] = 65535))
        text(i) == IF inside(i) THEN (IF i = best.base THEN <<COLON_>> ELSE <<>>)
                   ELSE IF v4 /\ i = 7 THEN <<>>
                   ELSE (IF i # 0 THEN <<COLON_>> ELSE <<>>)
                          \o <<IF v4 /\ i = 6 THEN IPV4 ELSE words[i + 1]>>
        RECURSIVE Join(_)
        Join(i) == IF i = 8 THEN <<>> ELSE text(i) \o Join(i + 1)
    IN  Join(0) \o (IF best.base # -1 /\ best.base + best.len = 8 THEN <<COLON_>> ELSE <<>>)

------------------------------------------------------------------------------

VARIABLE coded      \* [kind, in]: the last call

NoCoding == [kind |-> "none"]

CodInit == coded = NoCoding

Converts(kind, in) == coded' = [kind |-> kind, in |-> in]

CodReturns == coded # NoCoding /\ coded' = NoCoding

CodNext ==
    \/ /\ coded = NoCoding
       /\ \/ \E in \in B64Inputs : Converts("encode", in)
          \/ \E in \in B64Texts : Converts("decode", in)
          \/ \E in \in TokenTexts : Converts("token", in)
          \/ \E in \in Addresses : Converts("address", in)
    \/ CodReturns

------------------------------------------------------------------------------

Configs == [padding : BOOLEAN, whitespace : BOOLEAN, require : BOOLEAN]

\* What is encoded is decoded to the same bytes with the same configuration,
\* the text takes the room that avs_base64_encoded_size says, no less is
\* accepted, and avs_base64_estimate_decoded_size is enough to decode it.
Base64RoundTrips ==
    coded.kind = "encode" =>
        \A config \in Configs :
            LET size == IF config.padding THEN EncodedSize(Len(coded.in))
                        ELSE EncodedSizeWithoutPadding(Len(coded.in))
                e == Base64Encode(coded.in, size, config)
                d == Base64Decode(e.text, EstimateDecodedSize(Len(e.text)), config)
            IN  /\ e.ok /\ Len(e.text) + 1 = size
                /\ ~Base64Encode(coded.in, size - 1, config).ok
                /\ d.ok /\ d.out = coded.in

\* However small the buffer and whatever the text, the decoder does not write
\* past it, and with a larger buffer it never gives something else.
DecodeStaysInside ==
    coded.kind = "decode" =>
        \A config \in Configs, size \in 0..4 :
            LET d == Base64Decode(coded.in, size, config)
                more == Base64Decode(coded.in, size + 1, config)
            IN  Len(d.out) <= size /\ (d.ok => more = d)

\* avs_base64.h: with require_padding "the input (...) is required to have a
\* length that is a multiple of four".
StrictLengthIsMultipleOfFour ==
    coded.kind = "decode" =>
        LET d == Base64Decode(coded.in, 6, [padding |-> TRUE, whitespace |-> FALSE, require |-> TRUE])
        IN  d.ok => Len(coded.in) % 4 = 0

\* Hexadecimal text comes back as the bytes, piece by piece when the buffer is
\* small (the header tells the caller to go on from bytes_written * 2), and a
\* text with half a byte is refused.
HexRoundTrips ==
    coded.kind = "encode" =>
        \A size \in 1..(2 * Len(coded.in) + 2), piece \in 1..3 :
            LET h == Hexlify(coded.in, size)
                first == Unhexlify(h.text, piece)
                rest == SubSeq(h.text, 2 * Len(first.out) + 1, Len(h.text))
                second == Unhexlify(rest, Len(coded.in))
            IN  /\ Len(h.text) + 1 <= size
                /\ first.ok /\ second.ok
                /\ first.out \o second.out = SubSeq(coded.in, 1, h.done)
                /\ h.text # <<>> => ~Unhexlify(Tail(h.text), 3).ok

\* avs_consume_quotable_token writes no more than dest_size bytes, the null
\* byte among them, whatever dest_size is the source ends in the same place,
\* and a smaller buffer gets the beginning of what a larger one gets.
TokensFitAndAdvance ==
    coded.kind = "token" =>
        \A from \in 1..(Len(coded.in) + 1), size \in 0..3 :
            LET r == ConsumeToken(coded.in, from, size)
                whole == ConsumeToken(coded.in, from, Len(coded.in) + 1)
            IN  /\ r.written <= size
                /\ r.src = whole.src /\ r.src \in from..(Len(coded.in) + 1)
                /\ r.dest = SubSeq(whole.dest, 1, SeqMin(Len(whole.dest),
                                                         IF size = 0 THEN 0 ELSE size - 1))
                /\ from <= Len(coded.in) => r.src > from

\* The address can be read back in only one way: at most one "::" stands for
\* what is left of eight words.
AddressReadsBack ==
    coded.kind = "address" =>
        LET text == Ntop6(coded.in)
            gaps == { i \in 1..(Len(text) - 1) : text[i] = COLON_ /\ text[i + 1] = COLON_ }
            numbers == SelectSeq(text, LAMBDA x : x >= 0)
            before(g) == SelectSeq(SubSeq(text, 1, g), LAMBDA x : x # COLON_)
            after(g) == SelectSeq(SubSeq(text, g + 1, Len(text)), LAMBDA x : x # COLON_)
            wide(s) == [i \in 1..(Len(s) + Cardinality({ j \in DOMAIN s : s[j] = IPV4 })) |->
                           IF i > Len(s) \/ s[i] = IPV4
                           THEN coded.in[IF i > Len(s) THEN 8 ELSE 7] ELSE s[i]]
            zeros(n) == [i \in 1..n |-> 0]
        IN  /\ Cardinality(gaps) <= 1
            /\ gaps = {} => numbers = coded.in
            /\ \A g \in gaps :
                  LET b == wide(before(g))
                      a == wide(after(g))
                  IN  Len(a) + Len(b) <= 6 /\ b \o zeros(8 - Len(a) - Len(b)) \o a = coded.in

\* The text encodings can be read back, and decoding stays inside buffers of
\* every size.
CodecsCorrect ==
    /\ Base64RoundTrips
    /\ DecodeStaysInside
    /\ HexRoundTrips
    /\ TokensFitAndAdvance
    /\ AddressReadsBack

=============================================================================
