----------------------------- MODULE Persistence -----------------------------
(***************************************************************************)
(* Storing and restoring of values: src/src/persistence/avs_persistence.c. *)
(* A stream is the bytes not yet read, or those written so far; a byte has *)
(* BYTE values and the integers WIDTH16, WIDTH32 and WIDTH64 bytes, so that*)
(* counts at the limit of 32 bits are met.  A restore works with a budget  *)
(* of allocations and keeps count of those it holds.                       *)
(***************************************************************************)
EXTENDS Integers, Sequences

CONSTANTS BYTE, WIDTH16, WIDTH32, WIDTH64

NULLPTR == <<-1>>       \* no string, no buffer; not a value of any field
ZEROBYTE == 0

\* avs_convert_be16 and the others: most significant byte first
BigEndian(n, width) == [i \in 1..width |-> (n \div (BYTE ^ (width - i))) % BYTE]

RECURSIVE FromBigEndian(_)
FromBigEndian(s) ==
    IF s = <<>> THEN 0
    ELSE s[Len(s)] + BYTE * FromBigEndian(SubSeq(s, 1, Len(s) - 1))

UINT32_LIMIT == BYTE ^ WIDTH32

------------------------------------------------------------------------------
(* Storing: [ok, out], what is written before an error stays written        *)

Written(out) == [ok |-> TRUE, out |-> out]
Refused == [ok |-> FALSE, out |-> <<>>]

Then(a, b) == IF a.ok THEN [ok |-> b.ok, out |-> a.out \o b.out] ELSE a

PersistUint(n, width) == Written(BigEndian(n, width))

\* size32 != *size_ptr: the size does not fit.
PersistSizedBuffer(data) ==
    LET size == IF data = NULLPTR THEN 0 ELSE Len(data)
    IN  IF size >= UINT32_LIMIT THEN Refused
        ELSE Then(PersistUint(size, WIDTH32), Written(IF size = 0 THEN <<>> ELSE data))

PersistString(text) ==
    PersistSizedBuffer(IF text = NULLPTR THEN NULLPTR ELSE Append(text, ZEROBYTE))

RECURSIVE PersistEach(_, _, _)
PersistEach(items, i, kind) ==
    IF i > Len(items) THEN Written(<<>>)
    ELSE Then(IF kind = "string" THEN PersistString(items[i])
              ELSE PersistUint(items[i], WIDTH16),
              PersistEach(items, i + 1, kind))

\* A list, or a tree in the order of its elements
PersistCollection(items, kind) ==
    IF Len(items) >= UINT32_LIMIT THEN Refused
    ELSE Then(PersistUint(Len(items), WIDTH32), PersistEach(items, 1, kind))

------------------------------------------------------------------------------
(* Restoring from in with memory for so many allocations:                   *)
(* [ok, value, in, memory, held]                                            *)

Restored(value, in, memory, held) ==
    [ok |-> TRUE, value |-> value, in |-> in, memory |-> memory, held |-> held]
Failed(in, memory, held) ==
    [ok |-> FALSE, value |-> NULLPTR, in |-> in, memory |-> memory, held |-> held]

\* avs_stream_read_reliably: so many bytes, or an error and what there is
RestoreBytes(in, n, memory) ==
    IF Len(in) < n THEN Failed(<<>>, memory, 0)
    ELSE Restored(SubSeq(in, 1, n), SubSeq(in, n + 1, Len(in)), memory, 0)

RestoreUint(in, width, memory) ==
    LET Read(r) == IF r.ok THEN [r EXCEPT !.value = FromBigEndian(@)] ELSE r
    IN  Read(RestoreBytes(in, width, memory))

RestoreSizedBuffer(in, memory) ==
    LET Filled(data) == IF data.ok THEN [data EXCEPT !.held = 1]
                        ELSE [data EXCEPT !.memory = memory]        \* avs_free
        Sized(size) ==
            IF ~size.ok THEN size
            ELSE IF size.value = 0 THEN Restored(NULLPTR, size.in, memory, 0)
            ELSE IF memory = 0 THEN Failed(size.in, 0, 0)
            ELSE Filled(RestoreBytes(size.in, size.value, memory - 1))
    IN  Sized(RestoreUint(in, WIDTH32, memory))

\* The text is what comes before the first null byte.
RestoreString(in, memory) ==
    LET Text(r) ==
            LET zeros == { i \in DOMAIN r.value : r.value[i] = ZEROBYTE }
                first == CHOOSE i \in zeros : \A j \in zeros : i <= j
            IN  IF ~r.ok \/ r.value = NULLPTR THEN r
                ELSE IF r.value[Len(r.value)] # ZEROBYTE THEN Failed(r.in, memory, 0)
                ELSE [r EXCEPT !.value = SubSeq(@, 1, first - 1)]
    IN  Text(RestoreSizedBuffer(in, memory))

\* One element: persistence_list_handler or persistence_tree_handler allocates
\* it, then the application's handler restores a string or a u16.  Without
\* memory the handler is called with a null pointer, as the macro checks element
\* where it means *element.  A handler that looks at its argument returns an
\* error; restore_u16 takes a null pointer and only skips the bytes.
RestoreElement(in, memory, kind) ==
    LET Handled(inner) == [inner EXCEPT !.held = @ + 1]
    IN  IF memory = 0
        THEN IF kind = "string" THEN Failed(in, 0, 0)
             ELSE [RestoreUint(in, WIDTH16, 0) EXCEPT !.value = NULLPTR]
        ELSE Handled(IF kind = "string" THEN RestoreString(in, memory - 1)
                     ELSE RestoreUint(in, WIDTH16, memory - 1))

\* restore_list and restore_tree: an element is kept even if its handler
\* failed, one that could not be allocated is passed over, and everything is
\* released after an error (a list only if the caller gives a cleanup function).
RECURSIVE RestoreEach(_, _, _, _, _, _)
RestoreEach(in, count, memory, kind, items, held) ==
    LET Added(r) ==
            LET element == r.held > 0
                twice == kind = "tree" /\ element /\ \E i \in DOMAIN items : items[i] = r.value
            IN  IF ~r.ok \/ twice THEN Failed(r.in, r.memory, held + r.held)
                ELSE RestoreEach(r.in, count - 1, r.memory, kind,
                                 IF element THEN Append(items, r.value) ELSE items,
                                 held + r.held)
    IN  IF count = 0 THEN Restored(items, in, memory, held)
        ELSE Added(RestoreElement(in, memory, kind))

RestoreCollectionKeeping(in, memory, kind, cleanup) ==
    LET Counted(count) ==
            IF ~count.ok THEN count
            ELSE RestoreEach(count.in, count.value, memory, kind, <<>>, 0)
    IN  Counted(RestoreUint(in, WIDTH32, memory))

RestoreCollection(in, memory, kind, cleanup) ==
    LET Cleaned(all) == IF all.ok \/ ~cleanup THEN all
                        ELSE [all EXCEPT !.memory = @ + all.held, !.held = 0]
        Counted(count) ==
            IF ~count.ok THEN count
            ELSE Cleaned(RestoreEach(count.in, count.value, memory, kind, <<>>, 0))
    IN  Counted(RestoreUint(in, WIDTH32, memory))

RestoreMagic(in, magic, memory) ==
    LET r == RestoreBytes(in, Len(magic), memory)
    IN  IF magic = <<>> THEN Restored(magic, in, memory, 0)
        ELSE IF memory = 0 THEN Failed(in, 0, 0)
        ELSE [r EXCEPT !.ok = r.ok /\ r.value = magic]

RestoreVersion(in, supported, memory) ==
    LET r == RestoreBytes(in, 1, memory)
    IN  [r EXCEPT !.ok = r.ok /\ r.value[1] \in supported,
                  !.value = IF r.ok THEN @[1] ELSE @]

=============================================================================
