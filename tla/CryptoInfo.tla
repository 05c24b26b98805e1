----------------------------- MODULE CryptoInfo ------------------------------
(***************************************************************************)
(* Descriptions of certificates and keys:                                  *)
(* src/src/crypto/avs_crypto_utils.c (from what they are made, walking and *)
(* copying them) and avs_crypto_pki_persistence.c (storing and restoring). *)
(*                                                                         *)
(* A description is [type, source, fields] or, for an array or a list,     *)
(* [type, source, items].  A copy keeps its descriptions and their data in *)
(* one block of memory; in it a field is a pointer [block, at, size] into  *)
(* the data, so that a pointer to a block that realloc has moved is seen.  *)
(***************************************************************************)
EXTENDS Persistence

CONSTANTS
    Infos,          \* descriptions given by the application
    MaxBlocks       \* bound: how often realloc may move an array

SOURCE_EMPTY == 0
SOURCE_FILE == 1
SOURCE_PATH == 2
SOURCE_BUFFER == 3
SOURCE_ARRAY == 4
SOURCE_LIST == 5
Composite == {SOURCE_ARRAY, SOURCE_LIST}

CHAIN == 1
CRL == 2
KEY == 3

NOPTR == [block |-> 0, at |-> 0, size |-> 0]

\* DATA_SOURCE_DEFINITIONS: the kinds of the fields
Definition(source) ==
    CASE source = SOURCE_FILE -> <<"string", "string">>
      [] source = SOURCE_PATH -> <<"string">>
      [] source = SOURCE_BUFFER -> <<"buffer", "string">>
      [] OTHER -> <<>>

\* avs_crypto_certificate_chain_info_from_file and the other constructors
FromFile(type, filename, password) ==
    [type |-> type, source |-> SOURCE_FILE, fields |-> <<filename, password>>]
FromPath(type, path) == [type |-> type, source |-> SOURCE_PATH, fields |-> <<path>>]
FromBuffer(type, buffer, password) ==
    [type |-> type, source |-> SOURCE_BUFFER, fields |-> <<buffer, password>>]
FromArray(type, items) == [type |-> type, source |-> SOURCE_ARRAY, items |-> items]
FromList(type, items) == [type |-> type, source |-> SOURCE_LIST, items |-> items]
Zeroed == [type |-> 0, source |-> SOURCE_EMPTY, fields |-> <<>>]

RECURSIVE Concat(_)
Concat(ss) == IF ss = <<>> THEN <<>> ELSE Head(ss) \o Concat(Tail(ss))

\* _avs_crypto_security_info_iterate: the entries that the callback is given
RECURSIVE Iterate(_)
Iterate(desc) ==
    IF desc.source = SOURCE_EMPTY THEN <<>>
    ELSE IF desc.source \in Composite
    THEN Concat([i \in DOMAIN desc.items |-> Iterate(desc.items[i])])
    ELSE <<desc>>

\* The bytes that a field takes in the data buffer
FieldBytes(kind, value) ==
    IF value = NULLPTR THEN <<>>
    ELSE IF kind = "string" THEN Append(value, ZEROBYTE) ELSE value

DataOf(desc) ==
    Concat([i \in DOMAIN desc.fields |->
               FieldBytes(Definition(desc.source)[i], desc.fields[i])])

CalculateDataBufferSize(desc) == Len(DataOf(desc))

RECURSIVE SumOf(_)
SumOf(s) == IF s = <<>> THEN 0 ELSE Head(s) + SumOf(Tail(s))

\* _avs_crypto_calculate_info_stats
InfoStats(desc, tag) ==
    LET entries == Iterate(desc)
    IN  [ok |-> \A i \in DOMAIN entries : entries[i].type = tag,
         count |-> Len(entries),
         size |-> SumOf([i \in DOMAIN entries |-> CalculateDataBufferSize(entries[i])])]

------------------------------------------------------------------------------
(* Blocks: [id, room, entries, data]; room is what was allocated for data   *)

\* copy_element: data of the fields goes behind what is there.
RECURSIVE CopyFields(_, _, _, _)
CopyFields(block, desc, i, pointers) ==
    LET bytes == FieldBytes(Definition(desc.source)[i], desc.fields[i])
        pointer == IF desc.fields[i] = NULLPTR THEN NOPTR
                   ELSE [block |-> block.id, at |-> Len(block.data), size |-> Len(bytes)]
    IN  IF i > Len(desc.fields)
        THEN [block EXCEPT !.entries = Append(@, [type |-> desc.type, source |-> desc.source,
                                                  fields |-> pointers])]
        ELSE CopyFields([block EXCEPT !.data = @ \o bytes], desc, i + 1,
                        Append(pointers, pointer))

CopyElement(block, desc) == CopyFields(block, desc, 1, <<>>)

RECURSIVE CopyEach(_, _)
CopyEach(block, entries) ==
    IF entries = <<>> THEN block ELSE CopyEach(CopyElement(block, Head(entries)), Tail(entries))

NewBlock(id, room) == [id |-> id, room |-> room, entries |-> <<>>, data |-> <<>>]

NoCopy == [ok |-> FALSE, blocks |-> <<>>]

\* copy_as_array: one block for everything
CopyAsArray(desc, tag, memory) ==
    LET stats == InfoStats(desc, tag)
    IN  IF ~stats.ok \/ (stats.count > 0 /\ memory = 0) THEN NoCopy
        ELSE [ok |-> TRUE,
              blocks |-> IF stats.count = 0 THEN <<>>
                         ELSE <<CopyEach(NewBlock(1, stats.size), Iterate(desc))>>]

\* copy_into_list: a block for each entry; all are released after an error.
CopyAsList(desc, tag, memory) ==
    LET entries == Iterate(desc)
    IN  IF \E i \in DOMAIN entries : entries[i].type # tag \/ i > memory THEN NoCopy
        ELSE [ok |-> TRUE,
              blocks |-> [i \in DOMAIN entries |->
                  CopyElement(NewBlock(i, CalculateDataBufferSize(entries[i])), entries[i])]]

CopyPrivateKey(desc, memory) ==
    LET stats == InfoStats(desc, KEY)
        block == CopyElement(NewBlock(1, stats.size), desc)
    IN  IF desc.source \in Composite \/ ~stats.ok \/ memory = 0 THEN NoCopy
        ELSE [ok |-> TRUE, blocks |-> <<[block EXCEPT !.entries[1].type = KEY]>>]

------------------------------------------------------------------------------
(* Storing                                                                  *)

PersistLength(value, kind) ==
    PersistUint(IF value = NULLPTR THEN UINT32_LIMIT - 1 ELSE Len(value), WIDTH32)

RECURSIVE PersistOffsets(_, _)
PersistOffsets(desc, i) ==
    IF i > Len(desc.fields) THEN Written(<<>>)
    ELSE IF desc.fields[i] # NULLPTR /\ Len(desc.fields[i]) >= UINT32_LIMIT - 1 THEN Refused
    ELSE Then(PersistLength(desc.fields[i], Definition(desc.source)[i]),
              PersistOffsets(desc, i + 1))

\* security_info_persistence: the source, the version, the data and where the
\* fields are in it
PersistEntry(desc) ==
    LET size == CalculateDataBufferSize(desc)
        head == Written(<<desc.source, 0>>)
    IN  IF Definition(desc.source) = <<>> THEN head
        ELSE IF size >= UINT32_LIMIT THEN Then(head, Refused)
        ELSE Then(Then(Then(head, PersistUint(size, WIDTH32)), Written(DataOf(desc))),
                  PersistOffsets(desc, 1))

RECURSIVE PersistEntries(_)
PersistEntries(entries) ==
    IF entries = <<>> THEN Written(<<>>)
    ELSE Then(PersistEntry(Head(entries)), PersistEntries(Tail(entries)))

InfoPersist(desc, tag) ==
    LET stats == InfoStats(desc, tag)
    IN  IF ~stats.ok \/ stats.count >= UINT32_LIMIT THEN Refused
        ELSE Then(PersistUint(stats.count, WIDTH32), PersistEntries(Iterate(desc)))

------------------------------------------------------------------------------
(* Restoring                                                                *)

\* Whether an element of the given size is in what is left of the data, that
\* begins at offset
ElementFits(data, offset, kind, size) ==
    LET left == Len(data) - offset
        text == SubSeq(data, offset + 1, offset + size + 1)
    IN  IF kind = "string"
        THEN size < left /\ { i \in DOMAIN text : text[i] = ZEROBYTE } = {size + 1}
        ELSE size <= left

\* security_info_buffer_offsets_persistence over the data of a block
\* from offset on; strings end with a null byte and have none inside.
RECURSIVE RestoreOffsets(_, _, _, _, _)
RestoreOffsets(block, in, source, offset, pointers) ==
    LET kinds == Definition(source)
        kind == kinds[Len(pointers) + 1]
        size == RestoreUint(in, WIDTH32, 0)
        taken == IF kind = "string" THEN size.value + 1 ELSE size.value
        pointer == [block |-> block.id, at |-> offset, size |-> taken]
    IN  IF Len(pointers) = Len(kinds)
        THEN [ok |-> offset = Len(block.data), in |-> in, fields |-> pointers]
        ELSE IF ~size.ok THEN [ok |-> FALSE, in |-> size.in, fields |-> pointers]
        ELSE IF size.value = UINT32_LIMIT - 1
        THEN RestoreOffsets(block, size.in, source, offset, Append(pointers, NOPTR))
        ELSE IF ~ElementFits(block.data, offset, kind, size.value)
        THEN [ok |-> FALSE, in |-> size.in, fields |-> pointers]
        ELSE RestoreOffsets(block, size.in, source, offset + taken,
                            Append(pointers, pointer))

\* data_source_persistence: the sources that have a code in the stored form
PersistedSources == {SOURCE_EMPTY, SOURCE_FILE, SOURCE_PATH, SOURCE_BUFFER}

\* The head of an entry: [ok, in, source, size]
RestoreHead(in) ==
    LET source == RestoreBytes(in, 1, 0)
        version == RestoreVersion(source.in, {0}, 0)
        size == RestoreUint(version.in, WIDTH32, 0)
        known == source.ok /\ source.value[1] \in PersistedSources
    IN  IF ~known \/ ~version.ok THEN [ok |-> FALSE, in |-> in, source |-> 0, size |-> 0]
        ELSE IF Definition(source.value[1]) = <<>>
        THEN [ok |-> TRUE, in |-> version.in, source |-> source.value[1], size |-> 0]
        ELSE [ok |-> size.ok, in |-> size.in, source |-> source.value[1],
              size |-> IF size.ok THEN size.value ELSE 0]

\* security_info_array_allocator: room for the data of one more entry; when
\* realloc moves the block, the pointers of the entries already restored are
\* moved along.
GrowUnmoved(block, size, id) == [block EXCEPT !.id = id, !.room = @ + size]

Grow(block, size, id) ==
    [block EXCEPT !.id = id, !.room = @ + size,
        !.entries = [i \in DOMAIN block.entries |->
            [block.entries[i] EXCEPT !.fields = [f \in DOMAIN @ |->
                IF @[f] = NOPTR THEN NOPTR ELSE [@[f] EXCEPT !.block = id]]]]]

\* security_info_persistence of one entry into a block, whose address is id once
\* there is room for the data
RestoreEntry(block, in, tag, id) ==
    LET Entry(source, filled, offsets) ==
            [ok |-> offsets.ok, in |-> offsets.in,
             block |-> [filled EXCEPT !.entries = Append(@,
                 [type |-> tag, source |-> source, fields |-> offsets.fields])]]
        Filled(source, filled, data) ==
            Entry(source, filled,
                  RestoreOffsets(filled, data.in, source, Len(block.data), <<>>))
        Headed(head) ==
            LET grown == IF head.size > 0 THEN Grow(block, head.size, id) ELSE block
                data == RestoreBytes(head.in, head.size, 0)
            IN  IF ~head.ok \/ ~data.ok THEN [ok |-> FALSE, block |-> block, in |-> head.in]
                ELSE Filled(head.source, [grown EXCEPT !.data = @ \o data.value], data)
    IN  Headed(RestoreHead(in))

\* What the allocator does for the entry that count are left from: "stays",
\* "moves" or "fails"
Allocates(plan, count) == IF count \in DOMAIN plan THEN plan[count] ELSE "stays"

RECURSIVE RestoreArrayFrom(_, _, _, _, _)
RestoreArrayFrom(block, in, tag, count, plan) ==
    LET id == IF Allocates(plan, count) = "moves" THEN block.id + 1 ELSE block.id
        Added(e) == IF ~e.ok \/ Allocates(plan, count) = "fails" THEN NoCopy
                    ELSE RestoreArrayFrom(e.block, e.in, tag, count - 1, plan)
    IN  IF count = 0 THEN [ok |-> TRUE, blocks |-> IF block.entries = <<>> THEN <<>> ELSE <<block>>]
        ELSE Added(RestoreEntry(block, in, tag, id))

\* security_info_array_persistence: one block that grows with every entry
RestoreArray(in, tag, plan) ==
    LET count == RestoreUint(in, WIDTH32, 0)
    IN  IF ~count.ok THEN NoCopy
        ELSE RestoreArrayFrom(NewBlock(1, 0), count.in, tag, count.value, plan)

RECURSIVE RestoreListFrom(_, _, _, _, _)
RestoreListFrom(blocks, in, tag, count, plan) ==
    LET Added(e) == IF ~e.ok \/ Allocates(plan, count) = "fails" THEN NoCopy
                    ELSE RestoreListFrom(Append(blocks, e.block), e.in, tag, count - 1, plan)
    IN  IF count = 0 THEN [ok |-> TRUE, blocks |-> blocks]
        ELSE Added(RestoreEntry(NewBlock(Len(blocks) + 1, 0), in, tag, Len(blocks) + 1))

\* security_info_list_persistence: a block for each entry
RestoreList(in, tag, plan) ==
    LET count == RestoreUint(in, WIDTH32, 0)
    IN  IF ~count.ok THEN NoCopy ELSE RestoreListFrom(<<>>, count.in, tag, count.value, plan)

\* avs_crypto_private_key_info_persistence
PersistKey(desc) == IF desc.source \notin PersistedSources THEN Refused ELSE PersistEntry(desc)

RestoreKey(in, plan) == RestoreListFrom(<<>>, in, KEY, 1, plan)

------------------------------------------------------------------------------
(* An application copies, stores and restores a description                 *)

VARIABLES
    info,       \* the description
    saved,      \* what was stored: [ok, out], and whether it is a private key
    copy,       \* the last copy or restored description: [ok, blocks], and
                \* whether it was made from a record that is damaged
    damaged     \* a byte of what was stored has changed

ciVars == <<info, saved, copy, damaged>>

CiInit ==
    /\ info \in Infos
    /\ saved = [ok |-> FALSE, out |-> <<>>, key |-> FALSE] /\ damaged = FALSE
    /\ copy = [ok |-> FALSE, blocks |-> <<>>, sound |-> TRUE]

Holding(r, sound) == copy' = [ok |-> r.ok, blocks |-> r.blocks, sound |-> sound]
Saving(r, key) == saved' = [ok |-> r.ok, out |-> r.out, key |-> key]

CopyInfo(memory) ==
    /\ \/ Holding(CopyAsArray(info, CHAIN, memory), TRUE)
       \/ Holding(CopyAsList(info, CHAIN, memory), TRUE)
       \/ Holding(CopyPrivateKey(info, memory), TRUE)
    /\ UNCHANGED <<info, saved, damaged>>

\* The assertion of security_info_persistence: a private key is one
SaveInfo ==
    /\ \/ Saving(InfoPersist(info, CHAIN), FALSE)
       \/ /\ info.source = SOURCE_EMPTY \/ info.type = KEY
          /\ Saving(PersistKey(info), TRUE)
    /\ damaged' = FALSE /\ UNCHANGED <<info, copy>>

DamageInfo(i, b) ==
    /\ saved.ok /\ ~damaged /\ i \in DOMAIN saved.out
    /\ saved' = [saved EXCEPT !.out[i] = b]
    /\ damaged' = TRUE /\ UNCHANGED <<info, copy>>

RestoreInfo(plan) ==
    /\ saved.ok
    /\ \/ ~saved.key /\ Holding(RestoreArray(saved.out, CHAIN, plan), ~damaged)
       \/ ~saved.key /\ Holding(RestoreList(saved.out, CHAIN, plan), ~damaged)
       \/ saved.key /\ Holding(RestoreKey(saved.out, plan), ~damaged)
    /\ UNCHANGED <<info, saved, damaged>>

CiNext ==
    \/ \E memory \in 0..3 : CopyInfo(memory)
    \/ SaveInfo
    \/ \E i \in DOMAIN saved.out, b \in 0..BYTE-1 : DamageInfo(i, b)
    \/ \E plan \in [1..MaxBlocks -> {"stays", "moves", "fails"}] : RestoreInfo(plan)

------------------------------------------------------------------------------

\* A pointer of a copy into its own block, at the bytes that it should be
Points(block, p) ==
    p = NOPTR \/ (p.block = block.id /\ p.at + p.size <= Len(block.data))

\* Every pointer of a copied or restored description points into the block
\* that it lives in, wherever realloc has moved it and however many entries
\* came after: no pointer is left to memory that was given back.
PointersStayValid ==
    \A b \in DOMAIN copy.blocks :
        LET block == copy.blocks[b]
        IN  \A e \in DOMAIN block.entries :
               \A f \in DOMAIN block.entries[e].fields : Points(block, block.entries[e].fields[f])

\* The data of a copy fits what _avs_crypto_calculate_info_stats counted, to
\* the byte: it is counted in one walk and written in another.
CopiesFitTheirBlocks ==
    \A b \in DOMAIN copy.blocks : Len(copy.blocks[b].data) = copy.blocks[b].room

\* What a block says, read through its pointers
Reading(block, p, kind) ==
    IF p = NOPTR THEN NULLPTR
    ELSE SubSeq(block.data, p.at + 1, p.at + p.size - (IF kind = "string" THEN 1 ELSE 0))

ReadEntry(block, e) ==
    [type |-> e.type, source |-> e.source,
     fields |-> [f \in DOMAIN e.fields |-> Reading(block, e.fields[f], Definition(e.source)[f])]]

Reads(c) ==
    Concat([b \in DOMAIN c.blocks |->
        [e \in DOMAIN c.blocks[b].entries |-> ReadEntry(c.blocks[b], c.blocks[b].entries[e])]])

\* A copy, and what is restored from what was stored, says the same as the
\* original, nested arrays and lists made flat and empty entries left out (a
\* private key may be empty).
CopiesSayTheSame ==
    copy.ok /\ copy.sound =>
        \/ Reads(copy) = Iterate(info)
        \/ info = Zeroed /\ Reads(copy) = <<[Zeroed EXCEPT !.type = KEY]>>

\* What is restored from a changed record still has only whole strings and
\* buffers inside its data, and accounts for all of that data.
RestoredIsWellFormed ==
    copy.ok => \A b \in DOMAIN copy.blocks :
        LET block == copy.blocks[b]
            all == Concat([e \in DOMAIN block.entries |-> block.entries[e].fields])
        IN  /\ SumOf([f \in DOMAIN all |-> all[f].size]) = Len(block.data)
            /\ \A e \in DOMAIN block.entries :
                  LET kinds == Definition(block.entries[e].source)
                      fields == block.entries[e].fields
                  IN  \A f \in DOMAIN fields :
                         kinds[f] = "string" /\ fields[f] # NOPTR
                            => block.data[fields[f].at + fields[f].size] = ZEROBYTE

\* Descriptions of certificates and keys that were copied, or stored and
\* restored, say the same and point into their own memory.
CryptoInfoCorrect ==
    /\ PointersStayValid
    /\ CopiesFitTheirBlocks
    /\ CopiesSayTheSame
    /\ RestoredIsWellFormed

=============================================================================
