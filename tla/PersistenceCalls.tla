-------------------------- MODULE PersistenceCalls ---------------------------
(***************************************************************************)
(* A program stores a record with Persistence, the medium may lose its end *)
(* or change a byte, and the record is restored, perhaps with too little   *)
(* memory.  A record is a sequence of fields [kind, value].                *)
(***************************************************************************)
EXTENDS Persistence

CONSTANTS
    Records,        \* what is stored
    Magic,          \* the marker before it
    Versions,       \* the versions that can be restored
    MaxMemory       \* bound: the largest budget of allocations

VARIABLES
    record,     \* what is stored
    medium,     \* [bytes, whole]: what is stored of it, and whether all
    restored,   \* the result of restoring, Nothing before
    budget,     \* the memory that there was
    stage

psVars == <<record, medium, restored, budget, stage>>

StoreField(f) ==
    CASE f.kind = "u16" -> PersistUint(f.value, WIDTH16)
      [] f.kind = "u64" -> PersistUint(f.value, WIDTH64)
      [] f.kind = "bytes" -> Written(f.value)
      [] f.kind = "buffer" -> PersistSizedBuffer(f.value)
      [] f.kind = "string" -> PersistString(f.value)
      [] f.kind = "strings" -> PersistCollection(f.value, "string")
      [] f.kind = "numbers" -> PersistCollection(f.value, "u16")
      [] f.kind = "tree" -> PersistCollection(f.value, "tree")

RestoreField(f, in, memory) ==
    CASE f.kind = "u16" -> RestoreUint(in, WIDTH16, memory)
      [] f.kind = "u64" -> RestoreUint(in, WIDTH64, memory)
      [] f.kind = "bytes" -> RestoreBytes(in, Len(f.value), memory)
      [] f.kind = "buffer" -> RestoreSizedBuffer(in, memory)
      [] f.kind = "string" -> RestoreString(in, memory)
      [] f.kind = "strings" -> RestoreCollection(in, memory, "string", TRUE)
      [] f.kind = "numbers" -> RestoreCollection(in, memory, "u16", TRUE)
      [] f.kind = "tree" -> RestoreCollection(in, memory, "tree", TRUE)

RECURSIVE StoreFields(_, _)
StoreFields(r, i) ==
    IF i > Len(r) THEN Written(<<>>) ELSE Then(StoreField(r[i]), StoreFields(r, i + 1))

StoreRecord(r, version) ==
    Then(Written(Magic \o <<version>>), StoreFields(r, 1))

\* The fields one after the other; after an error the program releases those
\* that it already has, which leaves what the failed one holds.
RECURSIVE RestoreFields(_, _, _, _, _, _)
RestoreFields(r, i, in, memory, values, held) ==
    LET Added(f) ==
            IF ~f.ok THEN f
            ELSE RestoreFields(r, i + 1, f.in, f.memory, Append(values, f.value), held + f.held)
    IN  IF i > Len(r) THEN Restored(values, in, memory, held)
        ELSE Added(RestoreField(r[i], in, memory))

RestoreRecord(r, in, memory) ==
    LET Versioned(version) ==
            IF ~version.ok THEN version
            ELSE RestoreFields(r, 1, version.in, memory, <<>>, 0)
        Marked(magic) ==
            IF ~magic.ok THEN magic
            ELSE Versioned(RestoreVersion(magic.in, Versions, memory))
    IN  Marked(RestoreMagic(in, Magic, memory))

Nothing == Failed(<<>>, 0, 0)

PsInit ==
    /\ record \in Records
    /\ medium = [bytes |-> <<>>, whole |-> FALSE, changed |-> FALSE]
    /\ restored = Nothing /\ budget = 0 /\ stage = "new"

Store ==
    LET s == StoreRecord(record, CHOOSE v \in Versions : TRUE)
    IN  /\ stage = "new" /\ stage' = "stored"
        /\ medium' = [medium EXCEPT !.bytes = s.out, !.whole = s.ok]
        /\ UNCHANGED <<record, restored, budget>>

\* The end is lost: a crash while the record was written.
LoseEnd(n) ==
    /\ stage = "stored" /\ n < Len(medium.bytes) /\ ~medium.changed
    /\ medium' = [medium EXCEPT !.bytes = SubSeq(@, 1, n), !.whole = FALSE]
    /\ UNCHANGED <<record, restored, budget, stage>>

ChangeByte(i, b) ==
    /\ stage = "stored" /\ i \in DOMAIN medium.bytes
    /\ medium.whole /\ ~medium.changed
    /\ medium' = [medium EXCEPT !.bytes[i] = b, !.changed = TRUE]
    /\ UNCHANGED <<record, restored, budget, stage>>

Restore(memory) ==
    /\ stage = "stored" /\ stage' = "restored"
    /\ restored' = RestoreRecord(record, medium.bytes, memory)
    /\ budget' = memory
    /\ UNCHANGED <<record, medium>>

Again ==
    /\ stage = "restored" /\ stage' = "stored"
    /\ restored' = Nothing /\ budget' = 0 /\ UNCHANGED <<record, medium>>

PsNext ==
    \/ Store \/ Again
    \/ \E n \in 0..Len(medium.bytes) :
          \/ LoseEnd(n)
          \/ \E b \in 0..(BYTE - 1) : ChangeByte(n, b)
    \/ \E memory \in 0..MaxMemory : Restore(memory)

------------------------------------------------------------------------------

\* The value of a field that was restored is the one that was stored; of
\* numbers whose elements avs_persistence_list or avs_persistence_tree could not
\* all allocate it is those before the memory ran out.
Same(f, value) ==
    \/ value = f.value
    \/ /\ f.kind \in {"numbers", "tree"} /\ restored.memory = 0
       /\ Len(value) < Len(f.value) /\ value = SubSeq(f.value, 1, Len(value))

\* What was stored whole comes back the same, byte order, null strings and
\* empty ones included, and nothing of the stream is left; only a lack of
\* memory can prevent it.
RestoresTheSame ==
    stage = "restored" /\ medium.whole /\ ~medium.changed
        => IF restored.ok
           THEN /\ \A i \in DOMAIN record : Same(record[i], restored.value[i])
                /\ Len(restored.value) = Len(record) /\ restored.in = <<>>
           ELSE budget < MaxMemory

\* What avs_persistence.h says of avs_persistence_list and avs_persistence_tree:
\* AVS_OK for success, or an error for which the operation failed.  Elements
\* that could not be allocated are left out of a collection restored with AVS_OK.
SuccessRestoresAll ==
    stage = "restored" /\ medium.whole /\ ~medium.changed /\ restored.ok
        => restored.value = [i \in DOMAIN record |-> record[i].value]

\* A record whose end is missing is never taken for a whole one, wherever it
\* was cut: the counts and sizes before the data give it away.
TruncationIsNoticed ==
    stage = "restored" /\ ~medium.whole /\ ~medium.changed => ~restored.ok

\* Nothing is left allocated after a failure, whether it is the data or the
\* memory, also in the middle of a list or a tree.
FailureHoldsNothing == stage = "restored" /\ ~restored.ok => restored.held = 0

\* What is restored from a changed record is a record that can be stored: a
\* string has its end, a tree no element twice.
RestoredCanBeStored ==
    stage = "restored" /\ restored.ok =>
        LET fields == [i \in DOMAIN record |-> [record[i] EXCEPT !.value = restored.value[i]]]
            again == StoreRecord(fields, CHOOSE v \in Versions : TRUE)
            back == RestoreRecord(fields, again.out, MaxMemory)
        IN  again.ok /\ back.ok /\ back.value = restored.value

\* A record that was stored is restored, one that was cut or changed is
\* refused or still a record, and a failure holds no memory.
PersistenceCorrect ==
    /\ RestoresTheSame
    /\ TruncationIsNoticed
    /\ FailureHoldsNothing
    /\ RestoredCanBeStored

=============================================================================
