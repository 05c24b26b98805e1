------------------------------ MODULE ListLinks ------------------------------
(***************************************************************************)
(* The lists of src/src/list/avs_list.c as they are in memory: next holds  *)
(* for every element the address of the one after it, NULL_ is the null    *)
(* pointer, and a place (a pointer to a list) is a head variable or the next  *)
(* field of an element.  Two lists are changed by the operations of the    *)
(* source, and two sequences by those of AvsList, which the scheduler is   *)
(* modelled with; the lists should always be the sequences.                *)
(***************************************************************************)
EXTENDS AvsList, FiniteSets

CONSTANTS
    ListElements,   \* addresses, numbers above 0
    ListKey(_)      \* what the comparator compares

NULL_ == 0

\* next also holds the two head variables, HEAD1 and HEAD2.
HEAD1 == -1
HEAD2 == -2
Places == ListElements \cup {HEAD1, HEAD2}

VARIABLES
    next,       \* the links
    seq1, seq2, \* ghost: the lists as sequences
    ops         \* the name of the last operation

llVars == <<next, seq1, seq2, ops>>

------------------------------------------------------------------------------
(* Operations on links n; head is a place                                   *)

RECURSIVE PlaceOf(_, _, _)
\* avs_list_nth_ptr__: the place of element number i (from 0), if there is one
PlaceOf(n, place, i) ==
    IF n[place] = NULL_ THEN NULL_
    ELSE IF i = 0 THEN place ELSE PlaceOf(n, n[place], i - 1)

RECURSIVE AppendPtr(_, _)
AppendPtr(n, place) == IF n[place] = NULL_ THEN place ELSE AppendPtr(n, n[place])

\* Where the application inserts: at an element, or at the end
InsertPtr(n, head, i) ==
    IF PlaceOf(n, head, i) = NULL_ THEN AppendPtr(n, head) ELSE PlaceOf(n, head, i)

RECURSIVE FindPtr_(_, _, _)
FindPtr_(n, place, e) ==
    IF n[place] = NULL_ THEN NULL_
    ELSE IF n[place] = e THEN place ELSE FindPtr_(n, n[place], e)

RECURSIVE FindByValue(_, _, _)
FindByValue(n, place, key) ==
    IF n[place] = NULL_ THEN NULL_
    ELSE IF ListKey(n[place]) = key THEN n[place]
    ELSE FindByValue(n, n[place], key)

RECURSIVE SizeOf(_, _)
SizeOf(n, place) == IF n[place] = NULL_ THEN 0 ELSE 1 + SizeOf(n, n[place])

AppendTo(n, head, e) == [n EXCEPT ![AppendPtr(n, head)] = e]

\* avs_list_insert__: a whole list goes before what the place points at.
LinkAt(n, place, e) ==
    LET following == n[place]
        n1 == [n EXCEPT ![place] = e]
    IN  IF e = NULL_ THEN n
        ELSE IF following = NULL_ THEN n1
        ELSE [n1 EXCEPT ![AppendPtr(n, e)] = following]

DetachAtDangling(n, place) == [n EXCEPT ![place] = n[n[place]]]

DetachAt(n, place) == [n EXCEPT ![place] = n[n[place]], ![n[place]] = NULL_]

\* avs_list_merge__ of the list at source into the one at target
RECURSIVE SkipLessOrEqual(_, _, _)
SkipLessOrEqual(n, target, e) ==
    IF n[target] # NULL_ /\ ListKey(n[target]) <= ListKey(e)
    THEN SkipLessOrEqual(n, n[target], e) ELSE target

RECURSIVE MergeInto(_, _, _)
MergeInto(n, target, source) ==
    LET e == n[source]
        place == SkipLessOrEqual(n, target, e)
    IN  IF e = NULL_ THEN n
        ELSE MergeInto(LinkAt(DetachAt(n, source), place, e), e, source)

\* half_list: the place behind the first half (of a list of two or more)
HalfPlace(n, head) == PlaceOf(n, head, SizeOf(n, head) \div 2)

\* avs_list_sort__; the two parts are lists with heads of their own, here two
\* sets of links that agree on everything else.
RECURSIVE SortAt(_, _)
SortAt(n, head) ==
    LET half == HalfPlace(n, head)
        rest == n[half]
        cut == [n EXCEPT ![half] = NULL_]
        s1 == SortAt(cut, head)
        s2 == SortAt([s1 EXCEPT ![head] = rest], head)
        \* both parts are sorted: merge the second, whose head is another
        \* local variable, into the first
        both == [p \in DOMAIN n \cup {-3} |->
                    IF p = -3 THEN s2[head] ELSE IF p = head THEN s1[head] ELSE s2[p]]
        merged == MergeInto(both, head, -3)
    IN  IF n[head] = NULL_ \/ n[n[head]] = NULL_ THEN n
        ELSE [p \in DOMAIN n |-> merged[p]]

RECURSIVE CyclicFrom(_, _, _)
CyclicFrom(n, slow, fast2) ==
    LET f1 == n[fast2]
        f2 == n[f1]
    IN  IF f1 = NULL_ \/ f2 = NULL_ THEN FALSE
        ELSE IF slow \in {f1, f2} THEN TRUE
        ELSE CyclicFrom(n, n[slow], f2)

IsCyclic(n, list) == list # NULL_ /\ CyclicFrom(n, list, list)

\* avs_list_simple_clone__ of a list of so many elements with memory for some
\* more: all are copied, or none is left.
RECURSIVE CloneFrom(_, _, _, _)
CloneFrom(n, it, memory, copied) ==
    IF it = NULL_ THEN [ok |-> TRUE, left |-> Len(copied), copy |-> copied]
    ELSE IF memory = 0 THEN [ok |-> FALSE, left |-> 0, copy |-> <<>>]
    ELSE CloneFrom(n, n[it], memory - 1, Append(copied, ListKey(it)))

------------------------------------------------------------------------------
(* A program with two lists                                                 *)

LlInit ==
    /\ next = [p \in Places |-> NULL_]
    /\ seq1 = <<>> /\ seq2 = <<>> /\ ops = "none"

Outside == ListElements \ ({ seq1[i] : i \in DOMAIN seq1 }
                           \cup { seq2[i] : i \in DOMAIN seq2 })

LlInsert(e, i) ==
    /\ e \in Outside
    /\ next' = LinkAt(next, InsertPtr(next, HEAD1, i - 1), e)
    /\ seq1' = ListInsert(seq1, i, e)
    /\ ops' = "insert" /\ UNCHANGED seq2

LlAppend(e) ==
    /\ e \in Outside
    /\ next' = AppendTo(next, HEAD2, e)
    /\ seq2' = Append(seq2, e)
    /\ ops' = "append" /\ UNCHANGED seq1

LlDetach(e) ==
    LET i == ListFindPtr(seq1, e)
    IN  /\ ListContains(seq1, e)
        /\ next' = DetachAt(next, FindPtr_(next, HEAD1, e))
        /\ seq1' = ListDetach(seq1, i)
        /\ ops' = "detach" /\ UNCHANGED seq2

\* The second list is inserted as a whole.
LlInsertList(i) ==
    LET moved == LinkAt(next, InsertPtr(next, HEAD1, i - 1), next[HEAD2])
    IN  /\ next' = [moved EXCEPT ![HEAD2] = NULL_]
        /\ seq1' = SubSeq(seq1, 1, i - 1) \o seq2 \o SubSeq(seq1, i, Len(seq1))
        /\ seq2' = <<>> /\ ops' = "insert_list"

Sorted(s) == \A i, j \in DOMAIN s : i < j => ListKey(s[i]) <= ListKey(s[j])

\* What a stable sort of a sequence is.
StablySorted(s) ==
    CHOOSE t \in [DOMAIN s -> { s[i] : i \in DOMAIN s }] :
        LET at(e) == CHOOSE i \in DOMAIN s : s[i] = e
        IN  /\ { t[i] : i \in DOMAIN t } = { s[i] : i \in DOMAIN s }
            /\ \A i, j \in DOMAIN t :
                  i < j => \/ ListKey(t[i]) < ListKey(t[j])
                           \/ ListKey(t[i]) = ListKey(t[j]) /\ at(t[i]) < at(t[j])

LlSort ==
    /\ next' = SortAt(next, HEAD1)
    /\ seq1' = StablySorted(seq1)
    /\ ops' = "sort" /\ UNCHANGED seq2

LlMerge ==
    /\ Sorted(seq1) /\ Sorted(seq2)
    /\ next' = MergeInto(next, HEAD1, HEAD2)
    /\ seq1' = StablySorted(seq1 \o seq2)
    /\ seq2' = <<>> /\ ops' = "merge"

LlNext ==
    \/ \E e \in ListElements : \/ \E i \in 1..(Len(seq1) + 1) : LlInsert(e, i)
                               \/ LlAppend(e) \/ LlDetach(e)
    \/ \E i \in 1..(Len(seq1) + 1) : LlInsertList(i)
    \/ LlSort \/ LlMerge

------------------------------------------------------------------------------

RECURSIVE ChainFrom(_, _, _)
ChainFrom(n, place, steps) ==
    IF n[place] = NULL_ \/ steps = 0 THEN <<>>
    ELSE <<n[place]>> \o ChainFrom(n, n[place], steps - 1)
Chain(n, head) == ChainFrom(n, head, Cardinality(ListElements) + 1)

\* The linked lists are the sequences that the operations of AvsList and a
\* stable sort make: nothing is lost, shared or left in a cycle, and an
\* element outside the lists has no successor (AVS_LIST_APPEND of it to
\* another list would drag one along).
ListsAreSequences ==
    /\ Chain(next, HEAD1) = seq1 /\ Chain(next, HEAD2) = seq2
    /\ \A e \in Outside : next[e] = NULL_
    /\ SizeOf(next, HEAD1) = Len(seq1)
    /\ ~IsCyclic(next, next[HEAD1]) /\ ~IsCyclic(next, next[HEAD2])

\* avs_list_is_cyclic__ finds a cycle if and only if there is one: checked
\* with each element of the list linked back to each.
CyclesAreFound ==
    \A i, j \in DOMAIN seq1 :
        LET bent == [next EXCEPT ![seq1[i]] = seq1[j]]
            looks == [p \in DOMAIN bent \cup {NULL_} |->
                         IF p = NULL_ THEN NULL_ ELSE bent[p]]
        IN  IsCyclic(looks, looks[HEAD1]) <=> j <= i

\* A search by value gives the first of equal elements, and a clone copies
\* every element or, when memory runs out, leaves none.
FirstMatchAndWholeClone ==
    /\ \A e \in ListElements :
          LET found == FindByValue(next, HEAD1, ListKey(e))
              same == { i \in DOMAIN seq1 : ListKey(seq1[i]) = ListKey(e) }
          IN  found = IF same = {} THEN NULL_
                      ELSE seq1[CHOOSE i \in same : \A j \in same : i <= j]
    /\ \A memory \in 0..Cardinality(ListElements) :
          LET c == CloneFrom(next, next[HEAD1], memory, <<>>)
          IN  /\ c.ok <=> memory >= Len(seq1)
              /\ c.copy = IF c.ok THEN [i \in DOMAIN seq1 |-> ListKey(seq1[i])] ELSE <<>>

\* Linked lists after any sequence of calls are the sequences they stand for,
\* and the searches and the clone see all of them.
ListsCorrect ==
    /\ ListsAreSequences
    /\ CyclesAreFound
    /\ FirstMatchAndWholeClone

=============================================================================
