------------------------------ MODULE AvsVector ------------------------------
(***************************************************************************)
(* The growing array of src/src/vector/avs_vector.c.  A vector is its size,*)
(* its capacity and the cells allocated; ANY is what a cell holds before   *)
(* something is written to it.  contents is the ghost sequence that the    *)
(* vector stands for; an element whose cell was given back is ANY in it.   *)
(***************************************************************************)
EXTENDS Integers, Sequences, FiniteSets

CONSTANTS
    VecValues,      \* what is stored, numbers above 0
    MaxVec          \* bound: the capacity that is reached

ASSUME VecAssumption == MaxVec \in Nat

ANY == 0
NoElement == -1     \* a null pointer returned

VARIABLES
    vec,        \* [size, capacity, data]
    contents,   \* ghost
    vecCall     \* the last call: what it returned, and what it should have

vecVars == <<vec, contents, vecCall>>

VectorNew == [size |-> 0, capacity |-> 0, data |-> <<>>]

\* Indices are those of C, from 0.
Cell(v, i) == v.data[i + 1]

VectorAt(v, i) == IF i >= v.size THEN NoElement ELSE Cell(v, i)

VectorBack(v) == IF v.size = 0 THEN NoElement ELSE Cell(v, v.size - 1)

VectorPop(v) == [v EXCEPT !.size = IF v.size = 0 THEN 0 ELSE v.size - 1]

VectorSwap(v, i, j) ==
    [v EXCEPT !.data[i + 1] = Cell(v, j), !.data[j + 1] = Cell(v, i)]

\* The vector after each swap of the outermost pair that is left, until beg
\* and end meet.
ReverseLoop(v, beg, end) ==
    LET swapped[k \in 0 .. (end - beg) \div 2] ==
            IF k = 0 THEN v ELSE VectorSwap(swapped[k - 1], beg + (k - 1), end - k)
    IN  swapped

ReverseRange(v, beg, end) ==
    IF beg >= end THEN v ELSE ReverseLoop(v, beg, end)[(end - beg) \div 2]

\* ensure_capacity: realloc keeps what fits of the cells, or fails.  For no
\* cells at all it gives a block of none, or frees the old one and gives NULL.
EnsureCapacityForgetting(v, n, memory) ==
    IF ~memory THEN v ELSE [v EXCEPT !.data = [i \in 1..n |-> IF i < Len(v.data) THEN v.data[i] ELSE ANY]]

EnsureCapacity(v, n, memory) ==
    IF ~memory THEN IF n = 0 THEN [v EXCEPT !.data = <<>>] ELSE v
    ELSE [v EXCEPT !.capacity = n,
                   !.data = [i \in 1..n |-> IF i <= Len(v.data) THEN v.data[i] ELSE ANY]]

NeededFor(v) == IF v.size = 0 THEN 1 ELSE 2 * v.size

VectorPush(v, e, memory) ==
    LET room == IF v.capacity = v.size THEN EnsureCapacity(v, NeededFor(v), memory) ELSE v
    IN  IF v.capacity = v.size /\ ~memory THEN [ok |-> FALSE, v |-> v]
        ELSE [ok |-> TRUE,
              v |-> [room EXCEPT !.data[v.size + 1] = e, !.size = v.size + 1]]

\* The vector after each swap of an element with the one behind it.
SwapToEnd(v, i, last) ==
    LET swapped[k \in 0 .. last - i] ==
            IF k = 0 THEN v ELSE VectorSwap(swapped[k - 1], i + (k - 1), i + k)
    IN  swapped

\* With memory for one element the tail is moved, otherwise it is swapped
\* down; either way the removed element ends up behind the last.
VectorRemove(v, i, memory) ==
    IF v.size = 0 THEN v
    ELSE IF memory
    THEN VectorPop([v EXCEPT !.data =
            [c \in DOMAIN v.data |->
                IF c \in (i + 1)..(v.size - 1) THEN v.data[c + 1]
                ELSE IF c = v.size THEN v.data[i + 1] ELSE v.data[c]]])
    ELSE VectorPop(SwapToEnd(v, i, v.size - 1)[(v.size - 1) - i])

VectorFit(v, memory) ==
    IF v.size = 0 \/ v.size = v.capacity \/ ~memory THEN v
    ELSE [v EXCEPT !.capacity = v.size, !.data = SubSeq(v.data, 1, v.size)]

\* qsort: some sorted arrangement of the cells [beg, end)
SortRange(v, beg, end) ==
    LET part == SubSeq(v.data, beg + 1, end)
        places == DOMAIN part
        values == VecValues \cup {ANY}
        sorted == CHOOSE s \in [places -> values] :
                     /\ \A i, j \in places : i < j => s[i] <= s[j]
                     /\ \A x \in values : Cardinality({ i \in places : s[i] = x })
                                          = Cardinality({ i \in places : part[i] = x })
    IN  [v EXCEPT !.data = [c \in DOMAIN v.data |->
            IF c \in (beg + 1)..end THEN sorted[c - beg] ELSE v.data[c]]]

------------------------------------------------------------------------------

Quiet == [op |-> "none", got |-> NoElement, want |-> NoElement]

\* Every element has its cell.  Without, the calls below read and write outside
\* of the block.
Intact(v) == v.size <= v.capacity /\ v.capacity = Len(v.data)

VecInit == vec = VectorNew /\ contents = <<>> /\ vecCall = Quiet

VecPush(e, memory) ==
    LET r == VectorPush(vec, e, memory)
    IN  /\ Intact(vec) /\ vec.size < MaxVec
        /\ vec' = r.v
        /\ contents' = IF r.ok THEN Append(contents, e) ELSE contents
        /\ vecCall' = Quiet

VecPop ==
    /\ Intact(vec)
    /\ vec' = VectorPop(vec)
    /\ contents' = SubSeq(contents, 1, Len(contents) - 1)
    /\ vecCall' = [op |-> "pop", got |-> VectorBack(vec),
                   want |-> IF contents = <<>> THEN NoElement ELSE contents[Len(contents)]]

VecRemove(i, memory) ==
    LET removed == VectorRemove(vec, i, memory)
    IN  /\ Intact(vec) /\ i < vec.size
        /\ vec' = removed
        /\ contents' = SubSeq(contents, 1, i) \o SubSeq(contents, i + 2, Len(contents))
        /\ vecCall' = [op |-> "remove", got |-> Cell(removed, removed.size),
                       want |-> contents[i + 1]]

VecReverse(beg, end) ==
    /\ Intact(vec) /\ beg <= end /\ end <= vec.size
    /\ vec' = ReverseRange(vec, beg, end)
    /\ contents' = [i \in DOMAIN contents |->
                       IF i \in (beg + 1)..end THEN contents[beg + end + 1 - i] ELSE contents[i]]
    /\ vecCall' = Quiet

VecSwap(i, j) ==
    /\ Intact(vec) /\ i < vec.size /\ j < vec.size
    /\ vec' = VectorSwap(vec, i, j)
    /\ contents' = [contents EXCEPT ![i + 1] = contents[j + 1], ![j + 1] = contents[i + 1]]
    /\ vecCall' = Quiet

VecSort(beg, end) ==
    /\ Intact(vec) /\ beg < end /\ end <= vec.size
    /\ vec' = SortRange(vec, beg, end)
    /\ contents' = SubSeq(vec'.data, 1, vec.size)
    /\ vecCall' = Quiet

\* The capacity becomes n, also when that is below the size: the elements
\* that have no cell then are lost.  (A block that was freed is not reallocated.)
VecReserve(n, memory) ==
    /\ vec.capacity = Len(vec.data)
    /\ vec' = EnsureCapacity(vec, n, memory)
    /\ IF memory \/ n = 0
       THEN /\ contents' = [i \in DOMAIN contents |-> IF i <= n THEN contents[i] ELSE ANY]
            /\ vecCall' = [Quiet EXCEPT !.op = IF n < vec.size \/ n = 0 THEN "shrink" ELSE "none"]
       ELSE UNCHANGED <<contents, vecCall>>

VecFit(memory) ==
    /\ Intact(vec)
    /\ vec' = VectorFit(vec, memory)
    /\ vecCall' = Quiet /\ UNCHANGED contents

\* Asking for the size, the capacity or an element changes nothing.
VecQuery == UNCHANGED vecVars

VecNext ==
    \/ \E memory \in BOOLEAN :
          \/ \E e \in VecValues : VecPush(e, memory)
          \/ \E i \in 0..MaxVec : VecRemove(i, memory) \/ VecReserve(i, memory)
          \/ VecFit(memory)
    \/ VecPop \/ VecQuery
    \/ \E i, j \in 0..MaxVec : VecReverse(i, j) \/ VecSwap(i, j) \/ VecSort(i, j)

VecSpec == VecInit /\ [][VecNext]_vecVars

------------------------------------------------------------------------------

\* Whatever calls are made and whichever allocations fail, the vector holds
\* exactly the elements put in it, in their places, but for those that a
\* reserve below the size gave up; and unless that was the last that happened,
\* it has a cell for each of them and desc->capacity is what was really
\* allocated (push and fit compare sizes with it, not with the memory).
VectorHoldsContents ==
    /\ vec.size = Len(contents)
    /\ \A i \in 0..(vec.size - 1) :
          contents[i + 1] = IF i < Len(vec.data) THEN VectorAt(vec, i) ELSE ANY
    /\ VectorAt(vec, vec.size) = NoElement
    /\ vecCall.op # "shrink" => Intact(vec)

\* avs_vector.h about AVS_VECTOR_RESERVE: unless num_elements is greater than
\* the capacity, it does nothing.  ensure_capacity always reallocates.
ReserveKeepsElements == \A i \in DOMAIN contents : contents[i] # ANY

\* Pop and remove give the element that left the vector, in either way that
\* remove can move it.
RemovedIsReturned == vecCall.got = vecCall.want

\* A vector holds what was put in it, and gives out what it loses.
VectorCorrect ==
    /\ VectorHoldsContents
    /\ RemovedIsReturned

=============================================================================
