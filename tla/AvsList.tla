------------------------------- MODULE AvsList -------------------------------
(***************************************************************************)
(* The operations of the intrusive singly linked lists of                  *)
(* src/src/list/avs_list.c that the other components build on.  A list is  *)
(* the sequence of its elements' addresses; the place an AVS_LIST(T) *     *)
(* points at is the index of the element that follows it.                  *)
(***************************************************************************)
EXTENDS Integers, Sequences, TLAPS

\* avs_list_insert__: the element goes before what the pointer points at.
ListInsert(list, i, a) ==
    [j \in 1..Len(list) + 1 |-> IF j < i THEN list[j]
                                ELSE IF j = i THEN a ELSE list[j - 1]]

\* avs_list_detach__: the element that the pointer points at is cut out.
ListDetach(list, i) ==
    [j \in 1..Len(list) - 1 |-> IF j < i THEN list[j] ELSE list[j + 1]]

\* avs_list_find_ptr__: where the element is.
ListContains(list, a) == \E i \in 1..Len(list) : list[i] = a

ListFindPtr(list, a) == CHOOSE i \in 1..Len(list) : list[i] = a

-----------------------------------------------------------------------------
(* What the operations return and preserve, for lists of any length.       *)

\* No element is linked into the list twice.
NoDup(s) == \A i, j \in 1..Len(s) : s[i] = s[j] => i = j

\* Where avs_list_detach__ leaves the elements.
LEMMA ListDetachPlaces ==
    ASSUME NEW S, NEW s \in Seq(S), NEW i \in 1..Len(s)
    PROVE  /\ ListDetach(s, i) \in Seq(S)
           /\ Len(ListDetach(s, i)) = Len(s) - 1
           /\ \A j \in 1..Len(s) - 1 :
                 ListDetach(s, i)[j] = IF j < i THEN s[j] ELSE s[j + 1]
<1>1. Len(s) - 1 \in Nat
      OBVIOUS
<1>2. \A j \in 1..Len(s) - 1 : (IF j < i THEN s[j] ELSE s[j + 1]) \in S
      OBVIOUS
<1> QED BY <1>1, <1>2 DEF ListDetach

\* The element at place j after inserting a at place i.
Placed(s, i, a, j) == IF j < i THEN s[j] ELSE IF j = i THEN a ELSE s[j - 1]

\* Where avs_list_insert__ puts the elements.
LEMMA ListInsertPlaces ==
    ASSUME NEW S, NEW s \in Seq(S), NEW i \in 1..Len(s) + 1, NEW a \in S
    PROVE  /\ ListInsert(s, i, a) \in Seq(S)
           /\ Len(ListInsert(s, i, a)) = Len(s) + 1
           /\ \A j \in 1..Len(s) + 1 :
                 ListInsert(s, i, a)[j] = Placed(s, i, a, j)
<1>1. Len(s) + 1 \in Nat
      OBVIOUS
<1>2. \A j \in 1..Len(s) + 1 : Placed(s, i, a, j) \in S
      BY DEF Placed
<1> QED BY <1>1, <1>2 DEF ListInsert, Placed

\* avs_list_find_ptr__ finds an element that is in the list.
LEMMA ListFindPtrFound ==
    ASSUME NEW s, NEW a, ListContains(s, a)
    PROVE  ListFindPtr(s, a) \in 1..Len(s) /\ s[ListFindPtr(s, a)] = a
BY DEF ListContains, ListFindPtr

\* Detaching an element that was found takes it, and nothing else, out.
LEMMA ListDetachFound ==
    ASSUME NEW S, NEW s \in Seq(S), NoDup(s), NEW a, ListContains(s, a),
           NEW d, d = ListDetach(s, ListFindPtr(s, a))
    PROVE  /\ d \in Seq(S)
           /\ NoDup(d)
           /\ \A x : ListContains(d, x) <=> ListContains(s, x) /\ x # a
<1> DEFINE i == ListFindPtr(s, a)
<1>1. i \in 1..Len(s) /\ s[i] = a
      BY ListFindPtrFound
<1> HIDE DEF i
<1>3. /\ d \in Seq(S) /\ Len(d) = Len(s) - 1
      /\ \A j \in 1..Len(s) - 1 : d[j] = IF j < i THEN s[j] ELSE s[j + 1]
      BY <1>1, ListDetachPlaces DEF i
<1>4. NoDup(d)
      BY <1>1, <1>3 DEF NoDup
<1>5. ASSUME NEW x, ListContains(d, x) PROVE ListContains(s, x) /\ x # a
  <2>1. PICK j \in 1..Len(d) : d[j] = x
        BY <1>5 DEF ListContains
  <2> QED BY <1>1, <1>3, <2>1 DEF ListContains, NoDup
<1>6. ASSUME NEW x, ListContains(s, x), x # a PROVE ListContains(d, x)
  <2>1. PICK j \in 1..Len(s) : s[j] = x
        BY <1>6 DEF ListContains
  <2>2. CASE j < i
        BY <1>1, <1>3, <2>1, <2>2 DEF ListContains
  <2>3. CASE j > i
    <3>1. j - 1 \in 1..Len(d) /\ d[j - 1] = x
          BY <1>1, <1>3, <2>1, <2>3
    <3> QED BY <3>1 DEF ListContains
  <2> QED BY <1>1, <1>6, <2>1, <2>2, <2>3
<1> QED BY <1>3, <1>4, <1>5, <1>6

\* Inserting an element that is not in the list adds it, and nothing else.
LEMMA ListInsertNew ==
    ASSUME NEW S, NEW s \in Seq(S), NoDup(s), NEW a \in S,
           ~ListContains(s, a), NEW i \in 1..Len(s) + 1,
           NEW d, d = ListInsert(s, i, a)
    PROVE  /\ d \in Seq(S)
           /\ NoDup(d)
           /\ \A x : ListContains(d, x) <=> ListContains(s, x) \/ x = a
<1>3. /\ d \in Seq(S) /\ Len(d) = Len(s) + 1
      /\ \A j \in 1..Len(s) + 1 : d[j] = IF j < i THEN s[j]
                                         ELSE IF j = i THEN a ELSE s[j - 1]
  <2>1. /\ d \in Seq(S) /\ Len(d) = Len(s) + 1
        /\ \A j \in 1..Len(s) + 1 : d[j] = Placed(s, i, a, j)
        BY ListInsertPlaces
  <2> QED BY <2>1 DEF Placed
<1>4. NoDup(d)
  <2> SUFFICES ASSUME NEW j \in 1..Len(d), NEW k \in 1..Len(d), j < k
               PROVE  d[j] # d[k]
      BY <1>3 DEF NoDup
  <2>1. \A n \in 1..Len(s) : s[n] # a
        BY DEF ListContains
  <2>2. CASE k < i
        BY <1>3, <2>2 DEF NoDup
  <2>3. CASE k = i
        BY <1>3, <2>1, <2>3
  <2>4. CASE k > i /\ j = i
    <3>1. d[k] = s[k - 1] /\ d[j] = a /\ k - 1 \in 1..Len(s)
          BY <1>3, <2>4
    <3> QED BY <2>1, <3>1
  <2>5. CASE k > i /\ j # i
    <3> DEFINE n == IF j < i THEN j ELSE j - 1
    <3>1. n \in 1..Len(s) /\ d[j] = s[n] /\ n < k - 1
          BY <1>3, <2>5
    <3>2. d[k] = s[k - 1] /\ k - 1 \in 1..Len(s)
          BY <1>3, <2>5
    <3> HIDE DEF n
    <3> QED BY <3>1, <3>2 DEF NoDup
  <2> QED BY <2>2, <2>3, <2>4, <2>5
<1>5. ASSUME NEW x, ListContains(d, x) PROVE ListContains(s, x) \/ x = a
  <2>1. PICK j \in 1..Len(d) : d[j] = x
        BY <1>5 DEF ListContains
  <2>2. CASE j < i
        BY <1>3, <2>1, <2>2 DEF ListContains
  <2>3. CASE j > i
    <3>1. j - 1 \in 1..Len(s) /\ s[j - 1] = x
          BY <1>3, <2>1, <2>3
    <3> QED BY <3>1 DEF ListContains
  <2> QED BY <1>3, <2>1, <2>2, <2>3
<1>6. ASSUME NEW x, ListContains(s, x) PROVE ListContains(d, x)
  <2>1. PICK j \in 1..Len(s) : s[j] = x
        BY <1>6 DEF ListContains
  <2>2. CASE j < i
        BY <1>3, <2>1, <2>2 DEF ListContains
  <2>3. CASE j >= i
    <3>1. j + 1 \in 1..Len(d) /\ d[j + 1] = x
          BY <1>3, <2>1, <2>3
    <3> QED BY <3>1 DEF ListContains
  <2> QED BY <2>1, <2>2, <2>3
<1>7. ListContains(d, a)
      BY <1>3 DEF ListContains
<1> QED BY <1>3, <1>4, <1>5, <1>6, <1>7

\* Taking the first element off a list.
LEMMA ListTail ==
    ASSUME NEW S, NEW s \in Seq(S), NoDup(s), s # <<>>
    PROVE  /\ Head(s) \in S /\ ListContains(s, Head(s))
           /\ Tail(s) \in Seq(S)
           /\ NoDup(Tail(s))
           /\ \A x : ListContains(Tail(s), x)
                       <=> ListContains(s, x) /\ x # Head(s)
<1> DEFINE d == Tail(s)
<1>1. /\ Len(s) > 0 /\ Head(s) = s[1]
      /\ d \in Seq(S) /\ Len(d) = Len(s) - 1
      /\ \A j \in 1..Len(s) - 1 : d[j] = s[j + 1]
      OBVIOUS
<1> HIDE DEF d
<1>2. Head(s) \in S /\ ListContains(s, Head(s))
      BY <1>1 DEF ListContains
<1>3. NoDup(d)
      BY <1>1 DEF NoDup
<1>4. ASSUME NEW x, ListContains(d, x) PROVE ListContains(s, x) /\ x # Head(s)
  <2>1. PICK j \in 1..Len(d) : d[j] = x
        BY <1>4 DEF ListContains
  <2> QED BY <1>1, <2>1 DEF ListContains, NoDup
<1>5. ASSUME NEW x, ListContains(s, x), x # Head(s) PROVE ListContains(d, x)
  <2>1. PICK j \in 1..Len(s) : s[j] = x
        BY <1>5 DEF ListContains
  <2>2. j - 1 \in 1..Len(d) /\ d[j - 1] = x
        BY <1>1, <1>5, <2>1
  <2> QED BY <2>2 DEF ListContains
<1> QED BY <1>1, <1>2, <1>3, <1>4, <1>5 DEF d

=============================================================================
