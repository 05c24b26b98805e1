---------------------------- MODULE NetbufProofs ----------------------------
(***************************************************************************)
(* Proofs about NetbufCalls: a buffered net stream of avs_netbuf.c loses,  *)
(* repeats and reorders nothing, for any sizes of its buffers, of reads    *)
(* and writes and of what the peer sends, and for any plan of sends.       *)
(*                                                                         *)
(* NbInv says that what is in the input buffer and on its way is the rest  *)
(* of what arrived (ToRead), that what was accepted is a sequence that has *)
(* gone out followed by what waits (OutputKept), and that the last call    *)
(* kept its promises (NbCallGood).  After a failed send, bytes that have   *)
(* gone out go out again, so OutputKept says only that they occur.         *)
(*                                                                         *)
(* Zenon proves most steps; those with arithmetic or sequences name SMT.   *)
(***************************************************************************)
EXTENDS NetbufCalls, SequenceTheorems, WellFoundedInduction, TLAPS

USE ZenonT(120)

\* Induction over the naturals, as a smallest counterexample
LEMMA SmallestNat ==
    ASSUME NEW P \in SUBSET Nat, P # {}
    PROVE  \E i \in P : \A j \in P : i <= j
<1>1. IsWellFoundedOn(OpToRel(<, Nat), Nat)
      BY NatLessThanWellFounded
<1>2. PICK i \in P : \A j \in P : ~(<<j, i>> \in OpToRel(<, Nat))
      BY <1>1, WFMin
<1>3. ASSUME NEW j \in P PROVE i <= j
  <2>1. ~(<<j, i>> \in {ss \in Nat \X Nat : ss[1] < ss[2]})
        BY <1>2 DEF OpToRel
  <2> QED BY SMT, <2>1
<1> QED BY <1>3

-----------------------------------------------------------------------------
(* The buffered net stream: sequences of bytes                             *)

\* The elements of a concatenation
LEMMA CatElems ==
    ASSUME NEW a \in Seq(Nat), NEW b \in Seq(Nat)
    PROVE  /\ a \o b \in Seq(Nat) /\ Len(a \o b) = Len(a) + Len(b)
           /\ \A i \in 1 .. Len(a) : (a \o b)[i] = a[i]
           /\ \A i \in 1 .. Len(b) : (a \o b)[Len(a) + i] = b[i]
<1>1. /\ a \o b \in Seq(Nat) /\ Len(a \o b) = Len(a) + Len(b)
      /\ \A i \in 1 .. Len(a) + Len(b) :
              (a \o b)[i] = IF i <= Len(a) THEN a[i] ELSE b[i - Len(a)]
      BY ConcatProperties
<1>2. Len(a) \in Nat /\ Len(b) \in Nat
      BY LenProperties
<1>3. ASSUME NEW i \in 1 .. Len(a) PROVE (a \o b)[i] = a[i]
  <2>1. i \in 1 .. Len(a) + Len(b) /\ i <= Len(a)
        BY SMT, <1>2
  <2> QED
      BY <1>1, <2>1
<1>4. ASSUME NEW i \in 1 .. Len(b) PROVE (a \o b)[Len(a) + i] = b[i]
  <2> DEFINE j == Len(a) + i
  <2>1. j \in 1 .. Len(a) + Len(b) /\ ~(j <= Len(a)) /\ j - Len(a) = i
        BY SMT, <1>2
  <2> HIDE DEF j
  <2>2. (a \o b)[j] = b[i]
        BY <1>1, <2>1
  <2> QED
      BY <2>2 DEF j
<1> QED
    BY <1>1, <1>3, <1>4

\* They determine it.
LEMMA CatIs ==
    ASSUME NEW s \in Seq(Nat), NEW a \in Seq(Nat), NEW b \in Seq(Nat),
           Len(s) = Len(a) + Len(b),
           \A i \in 1 .. Len(a) : s[i] = a[i],
           \A i \in 1 .. Len(b) : s[Len(a) + i] = b[i]
    PROVE  s = a \o b
<1>1. /\ a \o b \in Seq(Nat) /\ Len(a \o b) = Len(a) + Len(b)
      /\ \A i \in 1 .. Len(a) : (a \o b)[i] = a[i]
      /\ \A i \in 1 .. Len(b) : (a \o b)[Len(a) + i] = b[i]
      BY CatElems
<1>2. Len(a) \in Nat /\ Len(b) \in Nat
      BY LenProperties
<1>3. ASSUME NEW i \in 1 .. Len(s) PROVE s[i] = (a \o b)[i]
  <2>1. CASE i <= Len(a)
    <3>1. i \in 1 .. Len(a)
          BY SMT, <1>2, <2>1
    <3> QED
        BY <1>1, <3>1
  <2>2. CASE ~(i <= Len(a))
    <3> DEFINE j == i - Len(a)
    <3>1. j \in 1 .. Len(b) /\ Len(a) + j = i
          BY SMT, <1>2, <2>2
    <3> HIDE DEF j
    <3>2. s[Len(a) + j] = b[j] /\ (a \o b)[Len(a) + j] = b[j]
          BY <1>1, <3>1
    <3> QED
        BY <3>1, <3>2
  <2> QED
      BY <2>1, <2>2
<1>4. Len(s) = Len(a \o b)
      BY <1>1
<1> QED
    BY <1>1, <1>3, <1>4, SeqEqual

\* Concatenation in two ways
LEMMA CatAssociative ==
    ASSUME NEW a \in Seq(Nat), NEW b \in Seq(Nat), NEW c \in Seq(Nat)
    PROVE  (a \o b) \o c = a \o (b \o c)
    BY SMTT(30)

\* The empty sequence adds nothing.
LEMMA NoneBefore ==
    <<>> \o <<>> = <<>> /\ \A s \in Seq(Nat) : <<>> \o s = s /\ s \o <<>> = s
    BY SMT

\* What is taken and what is left
LEMMA TakeDropFacts ==
    ASSUME NEW s \in Seq(Nat), NEW n \in 0 .. Len(s)
    PROVE  /\ Take(s, n) \in Seq(Nat) /\ Len(Take(s, n)) = n
           /\ Drop(s, n) \in Seq(Nat) /\ Len(Drop(s, n)) = Len(s) - n
           /\ \A i \in 1 .. n : Take(s, n)[i] = s[i]
           /\ \A i \in 1 .. Len(s) - n : Drop(s, n)[i] = s[n + i]
           /\ s = Take(s, n) \o Drop(s, n)
<1>1. Len(s) \in Nat /\ n \in Nat /\ n <= Len(s)
      BY SMT
<1>2. /\ Take(s, n) \in Seq(Nat) /\ Len(Take(s, n)) = n
      /\ \A i \in 1 .. n : Take(s, n)[i] = s[i]
      BY SMT, <1>1 DEF Take
<1>3. /\ Drop(s, n) \in Seq(Nat) /\ Len(Drop(s, n)) = Len(s) - n
      /\ \A i \in 1 .. Len(s) - n : Drop(s, n)[i] = s[n + i]
      BY SMT, <1>1 DEF Drop
<1> DEFINE a == Take(s, n)
           b == Drop(s, n)
<1> HIDE DEF a, b
<1>4. s = a \o b
  <2>1. Len(s) = Len(a) + Len(b)
        BY SMT, <1>1, <1>2, <1>3 DEF a, b
  <2>2. \A i \in 1 .. Len(a) : s[i] = a[i]
        BY <1>2 DEF a
  <2>3. \A i \in 1 .. Len(b) : s[Len(a) + i] = b[i]
        BY <1>2, <1>3 DEF a, b
  <2> QED
      BY <1>2, <1>3, <2>1, <2>2, <2>3, CatIs DEF a, b
<1> QED
    BY <1>2, <1>3, <1>4 DEF a, b

\* The bytes after g, up to h
LEMMA SubSeqElems ==
    ASSUME NEW s \in Seq(Nat), NEW g \in Nat, NEW h \in Nat, g <= h, h <= Len(s)
    PROVE  LET u == SubSeq(s, g + 1, h) IN
           /\ u \in Seq(Nat) /\ Len(u) = h - g
           /\ \A i \in 1 .. h - g : u[i] = s[g + i]
    BY SMTT(60)

\* n bytes of a are read, where a and b are what is left of s after g bytes.
ReadsOn(s, g, a, b, n) ==
    /\ g + n \in 0 .. Len(s) /\ Drop(a, n) \o b = Drop(s, g + n)
    /\ Take(a, n) = SubSeq(s, g + 1, g + n)
    /\ \A i \in 1 .. Len(a) : a[i] = s[g + i]

\* That is how avs_stream_read goes on.
LEMMA ReadOn ==
    ASSUME NEW s \in Seq(Nat), NEW g \in 0 .. Len(s), NEW a \in Seq(Nat), NEW b \in Seq(Nat),
           a \o b = Drop(s, g), NEW n \in 0 .. Len(a)
    PROVE  ReadsOn(s, g, a, b, n)
<1> DEFINE c == a \o b
           d == Drop(a, n)
           t == Take(a, n)
           e == Drop(s, g + n)
           u == SubSeq(s, g + 1, g + n)
           la == Len(a)
           lb == Len(b)
           ls == Len(s)
<1>1. la \in Nat /\ lb \in Nat /\ ls \in Nat /\ g \in Nat /\ n \in Nat /\ g <= ls /\ n <= la
      BY SMT
<1>2. /\ Len(c) = la + lb
      /\ \A i \in 1 .. la : c[i] = a[i]
      /\ \A i \in 1 .. lb : c[la + i] = b[i]
      BY CatElems
<1>3. Len(c) = ls - g /\ \A i \in 1 .. ls - g : c[i] = s[g + i]
      BY TakeDropFacts
<1>4. /\ d \in Seq(Nat) /\ Len(d) = la - n
      /\ \A i \in 1 .. la - n : d[i] = a[n + i]
      /\ t \in Seq(Nat) /\ Len(t) = n /\ \A i \in 1 .. n : t[i] = a[i]
      BY TakeDropFacts
<1>5. g + n \in 0 .. ls /\ la + lb = ls - g
      BY SMT, <1>1, <1>2, <1>3
<1>6. /\ e \in Seq(Nat) /\ Len(e) = ls - (g + n)
      /\ \A i \in 1 .. ls - (g + n) : e[i] = s[g + n + i]
      BY <1>5, TakeDropFacts
<1>7. u \in Seq(Nat) /\ Len(u) = n /\ \A i \in 1 .. n : u[i] = s[g + i]
  <2> DEFINE h == g + n
  <2>2. h \in Nat /\ h <= Len(s) /\ g \in Nat /\ g <= h /\ h - g = n
        BY SMT, <1>1, <1>5
  <2> HIDE DEF h
  <2>3. /\ SubSeq(s, g + 1, h) \in Seq(Nat) /\ Len(SubSeq(s, g + 1, h)) = h - g
        /\ \A i \in 1 .. h - g : SubSeq(s, g + 1, h)[i] = s[g + i]
        BY <2>2, SubSeqElems
  <2> QED
      BY <2>2, <2>3 DEF h
<1> HIDE DEF c, d, t, e, u, la, lb, ls
<1>8. ASSUME NEW i \in 1 .. la PROVE a[i] = s[g + i]
  <2>1. i \in 1 .. ls - g
        BY SMT, <1>1, <1>5
  <2> QED
      BY <1>2, <1>3, <2>1
<1>9. ASSUME NEW i \in 1 .. lb PROVE b[i] = s[g + (la + i)]
  <2>1. la + i \in 1 .. ls - g
        BY SMT, <1>1, <1>5
  <2> QED
      BY <1>2, <1>3, <2>1
<1>10. e = d \o b
  <2>1. Len(e) = Len(d) + Len(b)
        BY SMT, <1>1, <1>4, <1>5, <1>6 DEF lb
  <2>2. ASSUME NEW i \in 1 .. Len(d) PROVE e[i] = d[i]
    <3>1. /\ i \in 1 .. la - n /\ n + i \in 1 .. la /\ i \in 1 .. ls - (g + n)
          /\ g + (n + i) = g + n + i
          BY SMT, <1>1, <1>4, <1>5
    <3> QED
        BY <1>4, <1>6, <1>8, <3>1
  <2>3. ASSUME NEW i \in 1 .. Len(b) PROVE e[Len(d) + i] = b[i]
    <3>1. i \in 1 .. lb
          BY DEF lb
    <3>2. Len(d) + i \in 1 .. ls - (g + n) /\ g + n + (Len(d) + i) = g + (la + i)
          BY SMT, <1>1, <1>4, <1>5, <3>1
    <3> QED
        BY <1>6, <1>9, <3>1, <3>2
  <2> QED
      BY <1>4, <1>6, <2>1, <2>2, <2>3, CatIs
<1>11. t = u
  <2>1. ASSUME NEW i \in 1 .. n PROVE t[i] = u[i]
    <3>1. i \in 1 .. la
          BY SMT, <1>1
    <3> QED
        BY <1>4, <1>7, <1>8, <3>1
  <2> QED
      BY <1>4, <1>7, <2>1, SeqEqual
<1> QED
    BY <1>5, <1>8, <1>10, <1>11 DEF ReadsOn, d, t, e, u, la, ls

-----------------------------------------------------------------------------
(* The buffered net stream: iteration                                      *)

\* The states that n steps go through
Iterated(S, init, step, n, f) ==
    /\ f \in [0 .. n -> S]
    /\ f[0] = init /\ \A k \in 1 .. n : f[k] = step[k][f[k - 1]]

\* Within a set that is closed under the steps there are such states.
LEMMA Iterates ==
    ASSUME NEW S, NEW init \in S, NEW step \in [Nat -> [S -> S]], NEW n \in Nat
    PROVE  \E f : Iterated(S, init, step, n, f)
<1> DEFINE Steps(f, m) == f[0] = init /\ \A k \in 1 .. m : f[k] = step[k][f[k - 1]]
           Exists(m) == \E f : Iterated(S, init, step, m, f)
           P == {m \in Nat : ~Exists(m)}
<1> SUFFICES P = {}
    OBVIOUS
<1> SUFFICES ASSUME P # {} PROVE FALSE
    OBVIOUS
<1>1. PICK m \in P : \A j \in P : m <= j
      BY SmallestNat
<1>2. CASE m = 0
  <2> DEFINE f == [k \in 0 .. 0 |-> init]
  <2>1. f \in [0 .. 0 -> S] /\ 0 \in 0 .. 0 /\ 1 .. 0 = {}
        BY SMT
  <2>2. Steps(f, 0)
        BY <2>1
  <2> HIDE DEF f
  <2>3. Iterated(S, init, step, 0, f)
        BY <2>1, <2>2 DEF Iterated
  <2> QED
      BY <1>2, <2>3
<1>3. CASE m # 0
  <2>1. m \in Nat /\ m - 1 \in Nat /\ ~(m <= m - 1) /\ m - 1 \in 0 .. m - 1 /\ 0 \in 0 .. m - 1
        BY SMT, <1>3
  <2>2. m - 1 \notin P
        BY <1>1, <2>1
  <2>3. PICK g : g \in [0 .. m - 1 -> S] /\ Steps(g, m - 1)
    <3>1. Exists(m - 1)
          BY <2>1, <2>2
    <3> QED
        BY <3>1 DEF Iterated
  <2> DEFINE f == [k \in 0 .. m |-> IF k = m THEN step[m][g[m - 1]] ELSE g[k]]
  <2>4. \A k \in 0 .. m - 1 : k \in 0 .. m /\ k # m /\ f[k] = g[k]
        BY SMT, <2>1
  <2>5. f \in [0 .. m -> S]
    <3>1. ASSUME NEW k \in 0 .. m PROVE f[k] \in S
      <4>1. CASE k = m
        <5>1. g[m - 1] \in S
              BY <2>1, <2>3
        <5>2. step[m][g[m - 1]] \in S
              BY <2>1, <5>1
        <5> QED
            BY <4>1, <5>2
      <4>2. CASE k # m
        <5>1. k \in 0 .. m - 1
              BY SMT, <2>1, <4>2
        <5> QED
            BY <2>3, <4>2, <5>1
      <4> QED
          BY <4>1, <4>2
    <3> QED
        BY <3>1
  <2>6. f[0] = init
        BY <2>1, <2>3, <2>4
  <2>7. ASSUME NEW k \in 1 .. m PROVE f[k] = step[k][f[k - 1]]
    <3>1. k \in 0 .. m /\ k - 1 \in 0 .. m - 1
          BY SMT, <2>1
    <3>2. f[k - 1] = g[k - 1]
          BY <2>4, <3>1
    <3>3. CASE k = m
          BY <3>1, <3>2, <3>3
    <3>4. CASE k # m
      <4>1. k \in 1 .. m - 1 /\ k \in 0 .. m - 1
            BY SMT, <2>1, <3>4
      <4> QED
          BY <2>3, <2>4, <3>2, <4>1
    <3> QED
        BY <3>3, <3>4
  <2> HIDE DEF f
  <2>8. Iterated(S, init, step, m, f)
        BY <2>5, <2>6, <2>7 DEF Iterated
  <2> QED
      BY <2>8
<1> QED
    BY <1>2, <1>3

\* The bytes of the first k segments
Bytes(s) == CHOOSE f : f = [k \in 0 .. Len(s) |-> IF k = 0 THEN <<>> ELSE f[k - 1] \o s[k]]

\* The recursion of Flat has a solution.
LEMMA FlatFacts ==
    ASSUME NEW s \in Seq(Seq(Nat))
    PROVE  /\ Bytes(s) \in [0 .. Len(s) -> Seq(Nat)] /\ Bytes(s)[0] = <<>>
           /\ \A k \in 1 .. Len(s) : Bytes(s)[k] = Bytes(s)[k - 1] \o s[k]
           /\ Flat(s) = Bytes(s)[Len(s)] /\ Flat(s) \in Seq(Nat)
<1> DEFINE n == Len(s)
           S == Seq(Nat)
           at == [k \in Nat |-> IF k \in 1 .. n THEN s[k] ELSE <<>>]
           step == [k \in Nat |-> [x \in S |-> x \o at[k]]]
<1>1. n \in Nat /\ <<>> \in S /\ \A k \in 1 .. n : s[k] \in S /\ k \in Nat /\ k - 1 \in 0 .. n /\ k \in 0 .. n
      BY SMT
<1>2. at \in [Nat -> S] /\ \A k \in 1 .. n : at[k] = s[k]
      BY <1>1
<1> HIDE DEF at
<1>3. \A k \in Nat, x \in S : x \o at[k] \in S
      BY <1>2, ConcatProperties
<1>4. /\ step \in [Nat -> [S -> S]]
      /\ \A k \in Nat, x \in S : step[k][x] = x \o at[k]
  <2>2. step \in [Nat -> [S -> S]]
        BY <1>3
  <2>3. \A k \in Nat, x \in S : step[k][x] = x \o at[k]
        OBVIOUS
  <2> QED
      BY <2>2, <2>3
<1> DEFINE none == <<>>
<1>0. n \in Nat /\ none \in S /\ step \in [Nat -> [S -> S]]
      BY <1>1, <1>4
<1> HIDE DEF step, S, n, none
<1>5. PICK f : /\ f \in [0 .. n -> S]
               /\ f[0] = none /\ \A k \in 1 .. n : f[k] = step[k][f[k - 1]]
  <2>1. \E f : Iterated(S, none, step, n, f)
        BY <1>0, Iterates
  <2> QED
      BY <2>1 DEF Iterated
<1>6. ASSUME NEW k \in 1 .. n PROVE f[k] = f[k - 1] \o s[k]
  <2>1. k \in Nat /\ f[k - 1] \in S /\ f[k] = step[k][f[k - 1]] /\ at[k] = s[k]
        BY <1>1, <1>2, <1>5
  <2> QED
      BY <1>4, <2>1
<1>7. f = [k \in 0 .. n |-> IF k = 0 THEN <<>> ELSE f[k - 1] \o s[k]]
  <2>1. ASSUME NEW k \in 0 .. n PROVE f[k] = IF k = 0 THEN <<>> ELSE f[k - 1] \o s[k]
    <3>1. k = 0 \/ k \in 1 .. n
          BY SMT, <1>1
    <3> QED
        BY <1>5, <1>6, <3>1 DEF none
  <2>2. f = [k \in 0 .. n |-> f[k]]
        BY <1>5
  <2> QED
      BY <2>1, <2>2
<1> DEFINE b == Bytes(s)
<1>8. b = [k \in 0 .. n |-> IF k = 0 THEN <<>> ELSE b[k - 1] \o s[k]]
      BY <1>7 DEF Bytes, n
<1>9. Flat(s) = b[n]
      BY DEF Flat, Bytes, n
<1> HIDE DEF b
<1>10. b[0] = <<>> /\ \A k \in 1 .. n : b[k] = b[k - 1] \o s[k]
  <2>1. 0 \in 0 .. n /\ \A k \in 1 .. n : k \in 0 .. n /\ k # 0
        BY SMT, <1>1
  <2> QED
      BY <1>8, <2>1
<1>11. \A k \in 0 .. n : b[k] = f[k]
  <2> DEFINE P == {k \in 0 .. n : b[k] # f[k]}
  <2> SUFFICES ASSUME P # {} PROVE FALSE
      OBVIOUS
  <2>1. P \in SUBSET Nat
        BY SMT, <1>1
  <2>2. PICK k \in P : \A j \in P : k <= j
        BY <2>1, SmallestNat
  <2>3. k # 0
        BY <1>5, <1>10, <2>2 DEF none
  <2>4. k \in 1 .. n /\ k - 1 \in 0 .. n /\ ~(k <= k - 1)
        BY SMT, <1>1, <2>3
  <2>5. b[k - 1] = f[k - 1]
        BY <2>2, <2>4
  <2> QED
      BY <1>6, <1>10, <2>4, <2>5
<1>12. b \in [0 .. n -> S]
  <2>1. b = [k \in 0 .. n |-> b[k]]
        BY <1>8
  <2> QED
      BY <1>5, <1>11, <2>1
<1>13. n \in 0 .. n
       BY SMT, <1>1
<1>14. b[n] \in S
       BY <1>12, <1>13
<1> QED
    BY <1>9, <1>10, <1>12, <1>14 DEF b, n, S

\* One more segment
LEMMA FlatAppend ==
    ASSUME NEW s \in Seq(Seq(Nat)), NEW b \in Seq(Nat)
    PROVE  Append(s, b) \in Seq(Seq(Nat)) /\ Flat(Append(s, b)) = Flat(s) \o b
<1> DEFINE t == Append(s, b)
           n == Len(s)
           f == Bytes(s)
           g == Bytes(t)
<1>1. t \in Seq(Seq(Nat)) /\ Len(t) = n + 1 /\ n \in Nat /\ t[n + 1] = b
      /\ \A k \in 1 .. n : t[k] = s[k] /\ k \in 1 .. n + 1
      BY SMT
<1>2. f[0] = <<>> /\ (\A k \in 1 .. n : f[k] = f[k - 1] \o s[k]) /\ Flat(s) = f[n]
      BY FlatFacts
<1>3. g[0] = <<>> /\ (\A k \in 1 .. n + 1 : g[k] = g[k - 1] \o t[k]) /\ Flat(t) = g[n + 1]
  <2> HIDE DEF t, n
  <2> QED
      BY <1>1, FlatFacts
<1> HIDE DEF t, n, f, g
<1>4. \A k \in 0 .. n : g[k] = f[k]
  <2> DEFINE P == {k \in 0 .. n : g[k] # f[k]}
  <2> SUFFICES ASSUME P # {} PROVE FALSE
      OBVIOUS
  <2>1. P \in SUBSET Nat
        BY SMT, <1>1
  <2>2. PICK k \in P : \A j \in P : k <= j
        BY <2>1, SmallestNat
  <2>3. k # 0
        BY <1>2, <1>3, <2>2
  <2>4. k \in 1 .. n /\ k - 1 \in 0 .. n /\ ~(k <= k - 1)
        BY SMT, <1>1, <2>3
  <2>5. g[k - 1] = f[k - 1]
        BY <2>2, <2>4
  <2> QED
      BY <1>1, <1>2, <1>3, <2>4, <2>5
<1>5. n + 1 \in 1 .. n + 1
      BY SMT, <1>1
<1>7. (n + 1) - 1 = n /\ n \in 0 .. n
      BY SMT, <1>1
<1>6. g[n + 1] = f[n] \o b
  <2>1. g[n + 1] = g[(n + 1) - 1] \o t[n + 1]
    <3> DEFINE m == n + 1
    <3>1. m \in 1 .. m /\ \A k \in 1 .. m : g[k] = g[k - 1] \o t[k]
          BY <1>3, <1>5
    <3> HIDE DEF m
    <3>2. g[m] = g[m - 1] \o t[m]
          BY <3>1
    <3> QED
        BY <3>2 DEF m
  <2>2. g[n] = f[n] /\ t[n + 1] = b
        BY <1>1, <1>4, <1>7
  <2> QED
      BY <1>7, <2>1, <2>2
<1> QED
    BY <1>1, <1>2, <1>3, <1>6 DEF t, n, f, g

\* The bytes of the first segment come first.
LEMMA FlatCons ==
    ASSUME NEW s \in Seq(Seq(Nat)), NEW h \in Seq(Nat), NEW t \in Seq(Seq(Nat)),
           Len(s) = Len(t) + 1, s[1] = h, \A k \in 1 .. Len(t) : s[k + 1] = t[k]
    PROVE  Flat(s) = h \o Flat(t)
<1> DEFINE n == Len(t)
           f == Bytes(s)
           g == Bytes(t)
<1>1. n \in Nat /\ Len(s) = n + 1
      BY LenProperties
<1>2. f[0] = <<>> /\ (\A k \in 1 .. n + 1 : f[k] = f[k - 1] \o s[k]) /\ Flat(s) = f[n + 1]
  <2> HIDE DEF n
  <2> QED
      BY <1>1, FlatFacts
<1>3. /\ g \in [0 .. n -> Seq(Nat)]
      /\ g[0] = <<>> /\ (\A k \in 1 .. n : g[k] = g[k - 1] \o t[k]) /\ Flat(t) = g[n]
      BY FlatFacts
<1>4. \A k \in 1 .. n : t[k] \in Seq(Nat) /\ s[k + 1] = t[k]
      BY ElementOfSeq
<1> HIDE DEF n, f, g
<1>5. \A k \in 0 .. n : f[k + 1] = h \o g[k]
  <2> DEFINE P == {k \in 0 .. n : f[k + 1] # h \o g[k]}
  <2> SUFFICES ASSUME P # {} PROVE FALSE
      OBVIOUS
  <2>1. P \in SUBSET Nat
        BY SMT, <1>1
  <2>2. PICK k \in P : \A j \in P : k <= j
        BY <2>1, SmallestNat
  <2>3. k # 0
    <3>1. f[0 + 1] = h \o g[0]
      <4>1. 1 \in 1 .. n + 1 /\ 1 - 1 = 0 /\ 0 + 1 = 1
            BY SMT, <1>1
      <4>2. f[1] = <<>> \o h
            BY <1>2, <4>1
      <4>3. <<>> \o h = h /\ h \o <<>> = h
            BY ConcatEmptySeq
      <4> QED
          BY <1>3, <4>1, <4>2, <4>3
    <3> QED
        BY <2>2, <3>1
  <2>4. /\ k \in 1 .. n /\ k - 1 \in 0 .. n /\ ~(k <= k - 1) /\ k \in 0 .. n
        /\ k - 1 + 1 = k /\ (k + 1) - 1 = k
        BY SMT, <1>1, <2>3
  <2>9. k + 1 \in 1 .. n + 1
        BY SMT, <1>1
  <2>5. f[k] = h \o g[k - 1]
        BY <2>2, <2>4
  <2>6. f[k + 1] = (h \o g[k - 1]) \o t[k]
    <3>1. f[k + 1] = f[(k + 1) - 1] \o s[k + 1]
      <4> DEFINE m == k + 1
      <4>1. m \in 1 .. n + 1
            BY <2>9
      <4> HIDE DEF m
      <4>2. f[m] = f[m - 1] \o s[m]
            BY <1>2, <4>1
      <4> QED
          BY <4>2 DEF m
    <3>2. s[k + 1] = t[k]
          BY <1>4, <2>4
    <3> QED
        BY <2>4, <2>5, <3>1, <3>2
  <2>7. g[k - 1] \in Seq(Nat) /\ t[k] \in Seq(Nat)
        BY <1>3, <1>4, <2>4
  <2>8. (h \o g[k - 1]) \o t[k] = h \o (g[k - 1] \o t[k])
    <3> DEFINE x == g[k - 1]
               y == t[k]
    <3>1. x \in Seq(Nat) /\ y \in Seq(Nat)
          BY <2>7
    <3> HIDE DEF x, y
    <3>2. (h \o x) \o y = h \o (x \o y)
          BY <3>1, CatAssociative
    <3> QED
        BY <3>2 DEF x, y
  <2> QED
      BY <1>3, <2>2, <2>4, <2>6, <2>8
<1>6. n \in 0 .. n
      BY SMT, <1>1
<1> QED
    BY <1>2, <1>3, <1>5, <1>6

-----------------------------------------------------------------------------
(* The buffered net stream: its socket                                     *)

\* Segments of a byte or more, plans for sends, and sockets
Segs == Seq(Nat) \ {<<>>}
NbPlans == Seq({SENDS} \cup Nat)
NbSockets == [incoming : Seq(Segs), closed : BOOLEAN, timeout : Nat, sent : Seq(Nat),
              plan : NbPlans]

\* Nothing is left exactly when there are no segments.
LEMMA FlatEmpty ==
    Flat(<<>>) = <<>>
<1>1. <<>> \in Seq(Seq(Nat)) /\ Len(<<>>) = 0
      BY SMT
<1>2. Flat(<<>>) = Bytes(<<>>)[Len(<<>>)] /\ Bytes(<<>>)[0] = <<>>
      BY <1>1, FlatFacts
<1> QED
    BY <1>1, <1>2

\* Segments are sequences of bytes.
LEMMA SegsAreSequences ==
    ASSUME NEW s \in Seq(Segs)
    PROVE  s \in Seq(Seq(Nat)) /\ Flat(s) \in Seq(Nat)
<1>1. s \in Seq(Seq(Nat))
      BY SMT DEF Segs
<1> QED
    BY <1>1, FlatFacts

\* A receive brings the first bytes of what is left, and none only when nothing is left.
Receives(k, len, r) ==
    /\ r.socket \in NbSockets
    /\ r.socket = [k EXCEPT !.incoming = r.socket.incoming]
    /\ r.err \in {"ok", "etimedout"}
    /\ r.out \in Seq(Nat) /\ Len(r.out) <= len
    /\ r.out \o Flat(r.socket.incoming) = Flat(k.incoming)
    /\ r.out = <<>> => r.socket.incoming = <<>> /\ (r.err = "ok" => k.closed)
    /\ r.out # <<>> => r.err = "ok"

\* What is left of the segments when n bytes of the first one are received
LEMMA SegmentsLeft ==
    ASSUME NEW s \in Seq(Segs), s # <<>>, NEW n \in 1 .. Len(Head(s))
    PROVE  LET rest == IF n = Len(Head(s)) THEN Tail(s) ELSE <<Drop(Head(s), n)>> \o Tail(s)
           IN  /\ rest \in Seq(Segs) /\ Head(s) \in Seq(Nat)
               /\ Take(Head(s), n) \o Flat(rest) = Flat(s)
<1> DEFINE seg == Head(s)
           t == Tail(s)
<1>1. /\ seg \in Seq(Nat) /\ seg # <<>> /\ t \in Seq(Segs) /\ Len(s) = Len(t) + 1 /\ s[1] = seg
      /\ \A k \in 1 .. Len(t) : s[k + 1] = t[k]
      BY SMT DEF Segs
<1>2. t \in Seq(Seq(Nat)) /\ s \in Seq(Seq(Nat)) /\ Flat(t) \in Seq(Nat)
      BY <1>1, SegsAreSequences
<1> HIDE DEF seg, t
<1>3. Flat(s) = seg \o Flat(t)
      BY <1>1, <1>2, FlatCons
<1>4. n \in 0 .. Len(seg) /\ n > 0 /\ Len(seg) \in Nat
      BY SMT, <1>1 DEF seg
<1>5. CASE n = Len(seg)
  <2>1. Take(seg, n) = seg
        BY SMT, <1>1, <1>5 DEF Take
  <2> QED
      BY <1>1, <1>3, <1>5, <2>1 DEF seg, t
<1>6. CASE n # Len(seg)
  <2> DEFINE d == Drop(seg, n)
             a == Take(seg, n)
             u == <<d>> \o t
  <2>1. d \in Seq(Nat) /\ Len(d) = Len(seg) - n /\ a \in Seq(Nat) /\ seg = a \o d
        BY <1>1, <1>4, TakeDropFacts
  <2>2. d # <<>>
        BY SMT, <1>4, <1>6, <2>1
  <2> HIDE DEF d, a
  <2>3. /\ u \in Seq(Segs) /\ Len(u) = Len(t) + 1 /\ u[1] = d
        /\ \A k \in 1 .. Len(t) : u[k + 1] = t[k]
        BY SMT, <1>1, <2>1, <2>2 DEF Segs
  <2>4. u \in Seq(Seq(Nat))
        BY <2>3, SegsAreSequences
  <2> HIDE DEF u
  <2>5. Flat(u) = d \o Flat(t)
        BY <1>2, <2>1, <2>3, <2>4, FlatCons
  <2>6. a \o (d \o Flat(t)) = (a \o d) \o Flat(t)
        BY <1>2, <2>1, CatAssociative
  <2>7. a \o Flat(u) = Flat(s)
        BY <1>3, <2>1, <2>5, <2>6
  <2> QED
      BY <1>1, <1>6, <2>3, <2>7 DEF seg, t, a, d, u
<1> QED
    BY <1>5, <1>6

\* avs_net_socket_receive as the stream uses it
LEMMA SocketReceiveFacts ==
    ASSUME NEW k \in NbSockets, NEW len \in Nat \ {0}
    PROVE  Receives(k, len, SocketReceive(k, len))
<1> DEFINE r == SocketReceive(k, len)
           s == k.incoming
<1>1. s \in Seq(Segs) /\ k.closed \in BOOLEAN
      BY DEF NbSockets
<1>4. <<>> \in Seq(Nat)
      BY SMT
<1>2. CASE s = <<>>
  <2>1. r = [socket |-> k, err |-> IF k.closed THEN "ok" ELSE "etimedout", out |-> <<>>]
        BY <1>2 DEF SocketReceive
  <2>2. k = [k EXCEPT !.incoming = k.incoming]
        BY DEF NbSockets
  <2>3. <<>> \o Flat(s) = Flat(s) /\ Len(<<>>) <= len
    <3>1. Len(<<>>) <= len
          BY SMT
    <3> QED
        BY <1>2, <3>1, FlatEmpty, NoneBefore
  <2> HIDE DEF r
  <2>4. r.socket = k /\ r.out = <<>> /\ r.err \in {"ok", "etimedout"} /\ (r.err = "ok" => k.closed)
        BY SMT, <2>1
  <2>5. Receives(k, len, r)
        BY <1>1, <1>2, <1>4, <2>2, <2>3, <2>4 DEF Receives
  <2> QED
      BY <2>5 DEF r
<1>3. CASE s # <<>>
  <2> DEFINE seg == Head(s)
             n == AVS_MIN(len, Len(seg))
             rest == IF n = Len(seg) THEN Tail(s) ELSE <<Drop(seg, n)>> \o Tail(s)
  <2>1. seg \in Seq(Nat) /\ Len(seg) \in Nat \ {0}
        BY SMT, <1>1, <1>3 DEF Segs
  <2>2. n \in 1 .. Len(seg) /\ n <= len
        BY SMT, <2>1 DEF AVS_MIN
  <2> HIDE DEF n
  <2>3. rest \in Seq(Segs) /\ Take(seg, n) \o Flat(rest) = Flat(s)
        BY <1>1, <1>3, <2>2, SegmentsLeft
  <2>4. Take(seg, n) \in Seq(Nat) /\ Len(Take(seg, n)) = n
    <3>1. n \in 0 .. Len(seg)
          BY SMT, <2>1, <2>2
    <3> HIDE DEF seg
    <3> QED
        BY <2>1, <3>1, TakeDropFacts
  <2>5. r = [socket |-> [k EXCEPT !.incoming = rest], err |-> "ok", out |-> Take(seg, n)]
        BY <1>3 DEF SocketReceive, n
  <2> HIDE DEF seg, rest, r
  <2>6. Take(seg, n) # <<>> /\ Len(Take(seg, n)) <= len
        BY SMT, <2>2, <2>4
  <2>7. /\ r.socket = [k EXCEPT !.incoming = rest] /\ r.err = "ok" /\ r.out = Take(seg, n)
        BY SMT, <2>5
  <2>8. r.socket \in NbSockets /\ r.socket.incoming = rest
        BY <2>3, <2>7 DEF NbSockets
  <2>9. Receives(k, len, r)
        BY <2>3, <2>4, <2>6, <2>7, <2>8 DEF Receives
  <2> QED
      BY <2>9 DEF r
<1> QED
    BY <1>2, <1>3

-----------------------------------------------------------------------------
(* The buffered net stream: reading                                        *)

\* Buffers within their capacity, and streams with an input buffer of some size
NbBuffers == [capacity : Nat, begin : Nat, data : Seq(Nat)]
Buffered == {b \in NbBuffers : Len(b.data) <= b.capacity}
NbRecords == [in : Buffered, out : Buffered, socket : NbSockets]
NbStreams == {s \in NbRecords : s.in.capacity # 0}

\* What is left to be read
ToRead(s) == s.in.data \o Flat(s.socket.incoming)

\* A call on the input has left the rest of the stream as it was.
Same(s, t) ==
    /\ t \in NbStreams /\ t.in.capacity = s.in.capacity /\ t.out = s.out
    /\ t.socket.closed = s.socket.closed /\ t.socket.timeout = s.socket.timeout
    /\ t.socket.sent = s.socket.sent

\* Data is put behind what is there, within the capacity.
LEMMA BufferPutFacts ==
    ASSUME NEW b \in Buffered, NEW bytes \in Seq(Nat), Len(bytes) <= b.capacity - Len(b.data)
    PROVE  /\ BufferPut(b, bytes) \in Buffered
           /\ BufferPut(b, bytes).capacity = b.capacity
           /\ BufferPut(b, bytes).data = b.data \o bytes
<1> DEFINE m == IF Len(bytes) > SpaceLeftWithoutMoving(b) THEN DefragmentBuffer(b) ELSE b
           d == b.data \o bytes
           c == [m EXCEPT !.data = d]
<1>1. b.capacity \in Nat /\ b.data \in Seq(Nat) /\ b \in NbBuffers
      BY DEF Buffered, NbBuffers
<1>2. d \in Seq(Nat) /\ Len(d) = Len(b.data) + Len(bytes)
      BY <1>1, CatElems
<1>3. Len(d) <= b.capacity
      BY SMT, <1>1, <1>2
<1>4. m \in NbBuffers /\ m.capacity = b.capacity /\ m.data = b.data
  <2>1. m = b \/ m = [b EXCEPT !.begin = 0]
        BY DEF DefragmentBuffer
  <2> HIDE DEF m
  <2>2. CASE m = b
        BY <1>1, <2>2
  <2>3. CASE m = [b EXCEPT !.begin = 0]
    <3>1. 0 \in Nat
          BY SMT
    <3>2. m \in NbBuffers
          BY <1>1, <2>3, <3>1 DEF NbBuffers
    <3>3. m.capacity = b.capacity /\ m.data = b.data
          BY <1>1, <2>3 DEF NbBuffers
    <3> QED
        BY <3>2, <3>3
  <2> QED
      BY <2>1, <2>2, <2>3
<1>5. BufferPut(b, bytes) = c
      BY <1>4 DEF BufferPut
<1> HIDE DEF m, d
<1>6. c \in NbBuffers /\ c.capacity = b.capacity /\ c.data = d
  <2>1. c \in NbBuffers
        BY <1>2, <1>4 DEF NbBuffers
  <2>2. c.capacity = b.capacity /\ c.data = d
        BY <1>4 DEF NbBuffers
  <2> QED
      BY <2>1, <2>2
<1> HIDE DEF c
<1>7. c \in Buffered
      BY <1>3, <1>6 DEF Buffered
<1> QED
    BY <1>5, <1>6, <1>7 DEF d

\* Data that is received goes behind what is there.
LEMMA BufferRawInsertFacts ==
    ASSUME NEW b \in Buffered, NEW bytes \in Seq(Nat), Len(bytes) <= b.capacity - Len(b.data)
    PROVE  /\ BufferRawInsert(b, bytes) \in Buffered
           /\ BufferRawInsert(b, bytes).capacity = b.capacity
           /\ BufferRawInsert(b, bytes).data = b.data \o bytes
<1> DEFINE c == DefragmentBuffer(b)
<1>1. b \in NbBuffers /\ Len(b.data) <= b.capacity
      BY DEF Buffered
<1>2. c \in NbBuffers /\ c.capacity = b.capacity /\ c.data = b.data
  <2>1. 0 \in Nat
        BY SMT
  <2>2. c \in NbBuffers
        BY <1>1, <2>1 DEF NbBuffers, DefragmentBuffer
  <2>3. c.capacity = b.capacity /\ c.data = b.data
        BY <1>1 DEF NbBuffers, DefragmentBuffer
  <2> QED
      BY <2>2, <2>3
<1> HIDE DEF c
<1>3. c \in Buffered /\ Len(bytes) <= c.capacity - Len(c.data)
      BY <1>1, <1>2 DEF Buffered
<1>4. /\ BufferPut(c, bytes) \in Buffered
      /\ BufferPut(c, bytes).capacity = c.capacity
      /\ BufferPut(c, bytes).data = c.data \o bytes
      BY <1>3, BufferPutFacts
<1> QED
    BY <1>2, <1>4 DEF c, BufferRawInsert

\* What the types say of the fields of a stream
LEMMA NbFields ==
    ASSUME NEW s \in NbStreams
    PROVE  /\ s \in NbRecords /\ s.in \in Buffered /\ s.out \in Buffered /\ s.socket \in NbSockets
           /\ s.in.capacity \in Nat \ {0} /\ s.in.data \in Seq(Nat) /\ s.in.begin \in Nat
           /\ Len(s.in.data) \in Nat /\ Len(s.in.data) <= s.in.capacity
           /\ s.out.capacity \in Nat /\ s.out.data \in Seq(Nat)
           /\ Len(s.out.data) \in Nat /\ Len(s.out.data) <= s.out.capacity
           /\ s.socket.incoming \in Seq(Segs) /\ s.socket.sent \in Seq(Nat)
           /\ s.socket.closed \in BOOLEAN /\ s.socket.timeout \in Nat
           /\ s.socket.plan \in NbPlans
           /\ Flat(s.socket.incoming) \in Seq(Nat)
<1>1. s \in NbRecords /\ s.in.capacity # 0
      BY DEF NbStreams
<1>2. s.in \in Buffered /\ s.out \in Buffered /\ s.socket \in NbSockets
      BY <1>1 DEF NbRecords
<1>3. /\ s.in \in NbBuffers /\ s.out \in NbBuffers
      /\ Len(s.in.data) <= s.in.capacity /\ Len(s.out.data) <= s.out.capacity
      BY <1>2 DEF Buffered
<1>4. /\ s.in.capacity \in Nat /\ s.in.data \in Seq(Nat) /\ s.in.begin \in Nat
      /\ s.out.capacity \in Nat /\ s.out.data \in Seq(Nat)
      BY <1>3 DEF NbBuffers
<1>5. /\ s.socket.incoming \in Seq(Segs) /\ s.socket.sent \in Seq(Nat)
      /\ s.socket.closed \in BOOLEAN /\ s.socket.timeout \in Nat /\ s.socket.plan \in NbPlans
      BY <1>2 DEF NbSockets
<1>6. Len(s.in.data) \in Nat /\ Len(s.out.data) \in Nat /\ s.in.capacity \in Nat \ {0}
      BY <1>1, <1>4, LenProperties
<1>7. Flat(s.socket.incoming) \in Seq(Nat)
      BY <1>5, SegsAreSequences
<1> QED
    BY <1>1, <1>2, <1>3, <1>4, <1>5, <1>6, <1>7

\* A receive into the buffer moves what has arrived and loses nothing.
ReadsSome(s, r) ==
    /\ Same(s, r.nb) /\ ToRead(r.nb) = ToRead(s)
    /\ r.out \in Seq(Nat) /\ Len(r.nb.in.data) = Len(s.in.data) + Len(r.out)
    /\ r.err \in {"ok", "etimedout", "enobufs"} /\ r.fin = FALSE
    /\ r.err = "enobufs" => Len(s.in.data) = s.in.capacity
    /\ (r.out = <<>> /\ r.err # "enobufs")
            => r.nb.socket.incoming = <<>> /\ (r.err = "ok" => s.socket.closed)

\* No call at all
LEMMA SameSelf ==
    ASSUME NEW s \in NbStreams
    PROVE  Same(s, s)
    BY DEF Same

\* in_buffer_read_some
LEMMA InBufferReadSomeFacts ==
    ASSUME NEW s \in NbStreams
    PROVE  ReadsSome(s, InBufferReadSome(s))
<1> DEFINE space == BufferSpaceLeft(s.in)
           k == s.socket
           q == SocketReceive(k, space)
           b == BufferRawInsert(s.in, q.out)
           t == [s EXCEPT !.socket = q.socket, !.in = b]
           r == InBufferReadSome(s)
<1>1. /\ s \in NbRecords /\ s.in \in Buffered /\ k \in NbSockets
      /\ s.in.capacity \in Nat \ {0} /\ s.in.data \in Seq(Nat)
      /\ Len(s.in.data) \in Nat /\ Len(s.in.data) <= s.in.capacity
      BY NbFields
<1>2. space \in Nat /\ space = s.in.capacity - Len(s.in.data)
      BY SMT, <1>1 DEF BufferSpaceLeft, BufferDataSize
<1>3. CASE space = 0
  <2>1. r = NbResult(s, "enobufs", <<>>, FALSE)
        BY <1>3 DEF InBufferReadSome
  <2> HIDE DEF r
  <2>2. r.nb = s /\ r.err = "enobufs" /\ r.out = <<>> /\ r.fin = FALSE
        BY SMT, <2>1 DEF NbResult
  <2>3. Len(s.in.data) = s.in.capacity /\ Len(s.in.data) = Len(s.in.data) + Len(<<>>) /\ <<>> \in Seq(Nat)
        BY SMT, <1>1, <1>2, <1>3
  <2>4. "enobufs" \in {"ok", "etimedout", "enobufs"}
        OBVIOUS
  <2>5. ReadsSome(s, r)
        BY <2>2, <2>3, <2>4, SameSelf DEF ReadsSome
  <2> QED
      BY <2>5 DEF r
<1>4. CASE space # 0
  <2>1. r = NbResult(t, q.err, q.out, FALSE)
        BY <1>4 DEF InBufferReadSome
  <2>2. Receives(k, space, q)
    <3>1. space \in Nat \ {0}
          BY <1>2, <1>4
    <3> HIDE DEF space, k
    <3> QED
        BY <1>1, <3>1, SocketReceiveFacts
  <2> HIDE DEF space, q, r
  <2>3. /\ q.socket \in NbSockets /\ q.socket = [k EXCEPT !.incoming = q.socket.incoming]
        /\ q.err \in {"ok", "etimedout"}
        /\ q.out \in Seq(Nat) /\ Len(q.out) <= space
        /\ q.out \o Flat(q.socket.incoming) = Flat(k.incoming)
        /\ q.out = <<>> => q.socket.incoming = <<>> /\ (q.err = "ok" => k.closed)
        BY <2>2 DEF Receives
  <2>4. b \in Buffered /\ b.capacity = s.in.capacity /\ b.data = s.in.data \o q.out
        BY <1>1, <1>2, <2>3, BufferRawInsertFacts
  <2> HIDE DEF b
  <2>5. r.nb = t /\ r.err = q.err /\ r.out = q.out /\ r.fin = FALSE
        BY SMT, <2>1 DEF NbResult
  <2>6. t \in NbRecords /\ t.in = b /\ t.out = s.out /\ t.socket = q.socket
    <3>1. t \in NbRecords
          BY <1>1, <2>3, <2>4 DEF NbRecords
    <3>2. t.in = b /\ t.out = s.out /\ t.socket = q.socket
          BY <1>1 DEF NbRecords
    <3> QED
        BY <3>1, <3>2
  <2> HIDE DEF t
  <2>7. t.in.capacity = s.in.capacity /\ t.in.capacity # 0
        BY <1>1, <2>4, <2>6
  <2>8. /\ q.socket.closed = k.closed /\ q.socket.timeout = k.timeout
        /\ q.socket.sent = k.sent
    <3> DEFINE i == q.socket.incoming
    <3>1. q.socket = [k EXCEPT !.incoming = i]
          BY <2>3
    <3> HIDE DEF i
    <3> QED
        BY <1>1, <3>1 DEF NbSockets
  <2>9. Same(s, t)
        BY <2>6, <2>7, <2>8 DEF Same, NbStreams
  <2>10. ToRead(t) = ToRead(s)
    <3>1. Flat(q.socket.incoming) \in Seq(Nat)
          BY <2>9, <2>6, NbFields DEF Same
    <3>2. (s.in.data \o q.out) \o Flat(q.socket.incoming)
            = s.in.data \o (q.out \o Flat(q.socket.incoming))
          BY <1>1, <2>3, <3>1, CatAssociative
    <3> QED
        BY <2>3, <2>4, <2>6, <3>2 DEF ToRead
  <2>11. Len(t.in.data) = Len(s.in.data) + Len(q.out)
    <3>1. Len(s.in.data \o q.out) = Len(s.in.data) + Len(q.out)
          BY <1>1, <2>3, CatElems
    <3> QED
        BY <2>4, <2>6, <3>1
  <2>12. q.err \in {"ok", "etimedout", "enobufs"} /\ q.err # "enobufs"
         BY <2>3
  <2>13. ReadsSome(s, r)
         BY <2>3, <2>5, <2>6, <2>9, <2>10, <2>11, <2>12 DEF ReadsSome
  <2> QED
      BY <2>13 DEF r
<1> QED
    BY <1>3, <1>4

\* A read gives the first bytes of what is left.
Reads(s, r) ==
    /\ Same(s, r.nb)
    /\ r.out \in Seq(Nat) /\ r.out \o ToRead(r.nb) = ToRead(s)
    /\ (r.err = "ok" /\ r.fin) => r.nb.socket.closed /\ r.nb.socket.incoming = <<>>

\* return_data_from_buffer
LEMMA ReturnDataFromBufferFacts ==
    ASSUME NEW s \in NbStreams, NEW len \in Nat
    PROVE  Reads(s, ReturnDataFromBuffer(s, len))
<1> DEFINE a == s.in.data
           n == AVS_MIN(BufferDataSize(s.in), len)
           b == BufferConsumeBytes(s.in, n)
           t == [s EXCEPT !.in = b]
           r == ReturnDataFromBuffer(s, len)
           f == Flat(s.socket.incoming)
<1>1. /\ s \in NbRecords /\ s.in \in NbBuffers /\ s.in \in Buffered
      /\ s.in.capacity \in Nat \ {0} /\ a \in Seq(Nat) /\ s.in.begin \in Nat
      /\ Len(a) \in Nat /\ Len(a) <= s.in.capacity /\ f \in Seq(Nat)
      BY NbFields DEF Buffered
<1>2. n \in 0 .. Len(a) /\ s.in.begin + n \in Nat
      BY SMTT(30), <1>1 DEF AVS_MIN, BufferDataSize
<1> HIDE DEF n
<1>3. /\ Take(a, n) \in Seq(Nat) /\ Drop(a, n) \in Seq(Nat) /\ Len(Drop(a, n)) = Len(a) - n
      /\ a = Take(a, n) \o Drop(a, n)
      BY <1>1, <1>2, TakeDropFacts
<1>4. b \in NbBuffers
      BY <1>1, <1>2, <1>3 DEF NbBuffers, BufferConsumeBytes
<1>5. b.capacity = s.in.capacity /\ b.data = Drop(a, n)
      BY <1>1 DEF NbBuffers, BufferConsumeBytes
<1>6. r = NbResult(t, "ok", Take(a, n), FALSE)
      BY DEF ReturnDataFromBuffer, n
<1> HIDE DEF b, r
<1>7. Len(b.data) <= b.capacity
      BY SMT, <1>1, <1>2, <1>3, <1>5
<1>8. b \in Buffered
      BY <1>4, <1>7 DEF Buffered
<1>9. t \in NbRecords
      BY <1>1, <1>8 DEF NbRecords
<1>10. t.in = b /\ t.out = s.out /\ t.socket = s.socket
       BY <1>1 DEF NbRecords
<1> HIDE DEF t
<1>11. r.nb = t /\ r.out = Take(a, n) /\ r.fin = FALSE
       BY SMT, <1>6 DEF NbResult
<1>12. t.in.capacity = s.in.capacity /\ t.in.capacity # 0
       BY <1>1, <1>5, <1>10
<1>13. Same(s, t)
       BY <1>9, <1>10, <1>12 DEF Same, NbStreams
<1>14. Take(a, n) \o ToRead(t) = ToRead(s)
  <2>1. (Take(a, n) \o Drop(a, n)) \o f = Take(a, n) \o (Drop(a, n) \o f)
        BY <1>1, <1>3, CatAssociative
  <2> QED
      BY <1>3, <1>5, <1>10, <2>1 DEF ToRead
<1>15. Reads(s, r)
       BY <1>3, <1>11, <1>13, <1>14 DEF Reads
<1> QED
    BY <1>15 DEF r

\* read_data_to_user_buffer, with nothing in the buffer
LEMMA ReadDataToUserBufferFacts ==
    ASSUME NEW s \in NbStreams, s.in.data = <<>>, NEW len \in Nat \ {0}
    PROVE  Reads(s, ReadDataToUserBuffer(s, len))
<1> DEFINE k == s.socket
           q == SocketReceive(k, len)
           t == [s EXCEPT !.socket = q.socket]
           r == ReadDataToUserBuffer(s, len)
<1>1. s \in NbRecords /\ k \in NbSockets /\ s.in.capacity # 0 /\ Flat(k.incoming) \in Seq(Nat)
      BY NbFields
<1>2. Receives(k, len, q)
  <2> HIDE DEF k
  <2> QED
      BY <1>1, SocketReceiveFacts
<1>3. r = NbResult(t, q.err, q.out, q.err # "ok" \/ q.out = <<>>)
      BY DEF ReadDataToUserBuffer
<1> HIDE DEF q, r
<1>4. /\ q.socket \in NbSockets /\ q.socket = [k EXCEPT !.incoming = q.socket.incoming]
      /\ q.err \in {"ok", "etimedout"} /\ q.out \in Seq(Nat)
      /\ q.out \o Flat(q.socket.incoming) = Flat(k.incoming)
      /\ q.out = <<>> => q.socket.incoming = <<>> /\ (q.err = "ok" => k.closed)
      BY <1>2 DEF Receives
<1>5. t \in NbRecords
      BY <1>1, <1>4 DEF NbRecords
<1>6. t.in = s.in /\ t.out = s.out /\ t.socket = q.socket
      BY <1>1 DEF NbRecords
<1> HIDE DEF t
<1>7. /\ r.nb = t /\ r.err = q.err /\ r.out = q.out
      /\ r.fin <=> q.err # "ok" \/ q.out = <<>>
  <2> DEFINE fin == q.err # "ok" \/ q.out = <<>>
             u == NbResult(t, q.err, q.out, fin)
  <2> HIDE DEF fin
  <2>1. u.nb = t /\ u.err = q.err /\ u.out = q.out /\ u.fin = fin
        BY DEF NbResult
  <2> HIDE DEF u
  <2>2. r = u
        BY <1>3 DEF u, fin
  <2> QED
      BY <2>1, <2>2 DEF fin
<1>8. /\ q.socket.closed = k.closed /\ q.socket.timeout = k.timeout
      /\ q.socket.sent = k.sent
  <2> DEFINE i == q.socket.incoming
  <2>1. q.socket = [k EXCEPT !.incoming = i]
        BY <1>4
  <2> HIDE DEF i
  <2> QED
      BY <1>1, <2>1 DEF NbSockets
<1>9. Same(s, t)
      BY <1>1, <1>5, <1>6, <1>8 DEF Same, NbStreams
<1>10. q.out \o ToRead(t) = ToRead(s)
  <2>1. Flat(q.socket.incoming) \in Seq(Nat)
        BY <1>6, <1>9, NbFields DEF Same
  <2>2. ToRead(t) = Flat(q.socket.incoming) /\ ToRead(s) = Flat(k.incoming)
        BY <1>1, <1>6, <2>1, NoneBefore DEF ToRead
  <2> QED
      BY <1>4, <2>2
<1>11. (r.err = "ok" /\ r.fin) => r.nb.socket.closed /\ r.nb.socket.incoming = <<>>
       BY <1>4, <1>6, <1>7, <1>8
<1>12. Reads(s, r)
       BY <1>4, <1>7, <1>9, <1>10, <1>11 DEF Reads
<1> QED
    BY <1>12 DEF r

\* Two calls, one after the other
LEMMA SameAgain ==
    ASSUME NEW s, NEW t, NEW u, Same(s, t), Same(t, u)
    PROVE  Same(s, u)
    BY DEF Same

\* read_data_through_internal_buffer, with nothing in the buffer before
LEMMA ReadDataThroughInternalBufferFacts ==
    ASSUME NEW s \in NbStreams, s.in.data = <<>>, NEW len \in Nat
    PROVE  Reads(s, ReadDataThroughInternalBuffer(s, len))
<1> DEFINE q == InBufferReadSome(s)
           t == q.nb
           r == ReadDataThroughInternalBuffer(s, len)
<1>1. ReadsSome(s, q)
      BY InBufferReadSomeFacts
<1>2. r = IF q.err # "ok" THEN NbResult(t, q.err, <<>>, FALSE)
          ELSE IF BufferDataSize(t.in) > 0 THEN ReturnDataFromBuffer(t, len)
          ELSE NbResult(t, "ok", <<>>, TRUE)
      BY DEF ReadDataThroughInternalBuffer
<1> HIDE DEF q, r
<1>3. /\ Same(s, t) /\ ToRead(t) = ToRead(s) /\ q.out \in Seq(Nat)
      /\ Len(t.in.data) = Len(s.in.data) + Len(q.out)
      /\ (q.out = <<>> /\ q.err # "enobufs")
            => t.socket.incoming = <<>> /\ (q.err = "ok" => s.socket.closed)
      BY <1>1 DEF ReadsSome
<1> HIDE DEF t
<1>4. /\ t \in NbStreams /\ t.in.data \in Seq(Nat) /\ t.socket.closed = s.socket.closed
      /\ Flat(t.socket.incoming) \in Seq(Nat)
      BY <1>3, NbFields DEF Same
<1>5. ToRead(t) \in Seq(Nat) /\ <<>> \o ToRead(t) = ToRead(t)
      BY <1>4, CatElems, NoneBefore DEF ToRead
<1>6. <<>> \in Seq(Nat)
      BY SMT
<1>7. CASE q.err # "ok"
  <2>1. r.nb = t /\ r.err = q.err /\ r.out = <<>>
        BY SMT, <1>2, <1>7 DEF NbResult
  <2>2. Reads(s, r)
        BY <1>3, <1>5, <1>6, <1>7, <2>1 DEF Reads
  <2> QED
      BY <2>2 DEF r
<1>8. CASE q.err = "ok" /\ BufferDataSize(t.in) > 0
  <2>1. r = ReturnDataFromBuffer(t, len)
        BY <1>2, <1>8
  <2>2. Reads(t, r)
        BY <1>4, <2>1, ReturnDataFromBufferFacts
  <2>3. Reads(s, r)
        BY <1>3, <2>2, SameAgain DEF Reads
  <2> QED
      BY <2>3 DEF r
<1>9. CASE q.err = "ok" /\ ~(BufferDataSize(t.in) > 0)
  <2>1. r = NbResult(t, "ok", <<>>, TRUE)
        BY <1>2, <1>9
  <2>2. r.nb = t /\ r.err = "ok" /\ r.out = <<>>
        BY SMT, <2>1 DEF NbResult
  <2>3. q.out = <<>>
    <3>1. Len(s.in.data) = 0 /\ Len(q.out) \in Nat /\ ~(Len(t.in.data) > 0)
      <4>1. Len(<<>>) = 0
            BY SMT
      <4> QED
          BY <1>3, <1>9, <4>1, LenProperties DEF BufferDataSize
    <3>2. Len(q.out) = 0
          BY SMT, <1>3, <3>1
    <3> QED
        BY <1>3, <3>2, EmptySeq
  <2>4. t.socket.closed /\ t.socket.incoming = <<>>
        BY <1>3, <1>4, <1>9, <2>3
  <2>5. Reads(s, r)
        BY <1>3, <1>5, <1>6, <2>2, <2>4 DEF Reads
  <2> QED
      BY <2>5 DEF r
<1> QED
    BY <1>7, <1>8, <1>9

\* buffered_netstream_read
LEMMA NbReadFacts ==
    ASSUME NEW s \in NbStreams, NEW len \in Nat
    PROVE  Reads(s, NbRead(s, len))
<1>1. /\ s.in.data \in Seq(Nat) /\ Len(s.in.data) \in Nat /\ s.in.capacity \in Nat \ {0}
      BY NbFields
<1>2. CASE BufferDataSize(s.in) <= 0
  <2>1. Len(s.in.data) = 0
        BY SMT, <1>1, <1>2 DEF BufferDataSize
  <2>2. s.in.data = <<>>
        BY <1>1, <2>1, EmptySeq
  <2>3. CASE len >= s.in.capacity
    <3>1. len \in Nat \ {0}
          BY SMT, <1>1, <2>3
    <3>2. NbRead(s, len) = ReadDataToUserBuffer(s, len)
          BY <1>2, <2>3 DEF NbRead, ReadNewData
    <3> QED
        BY <2>2, <3>1, <3>2, ReadDataToUserBufferFacts
  <2>4. CASE ~(len >= s.in.capacity)
    <3>1. NbRead(s, len) = ReadDataThroughInternalBuffer(s, len)
          BY <1>2, <2>4 DEF NbRead, ReadNewData
    <3> QED
        BY <2>2, <3>1, ReadDataThroughInternalBufferFacts
  <2> QED
      BY <2>3, <2>4
<1>3. CASE ~(BufferDataSize(s.in) <= 0)
  <2>1. NbRead(s, len) = ReturnDataFromBuffer(s, len)
        BY <1>3 DEF NbRead
  <2> QED
      BY <2>1, ReturnDataFromBufferFacts
<1> QED
    BY <1>2, <1>3

-----------------------------------------------------------------------------
(* The buffered net stream: peeking and readiness                          *)

\* The streams that receives into the buffer lead to
Ahead(s) == {t \in NbStreams : Same(s, t) /\ ToRead(t) = ToRead(s)}

\* One receive more
LEMMA AheadAgain ==
    ASSUME NEW s \in NbStreams, NEW t \in Ahead(s)
    PROVE  InBufferReadSome(t).nb \in Ahead(s) /\ ReadsSome(t, InBufferReadSome(t)) /\ t \in NbStreams
<1> DEFINE q == InBufferReadSome(t)
<1>1. t \in NbStreams /\ Same(s, t) /\ ToRead(t) = ToRead(s)
      BY DEF Ahead
<1>2. ReadsSome(t, q)
      BY <1>1, InBufferReadSomeFacts
<1> HIDE DEF q
<1>3. Same(t, q.nb) /\ ToRead(q.nb) = ToRead(t) /\ q.nb \in NbStreams
      BY <1>2 DEF ReadsSome, Same
<1>4. Same(s, q.nb)
      BY <1>1, <1>3, SameAgain
<1>5. q.nb \in Ahead(s)
      BY <1>1, <1>3, <1>4 DEF Ahead
<1> QED
    BY <1>1, <1>2, <1>5 DEF q

\* The recursion of Fills has a solution, and each receive loses nothing.
LEMMA FillsFacts ==
    ASSUME NEW s \in NbStreams, NEW n \in Nat
    PROVE  LET f == Fills(s, n) IN
           /\ f[0] = NbResult(s, "ok", <<>>, FALSE)
           /\ \A k \in 1 .. n : f[k] = InBufferReadSome(f[k - 1].nb)
           /\ \A k \in 0 .. n : f[k].nb \in Ahead(s)
<1> DEFINE S == Ahead(s)
           zero == NbResult(s, "ok", <<>>, FALSE)
           step == [k \in Nat |-> [t \in S |-> InBufferReadSome(t).nb]]
<1>1. s \in S
      BY SameSelf DEF Ahead
<1>2. \A t \in S : InBufferReadSome(t).nb \in S
      BY AheadAgain
<1>3. step \in [Nat -> [S -> S]] /\ \A k \in Nat, t \in S : step[k][t] = InBufferReadSome(t).nb
  <2> HIDE DEF S
  <2>1. step \in [Nat -> [S -> S]]
        BY <1>2
  <2>2. \A k \in Nat, t \in S : step[k][t] = InBufferReadSome(t).nb
        OBVIOUS
  <2> QED
      BY <2>1, <2>2
<1>4. zero.nb = s
      BY DEF NbResult
<1> HIDE DEF S, step, zero
<1>5. PICK g : /\ g \in [0 .. n -> S]
               /\ g[0] = s /\ \A k \in 1 .. n : g[k] = step[k][g[k - 1]]
  <2>1. \E g : Iterated(S, s, step, n, g)
        BY <1>1, <1>3, Iterates
  <2> QED
      BY <2>1 DEF Iterated
<1> DEFINE F == [k \in 0 .. n |-> IF k = 0 THEN zero ELSE InBufferReadSome(g[k - 1])]
<1>6. \A k \in 1 .. n : k \in Nat /\ k # 0 /\ k \in 0 .. n /\ k - 1 \in 0 .. n
      BY SMT
<1>7. 0 \in 0 .. n /\ \A k \in 0 .. n : k = 0 \/ k \in 1 .. n
      BY SMT
<1>8. ASSUME NEW k \in 0 .. n PROVE F[k].nb = g[k]
  <2>1. CASE k = 0
        BY <1>4, <1>5, <2>1
  <2>2. CASE k # 0
    <3>1. k \in 1 .. n /\ k \in Nat /\ g[k - 1] \in S
          BY <1>5, <1>6, <1>7, <2>2
    <3>2. F[k] = InBufferReadSome(g[k - 1])
          BY <2>2
    <3>3. g[k] = InBufferReadSome(g[k - 1]).nb
          BY <1>3, <1>5, <3>1
    <3> QED
        BY <3>2, <3>3
  <2> QED
      BY <2>1, <2>2
<1>9. F = [k \in 0 .. n |-> IF k = 0 THEN zero ELSE InBufferReadSome(F[k - 1].nb)]
  <2>1. ASSUME NEW k \in 0 .. n
        PROVE  F[k] = IF k = 0 THEN zero ELSE InBufferReadSome(F[k - 1].nb)
    <3>1. CASE k = 0
          BY <3>1
    <3>2. CASE k # 0
      <4>1. k - 1 \in 0 .. n
            BY <1>6, <1>7, <3>2
      <4>2. F[k - 1].nb = g[k - 1]
            BY <1>8, <4>1
      <4>3. F[k] = InBufferReadSome(g[k - 1])
            BY <3>2
      <4> HIDE DEF F
      <4> QED
          BY <3>2, <4>2, <4>3
    <3> QED
        BY <3>1, <3>2
  <2>2. F = [k \in 0 .. n |-> F[k]]
        OBVIOUS
  <2> HIDE DEF F
  <2> QED
      BY <2>1, <2>2
<1> DEFINE f == Fills(s, n)
<1>10. f = [k \in 0 .. n |-> IF k = 0 THEN zero ELSE InBufferReadSome(f[k - 1].nb)]
  <2> HIDE DEF F
  <2> QED
      BY <1>9 DEF Fills, zero
<1> HIDE DEF F, f
<1>11. f[0] = zero /\ \A k \in 1 .. n : f[k] = InBufferReadSome(f[k - 1].nb)
       BY <1>6, <1>7, <1>10
<1>12. \A k \in 0 .. n : f[k].nb \in S
  <2> DEFINE P == {k \in 0 .. n : f[k].nb \notin S}
  <2> SUFFICES ASSUME P # {} PROVE FALSE
      OBVIOUS
  <2>1. P \in SUBSET Nat
        BY SMT
  <2>2. PICK k \in P : \A j \in P : k <= j
        BY <2>1, SmallestNat
  <2>3. k # 0
        BY <1>1, <1>4, <1>11, <2>2
  <2>4. k \in 1 .. n /\ k - 1 \in 0 .. n /\ ~(k <= k - 1)
        BY SMT, <2>3
  <2>5. f[k - 1].nb \in S
        BY <2>2, <2>4
  <2> QED
      BY <1>2, <1>11, <2>4, <2>5
<1> QED
    BY <1>11, <1>12 DEF f, S, zero

\* A peek loses nothing, and its byte is there.
Peeks(s, offset, r) ==
    /\ r.nb \in Ahead(s)
    /\ r.err = "eof" => r.nb.socket.closed /\ r.nb.socket.incoming = <<>>
    /\ r.err = "ok" => /\ r.out = <<r.nb.in.data[offset + 1]>>
                       /\ offset < Len(r.nb.in.data)

\* buffered_netstream_peek: some receive is the last, since each before it brings a byte.
LEMMA NbPeekFacts ==
    ASSUME NEW s \in NbStreams, NEW offset \in Nat
    PROVE  Peeks(s, offset, NbPeek(s, offset))
<1> DEFINE n == offset + 1
           fill == Fills(s, n)
           Brought(k) == fill[k].err = "ok" /\ fill[k].out # <<>>
           Found(k) == offset < BufferDataSize(fill[k].nb.in)
           ends == {k \in 0 .. n : Found(k) \/ (k # 0 /\ ~Brought(k))}
           last == CHOOSE k \in ends : \A j \in ends : k <= j
           r == fill[last]
           peek == NbPeek(s, offset)
<1>1. n \in Nat
      BY SMT
<1>2. peek = IF offset >= s.in.capacity THEN NbResult(s, "einval", <<>>, FALSE)
             ELSE IF last # 0 /\ r.err # "ok" THEN r
             ELSE IF last # 0 /\ r.out = <<>> THEN NbResult(r.nb, "eof", <<>>, FALSE)
             ELSE NbResult(r.nb, "ok", <<r.nb.in.data[offset + 1]>>, FALSE)
      BY DEF NbPeek
<1> HIDE DEF n, fill
<1>3. /\ fill[0] = NbResult(s, "ok", <<>>, FALSE)
      /\ \A k \in 1 .. n : fill[k] = InBufferReadSome(fill[k - 1].nb)
      /\ \A k \in 0 .. n : fill[k].nb \in Ahead(s)
      BY <1>1, FillsFacts DEF fill
<1> HIDE DEF peek
<1>4. s \in Ahead(s)
      BY SameSelf DEF Ahead
<1>5. CASE offset >= s.in.capacity
  <2>1. peek = NbResult(s, "einval", <<>>, FALSE)
        BY <1>2, <1>5
  <2>2. peek.nb = s /\ peek.err = "einval"
        BY SMT, <2>1 DEF NbResult
  <2>3. Peeks(s, offset, peek)
        BY <1>4, <2>2 DEF Peeks
  <2> QED
      BY <2>3 DEF peek
<1>6. CASE ~(offset >= s.in.capacity)
  <2>1. ASSUME NEW k \in 1 .. n
        PROVE  /\ ReadsSome(fill[k - 1].nb, fill[k])
               /\ fill[k].nb.in.data \in Seq(Nat) /\ fill[k - 1].nb.in.data \in Seq(Nat)
    <3>1. k - 1 \in 0 .. n /\ k \in 0 .. n
          BY SMT, <1>1
    <3>2. fill[k - 1].nb \in Ahead(s) /\ fill[k].nb \in Ahead(s)
          BY <1>3, <3>1
    <3> DEFINE t == fill[k - 1].nb
    <3>3. fill[k] = InBufferReadSome(t)
          BY <1>3
    <3> HIDE DEF t
    <3>4. ReadsSome(t, InBufferReadSome(t))
          BY <3>2, AheadAgain DEF t
    <3>5. fill[k].nb \in NbStreams /\ t \in NbStreams
          BY <3>2 DEF Ahead, t
    <3>6. fill[k].nb.in.data \in Seq(Nat) /\ t.in.data \in Seq(Nat)
          BY <3>5, NbFields
    <3> QED
        BY <3>3, <3>4, <3>6 DEF t
  <2>2. ends # {}
    <3> SUFFICES ASSUME ends = {} PROVE FALSE
        OBVIOUS
    <3> DEFINE l(k) == Len(fill[k].nb.in.data)
               P == {k \in 0 .. n : l(k) < k}
    <3>1. ASSUME NEW k \in 0 .. n PROVE l(k) \in Nat
      <4>1. fill[k].nb \in NbStreams
            BY <1>3 DEF Ahead
      <4> QED
          BY <4>1, NbFields
    <3>2. n \notin P
      <4> SUFFICES ASSUME P # {} PROVE FALSE
          OBVIOUS
      <4>1. P \in SUBSET Nat
            BY SMT, <1>1
      <4>2. PICK k \in P : \A j \in P : k <= j
        <5> HIDE DEF P
        <5> QED
            BY <4>1, SmallestNat
      <4>3. k \in 0 .. n /\ l(k) < k
            BY <4>2
      <4>4. k # 0
        <5>1. l(k) \in Nat
              BY <3>1, <4>3
        <5> HIDE DEF l
        <5> QED
            BY SMT, <4>3, <5>1
      <4>5. k \in 1 .. n /\ k - 1 \in 0 .. n /\ ~(k <= k - 1)
            BY SMT, <1>1, <4>3, <4>4
      <4>6. ~(l(k - 1) < k - 1)
            BY <4>2, <4>5
      <4>7. fill[k].out # <<>>
            BY <4>3, <4>4
      <4>8. l(k) = l(k - 1) + Len(fill[k].out) /\ fill[k].out \in Seq(Nat)
            BY <2>1, <4>5 DEF ReadsSome
      <4>9. Len(fill[k].out) \in Nat /\ Len(fill[k].out) # 0
            BY <4>7, <4>8, EmptySeq, LenProperties
      <4>10. l(k - 1) \in Nat
             BY <3>1, <4>5
      <4> HIDE DEF l
      <4> QED
          BY SMTT(30), <4>3, <4>5, <4>6, <4>8, <4>9, <4>10
    <3>3. n \in 0 .. n
          BY SMT, <1>1
    <3>4. ~(l(n) < n) /\ l(n) \in Nat
          BY <3>1, <3>2, <3>3
    <3>5. ~Found(n)
          BY <3>3
    <3> QED
        BY SMT, <3>4, <3>5 DEF BufferDataSize, n
  <2>3. last \in ends
    <3>1. ends \in SUBSET Nat
          BY SMT, <1>1
    <3> HIDE DEF ends
    <3>2. \E k \in ends : \A j \in ends : k <= j
          BY <2>2, <3>1, SmallestNat
    <3> QED
        BY <3>2
  <2>4. last \in 0 .. n /\ (Found(last) \/ (last # 0 /\ ~Brought(last)))
        BY <2>3
  <2> HIDE DEF last
  <2>5. r.nb \in Ahead(s)
        BY <1>3, <2>4
  <2>6. last # 0 => last \in 1 .. n
        BY SMT, <1>1, <2>4
  <2>7. CASE last # 0 /\ r.err # "ok"
    <3>1. peek = r
          BY <1>2, <1>6, <2>7
    <3>2. r.err # "eof"
      <4>1. r.err \in {"ok", "etimedout", "enobufs"}
            BY <2>1, <2>6, <2>7 DEF ReadsSome
      <4> QED
          BY <4>1
    <3>3. Peeks(s, offset, peek)
          BY <2>5, <2>7, <3>1, <3>2 DEF Peeks
    <3> QED
        BY <3>3 DEF peek
  <2>8. CASE last # 0 /\ r.err = "ok" /\ r.out = <<>>
    <3>1. peek = NbResult(r.nb, "eof", <<>>, FALSE)
          BY <1>2, <1>6, <2>8
    <3>2. peek.nb = r.nb /\ peek.err = "eof"
      <4> HIDE DEF r
      <4> QED
          BY SMT, <3>1 DEF NbResult
    <3> DEFINE t == fill[last - 1].nb
    <3>3. ReadsSome(t, r)
          BY <2>1, <2>6, <2>8
    <3> HIDE DEF t
    <3>4. r.nb.socket.incoming = <<>> /\ r.nb.socket.closed
          BY <2>8, <3>3 DEF ReadsSome, Same
    <3>5. Peeks(s, offset, peek)
          BY <2>5, <3>2, <3>4 DEF Peeks
    <3> QED
        BY <3>5 DEF peek
  <2>9. CASE ~(last # 0 /\ r.err # "ok") /\ ~(last # 0 /\ r.out = <<>>)
    <3>1. peek = NbResult(r.nb, "ok", <<r.nb.in.data[offset + 1]>>, FALSE)
          BY <1>2, <1>6, <2>9
    <3>2. Found(last)
          BY <2>4, <2>9
    <3> DEFINE one == <<r.nb.in.data[offset + 1]>>
    <3>3. peek.nb = r.nb /\ peek.err = "ok" /\ peek.out = one
      <4> HIDE DEF r, one
      <4>1. peek = NbResult(r.nb, "ok", one, FALSE)
            BY <3>1 DEF one
      <4> QED
          BY SMT, <4>1 DEF NbResult
    <3>4. offset < Len(r.nb.in.data)
          BY <3>2 DEF BufferDataSize
    <3>5. Peeks(s, offset, peek)
          BY <2>5, <3>3, <3>4 DEF Peeks
    <3> QED
        BY <3>5 DEF peek
  <2> QED
      BY <2>7, <2>8, <2>9
<1> QED
    BY <1>5, <1>6

\* The answer about readiness: nothing is lost, the timeout is as it was unless
\* restoring it failed, and "not ready" means that nothing was there.
Readies(s, fault, r) ==
    /\ r.nb \in NbStreams /\ r.nb.out = s.out /\ r.nb.socket.sent = s.socket.sent
    /\ ToRead(r.nb) = ToRead(s)
    /\ fault # "restore" => r.nb.socket.timeout = s.socket.timeout
    /\ (fault = "none" /\ ~r.fin) => ToRead(s) = <<>>

\* Setting the timeout of the socket
LEMMA SetTimeoutFacts ==
    ASSUME NEW s \in NbStreams, NEW t \in Nat
    PROVE  /\ SetTimeout(s, t) \in NbStreams
           /\ SetTimeout(s, t).in = s.in /\ SetTimeout(s, t).out = s.out
           /\ SetTimeout(s, t).socket.sent = s.socket.sent
           /\ SetTimeout(s, t).socket.timeout = t
           /\ SetTimeout(s, t).socket.closed = s.socket.closed
           /\ ToRead(SetTimeout(s, t)) = ToRead(s)
<1> DEFINE k == [s.socket EXCEPT !.timeout = t]
           u == [s EXCEPT !.socket = k]
<1>1. s \in NbRecords /\ s.socket \in NbSockets /\ s.in.capacity # 0
      BY NbFields
<1>2. k \in NbSockets
      BY <1>1 DEF NbSockets
<1>3. /\ k.incoming = s.socket.incoming /\ k.closed = s.socket.closed
      /\ k.sent = s.socket.sent /\ k.timeout = t
      BY <1>1 DEF NbSockets
<1>4. SetTimeout(s, t) = u
      BY DEF SetTimeout
<1> HIDE DEF k
<1>5. u \in NbRecords
      BY <1>1, <1>2 DEF NbRecords
<1>6. u.in = s.in /\ u.out = s.out /\ u.socket = k
      BY <1>1 DEF NbRecords
<1> HIDE DEF u
<1>7. u \in NbStreams
      BY <1>1, <1>5, <1>6 DEF NbStreams
<1>8. ToRead(u) = ToRead(s)
      BY <1>3, <1>6 DEF ToRead
<1> QED
    BY <1>3, <1>4, <1>6, <1>7, <1>8

\* buffered_netstream_nonblock_read_ready
LEMMA NbReadReadyFacts ==
    ASSUME NEW s \in NbStreams, NEW fault \in {"none", "get", "set", "restore"}
    PROVE  Readies(s, fault, NbReadReady(s, fault))
<1> DEFINE r == NbReadReady(s, fault)
           try == TryRecvNonblock(s, fault)
           z == SetTimeout(s, 0)
           q == InBufferReadSome(z)
           err == IF q.err = "etimedout" THEN "ok" ELSE q.err
           back == SetTimeout(q.nb, s.socket.timeout)
<1>1. /\ s.in.data \in Seq(Nat) /\ Len(s.in.data) \in Nat /\ s.in.capacity \in Nat \ {0}
      /\ s.socket.timeout \in Nat /\ 0 \in Nat
  <2>1. 0 \in Nat
        BY SMT
  <2> QED
      BY <2>1, NbFields
<1>2. CASE BufferDataSize(s.in) > 0
  <2>1. r = NbResult(s, "ok", <<>>, TRUE)
        BY <1>2 DEF NbReadReady
  <2> HIDE DEF r
  <2>2. r.nb = s /\ r.fin = TRUE
        BY SMT, <2>1 DEF NbResult
  <2>3. Readies(s, fault, r)
        BY <2>2 DEF Readies
  <2> QED
      BY <2>3 DEF r
<1>3. CASE ~(BufferDataSize(s.in) > 0)
  <2>1. r = NbResult(try.nb, "ok", <<>>, try.err = "ok" /\ BufferDataSize(try.nb.in) > 0)
        BY <1>3 DEF NbReadReady
  <2> DEFINE fin == try.err = "ok" /\ BufferDataSize(try.nb.in) > 0
             u == NbResult(try.nb, "ok", <<>>, fin)
  <2> HIDE DEF r, try
  <2>2. r.nb = try.nb /\ (r.fin <=> fin)
    <3> HIDE DEF fin
    <3>1. u.nb = try.nb /\ u.fin = fin
          BY DEF NbResult
    <3>2. r = u
          BY <2>1 DEF fin
    <3> QED
        BY <3>1, <3>2
  <2>3. /\ z \in NbStreams /\ z.in = s.in /\ z.out = s.out
        /\ z.socket.sent = s.socket.sent /\ ToRead(z) = ToRead(s)
        BY <1>1, SetTimeoutFacts
  <2>4. ReadsSome(z, q)
        BY <2>3, InBufferReadSomeFacts
  <2> HIDE DEF z, q
  <2>5. /\ q.nb \in NbStreams /\ q.nb.out = s.out /\ q.nb.socket.sent = s.socket.sent
        /\ ToRead(q.nb) = ToRead(s)
        BY <2>3, <2>4 DEF ReadsSome, Same
  <2>6. /\ back \in NbStreams /\ back.out = s.out /\ back.socket.sent = s.socket.sent
        /\ ToRead(back) = ToRead(s) /\ back.socket.timeout = s.socket.timeout /\ back.in = q.nb.in
        BY <1>1, <2>5, SetTimeoutFacts
  <2>7. q.err # "enobufs"
    <3>1. Len(s.in.data) # s.in.capacity
          BY SMT, <1>1, <1>3 DEF BufferDataSize
    <3> QED
        BY <2>3, <2>4, <3>1 DEF ReadsSome
  <2>8. err = "ok"
    <3>1. q.err \in {"ok", "etimedout", "enobufs"}
          BY <2>4 DEF ReadsSome
    <3> QED
        BY <2>7, <3>1
  <2>9. ~(Len(q.nb.in.data) > 0) => ToRead(s) = <<>>
    <3> SUFFICES ASSUME ~(Len(q.nb.in.data) > 0) PROVE ToRead(s) = <<>>
        OBVIOUS
    <3>1. q.nb.in.data \in Seq(Nat) /\ Len(q.nb.in.data) \in Nat
          BY <2>5, NbFields
    <3>2. Len(q.nb.in.data) = 0
          BY SMT, <3>1
    <3>3. q.nb.in.data = <<>>
          BY <3>1, <3>2, EmptySeq
    <3>4. q.out \in Seq(Nat) /\ Len(q.nb.in.data) = Len(s.in.data) + Len(q.out)
          BY <2>3, <2>4 DEF ReadsSome
    <3>5. Len(q.out) = 0
      <4> DEFINE x == Len(s.in.data)
                 y == Len(q.out)
      <4>1. x \in Nat /\ y \in Nat /\ 0 = x + y
            BY <1>1, <3>2, <3>4, LenProperties
      <4> HIDE DEF x, y
      <4>2. y = 0
            BY SMT, <4>1
      <4> QED
          BY <4>2 DEF y
    <3>6. q.out = <<>>
          BY <3>4, <3>5, EmptySeq
    <3>7. q.nb.socket.incoming = <<>>
          BY <2>4, <2>7, <3>6 DEF ReadsSome
    <3>8. ToRead(q.nb) = <<>>
          BY <3>3, <3>7, FlatEmpty, NoneBefore DEF ToRead
    <3> QED
        BY <2>5, <3>8
  <2> HIDE DEF back, err
  <2>10. CASE fault \in {"get", "set"}
    <3>1. try = NbResult(s, "einval", <<>>, FALSE)
          BY <2>10 DEF try, TryRecvNonblock
    <3>2. try.nb = s
          BY SMT, <3>1 DEF NbResult
    <3>3. fault # "none"
          BY <2>10
    <3>4. Readies(s, fault, r)
          BY <2>2, <3>2, <3>3 DEF Readies
    <3> QED
        BY <3>4 DEF r
  <2>11. CASE fault = "restore"
    <3>1. try = NbResult(q.nb, IF err = "ok" THEN "einval" ELSE err, <<>>, FALSE)
          BY <2>11 DEF try, TryRecvNonblock, q, z, err
    <3>2. try.nb = q.nb
          BY SMT, <3>1 DEF NbResult
    <3>3. Readies(s, fault, r)
          BY <2>2, <2>5, <2>11, <3>2 DEF Readies
    <3> QED
        BY <3>3 DEF r
  <2>12. CASE fault = "none"
    <3>1. try = NbResult(back, err, <<>>, FALSE)
          BY <2>12 DEF try, TryRecvNonblock, q, z, err, back
    <3>2. try.nb = back /\ try.err = err
          BY SMT, <3>1 DEF NbResult
    <3>3. ~fin => ToRead(s) = <<>>
          BY <2>6, <2>8, <2>9, <3>2 DEF BufferDataSize
    <3> HIDE DEF fin
    <3>4. Readies(s, fault, r)
          BY <2>2, <2>6, <3>2, <3>3 DEF Readies
    <3> QED
        BY <3>4 DEF r
  <2> QED
      BY <2>10, <2>11, <2>12
<1> QED
    BY <1>2, <1>3

-----------------------------------------------------------------------------
(* The buffered net stream: what was written                               *)

\* What was accepted is on its way or waits in the buffer.
OccursIn(x, sent) == \A i \in 1 .. Len(x) : \E j \in 1 .. Len(sent) : sent[j] = x[i]

\* The bytes before those that wait have gone out, once if no send has failed.
OutputKept(sent, waits, acc, failed) ==
    \E x \in Seq(Nat) : acc = x \o waits /\ OccursIn(x, sent) /\ (~failed => x = sent)

\* More is sent.
LEMMA OccursMore ==
    ASSUME NEW x \in Seq(Nat), NEW s \in Seq(Nat), NEW e \in Seq(Nat), OccursIn(x, s)
    PROVE  OccursIn(x, s \o e)
<1>1. /\ s \o e \in Seq(Nat) /\ Len(s \o e) = Len(s) + Len(e)
      /\ \A i \in 1 .. Len(s) : (s \o e)[i] = s[i]
      BY CatElems
<1>2. Len(s) \in Nat /\ Len(e) \in Nat
      BY LenProperties
<1>3. \A j \in 1 .. Len(s) : j \in 1 .. Len(s) + Len(e)
      BY SMT, <1>2
<1>4. ASSUME NEW i \in 1 .. Len(x) PROVE \E j \in 1 .. Len(s \o e) : (s \o e)[j] = x[i]
  <2>1. PICK j \in 1 .. Len(s) : s[j] = x[i]
        BY DEF OccursIn
  <2> QED
      BY <1>1, <1>3, <2>1
<1> QED
    BY <1>4 DEF OccursIn

\* The same is accepted and sent.
LEMMA OccursBoth ==
    ASSUME NEW x \in Seq(Nat), NEW s \in Seq(Nat), NEW y \in Seq(Nat), OccursIn(x, s)
    PROVE  OccursIn(x \o y, s \o y)
<1> DEFINE u == x \o y
           v == s \o y
           lx == Len(x)
           ly == Len(y)
           ls == Len(s)
<1>1. /\ Len(u) = lx + ly /\ Len(v) = ls + ly
      /\ \A i \in 1 .. lx : u[i] = x[i]
      /\ \A i \in 1 .. ly : u[lx + i] = y[i]
      /\ \A i \in 1 .. ly : v[ls + i] = y[i]
      BY CatElems
<1>2. lx \in Nat /\ ly \in Nat /\ ls \in Nat
      BY LenProperties
<1>3. OccursIn(x, v)
      BY OccursMore
<1> HIDE DEF u, v, lx, ly, ls
<1>4. ASSUME NEW i \in 1 .. Len(u) PROVE \E j \in 1 .. Len(v) : v[j] = u[i]
  <2>1. CASE i <= lx
    <3>1. i \in 1 .. lx
          BY SMT, <1>1, <1>2, <2>1
    <3> QED
        BY <1>1, <1>3, <3>1 DEF OccursIn, lx
  <2>2. CASE ~(i <= lx)
    <3> DEFINE k == i - lx
               j == ls + k
    <3>1. k \in 1 .. ly /\ lx + k = i /\ j \in 1 .. Len(v)
          BY SMT, <1>1, <1>2, <2>2
    <3> HIDE DEF k
    <3>2. u[lx + k] = y[k] /\ v[j] = y[k]
          BY <1>1, <3>1
    <3> HIDE DEF j
    <3> QED
        BY <3>1, <3>2
  <2> QED
      BY <2>1, <2>2
<1> QED
    BY <1>4 DEF OccursIn, u, v

\* It waits, or it is sent.
LEMMA OutputWaits ==
    ASSUME NEW sent \in Seq(Nat), NEW waits \in Seq(Nat), NEW acc, NEW failed, NEW data \in Seq(Nat),
           OutputKept(sent, waits, acc, failed)
    PROVE  OutputKept(sent, waits \o data, acc \o data, failed)
<1>1. PICK x \in Seq(Nat) : acc = x \o waits /\ OccursIn(x, sent) /\ (~failed => x = sent)
      BY DEF OutputKept
<1>2. (x \o waits) \o data = x \o (waits \o data)
      BY CatAssociative
<1> QED
    BY <1>1, <1>2 DEF OutputKept

\* What waits is sent.
LEMMA OutputFlushed ==
    ASSUME NEW sent \in Seq(Nat), NEW waits \in Seq(Nat), NEW acc, NEW failed,
           OutputKept(sent, waits, acc, failed)
    PROVE  OutputKept(sent \o waits, <<>>, acc, failed)
<1>1. PICK x \in Seq(Nat) : acc = x \o waits /\ OccursIn(x, sent) /\ (~failed => x = sent)
      BY DEF OutputKept
<1>2. x \o waits \in Seq(Nat)
      BY CatElems
<1>3. (x \o waits) \o <<>> = x \o waits
      BY <1>2, NoneBefore
<1>4. OccursIn(x \o waits, sent \o waits)
      BY <1>1, OccursBoth
<1> QED
    BY <1>1, <1>2, <1>3, <1>4 DEF OutputKept

\* A part of something is sent.
LEMMA OutputFailed ==
    ASSUME NEW sent \in Seq(Nat), NEW waits \in Seq(Nat), NEW acc, NEW failed, NEW e \in Seq(Nat),
           OutputKept(sent, waits, acc, failed)
    PROVE  OutputKept(sent \o e, waits, acc, TRUE)
<1>1. PICK x \in Seq(Nat) : acc = x \o waits /\ OccursIn(x, sent) /\ (~failed => x = sent)
      BY DEF OutputKept
<1>2. OccursIn(x, sent \o e)
      BY <1>1, OccursMore
<1> QED
    BY <1>1, <1>2 DEF OutputKept

\* What waits is dropped by a reset.
LEMMA OutputDropped ==
    ASSUME NEW sent \in Seq(Nat), NEW waits \in Seq(Nat), NEW acc, NEW failed,
           OutputKept(sent, waits, acc, failed)
    PROVE  OutputKept(sent, <<>>, Take(acc, Len(acc) - Len(waits)), failed)
<1>1. PICK x \in Seq(Nat) : acc = x \o waits /\ OccursIn(x, sent) /\ (~failed => x = sent)
      BY DEF OutputKept
<1>2. Len(x \o waits) = Len(x) + Len(waits) /\ x \o waits \in Seq(Nat)
      /\ \A i \in 1 .. Len(x) : (x \o waits)[i] = x[i]
      BY CatElems
<1>3. Len(x) \in Nat /\ Len(waits) \in Nat
      BY LenProperties
<1> DEFINE n == Len(acc) - Len(waits)
<1>4. n = Len(x) /\ n \in 0 .. Len(acc)
      BY SMT, <1>1, <1>2, <1>3
<1> HIDE DEF n
<1>5. Take(acc, n) \in Seq(Nat) /\ Len(Take(acc, n)) = n /\ \A i \in 1 .. n : Take(acc, n)[i] = acc[i]
      BY <1>1, <1>2, <1>4, TakeDropFacts
<1>6. Take(acc, n) = x
      BY <1>1, <1>2, <1>4, <1>5, SeqEqual
<1>7. x = x \o <<>>
      BY NoneBefore
<1>8. OutputKept(sent, <<>>, x, failed)
      BY <1>1, <1>7 DEF OutputKept
<1> QED
    BY <1>6, <1>8 DEF n

\* What NbOutputIntact says
AllThere(all, acc, failed) ==
    /\ ~failed => all = acc
    /\ \A i \in DOMAIN acc : \E j \in DOMAIN all : all[j] = acc[i]

\* It follows.
LEMMA OutputIntact ==
    ASSUME NEW sent \in Seq(Nat), NEW waits \in Seq(Nat), NEW acc, NEW failed,
           OutputKept(sent, waits, acc, failed)
    PROVE  AllThere(sent \o waits, acc, failed)
<1>1. PICK x \in Seq(Nat) : acc = x \o waits /\ OccursIn(x, sent) /\ (~failed => x = sent)
      BY DEF OutputKept
<1>2. OccursIn(x \o waits, sent \o waits)
      BY <1>1, OccursBoth
<1>3. x \o waits \in Seq(Nat) /\ sent \o waits \in Seq(Nat)
      BY CatElems
<1>4. DOMAIN (x \o waits) = 1 .. Len(x \o waits) /\ DOMAIN (sent \o waits) = 1 .. Len(sent \o waits)
      BY <1>3, LenProperties
<1> QED
    BY <1>1, <1>2, <1>4 DEF OccursIn, AllThere

-----------------------------------------------------------------------------
(* The buffered net stream: writing                                        *)

\* Results of calls on the output
NbErrors == {"ok", "eio"}
NbWritten == [nb : NbStreams, err : NbErrors, out : {<<>>}, fin : {FALSE}]

\* A send puts all of the data behind what was sent before, or a part of it and fails.
Sends(k, data, r) ==
    /\ r.socket \in NbSockets /\ r.socket.incoming = k.incoming
    /\ r.socket.closed = k.closed /\ r.socket.timeout = k.timeout
    /\ r.err \in NbErrors
    /\ \E e \in Seq(Nat) : r.socket.sent = k.sent \o e
    /\ r.err = "ok" => r.socket.sent = k.sent \o data

\* avs_net_socket_send as the stream uses it
LEMMA SocketSendFacts ==
    ASSUME NEW k \in NbSockets, NEW data \in Seq(Nat)
    PROVE  Sends(k, data, SocketSend(k, data))
<1> DEFINE entry == IF k.plan = <<>> THEN SENDS ELSE Head(k.plan)
           p == IF k.plan = <<>> THEN k.plan ELSE Tail(k.plan)
           rest == [k EXCEPT !.plan = p]
           n == IF entry = SENDS THEN Len(data) ELSE AVS_MIN(entry, Len(data))
           d == k.sent \o Take(data, n)
           w == [rest EXCEPT !.sent = d]
           err == IF entry = SENDS THEN "ok" ELSE "eio"
           r == SocketSend(k, data)
<1>1. k.plan \in NbPlans /\ k.sent \in Seq(Nat) /\ Len(data) \in Nat
      BY LenProperties DEF NbSockets
<1>2. entry \in {SENDS} \cup Nat /\ p \in NbPlans
      BY SMT, <1>1 DEF NbPlans, SENDS
<1> HIDE DEF p
<1>3. rest \in NbSockets
      BY <1>2 DEF NbSockets
<1>4. rest.incoming = k.incoming /\ rest.closed = k.closed /\ rest.timeout = k.timeout /\ rest.sent = k.sent
      BY DEF NbSockets
<1>5. r = [socket |-> [rest EXCEPT !.sent = rest.sent \o Take(data, n)], err |-> err]
      BY DEF SocketSend, p
<1> HIDE DEF entry, rest
<1>6. n \in 0 .. Len(data) /\ (err = "ok" => n = Len(data))
      BY SMT, <1>1, <1>2 DEF AVS_MIN, SENDS
<1> HIDE DEF n
<1>7. Take(data, n) \in Seq(Nat) /\ (n = Len(data) => Take(data, n) = data)
  <2>1. Take(data, n) \in Seq(Nat)
        BY <1>6, TakeDropFacts
  <2>2. n = Len(data) => Take(data, n) = data
        BY SMT DEF Take
  <2> QED
      BY <2>1, <2>2
<1>8. d \in Seq(Nat)
      BY <1>1, <1>7, CatElems
<1>9. r = [socket |-> w, err |-> err]
      BY <1>4, <1>5
<1>10. err \in NbErrors
       BY DEF NbErrors
<1>11. err = "ok" => d = k.sent \o data
       BY <1>6, <1>7
<1>12. \E e \in Seq(Nat) : d = k.sent \o e
       BY <1>7
<1> HIDE DEF d, err, r
<1>13. w \in NbSockets
       BY <1>3, <1>8 DEF NbSockets
<1>14. w.incoming = k.incoming /\ w.closed = k.closed /\ w.timeout = k.timeout /\ w.sent = d
       BY <1>3, <1>4 DEF NbSockets
<1> HIDE DEF w
<1>15. r.socket = w /\ r.err = err
       BY SMT, <1>9
<1>16. Sends(k, data, r)
       BY <1>10, <1>11, <1>12, <1>13, <1>14, <1>15 DEF Sends
<1> QED
    BY <1>16 DEF r

\* A call on the output leaves the input as it was, and keeps what was accepted.
OutOnly(s, t) ==
    /\ t \in NbStreams /\ t.in = s.in /\ t.socket.incoming = s.socket.incoming
    /\ t.socket.closed = s.socket.closed /\ t.socket.timeout = s.socket.timeout

\* OutputKept for a stream
NbKept(s, acc, failed) == OutputKept(s.socket.sent, s.out.data, acc, failed)

\* What a call that may send achieves
Writes(s, r, acc, failed) ==
    /\ r \in NbWritten /\ OutOnly(s, r.nb)
    /\ NbKept(r.nb, acc, failed \/ r.err # "ok")

\* Results are of their type.
LEMMA NbWrittenResult ==
    ASSUME NEW s \in NbStreams, NEW err \in NbErrors
    PROVE  NbResult(s, err, <<>>, FALSE) \in NbWritten
    BY DEF NbResult, NbWritten

\* With nothing waiting, data is sent at once.
LEMMA OutputDirect ==
    ASSUME NEW sent \in Seq(Nat), NEW acc, NEW failed, NEW data \in Seq(Nat),
           OutputKept(sent, <<>>, acc, failed)
    PROVE  OutputKept(sent \o data, <<>>, acc \o data, failed)
<1>1. <<>> \in Seq(Nat)
      BY SMT
<1>2. OutputKept(sent, <<>> \o data, acc \o data, failed)
      BY <1>1, OutputWaits
<1>3. <<>> \o data = data
      BY NoneBefore
<1> QED
    BY <1>2, <1>3, OutputFlushed

\* A buffer that is emptied
LEMMA BufferResetFacts ==
    ASSUME NEW b \in Buffered
    PROVE  /\ BufferReset(b) \in Buffered /\ BufferReset(b).data = <<>>
           /\ BufferReset(b).capacity = b.capacity
<1> DEFINE c == BufferReset(b)
<1>1. b \in NbBuffers /\ b.capacity \in Nat
      BY DEF Buffered, NbBuffers
<1>2. 0 \in Nat /\ <<>> \in Seq(Nat) /\ Len(<<>>) <= b.capacity
      BY SMT, <1>1
<1>3. c \in NbBuffers
      BY <1>1, <1>2 DEF NbBuffers, BufferReset
<1>4. c.data = <<>> /\ c.capacity = b.capacity
      BY <1>1 DEF NbBuffers, BufferReset
<1> HIDE DEF c
<1>5. c \in Buffered
      BY <1>2, <1>3, <1>4 DEF Buffered
<1> QED
    BY <1>4, <1>5 DEF c

\* out_buffer_flush: a failed send leaves the buffer as it was.
LEMMA OutBufferFlushFacts ==
    ASSUME NEW s \in NbStreams, NEW acc, NEW failed, NbKept(s, acc, failed)
    PROVE  /\ Writes(s, OutBufferFlush(s), acc, failed)
           /\ OutBufferFlush(s).err = "ok"
                => OutBufferFlush(s).nb.out.data = <<>> /\ NbKept(OutBufferFlush(s).nb, acc, failed)
<1> DEFINE k == s.socket
           data == s.out.data
           f == SocketSend(k, data)
           b == IF f.err = "ok" THEN BufferReset(s.out) ELSE s.out
           t == [s EXCEPT !.socket = f.socket, !.out = b]
           r == OutBufferFlush(s)
<1>1. /\ s \in NbRecords /\ k \in NbSockets /\ s.in.capacity # 0 /\ data \in Seq(Nat)
      /\ s.out \in Buffered /\ k.sent \in Seq(Nat)
      BY NbFields
<1>2. Sends(k, data, f)
  <2> HIDE DEF k, data
  <2> QED
      BY <1>1, SocketSendFacts
<1>3. r = NbResult(t, f.err, <<>>, FALSE)
      BY DEF OutBufferFlush
<1> HIDE DEF f, r
<1>4. /\ f.socket \in NbSockets /\ f.socket.incoming = k.incoming
      /\ f.socket.closed = k.closed /\ f.socket.timeout = k.timeout
      /\ f.err \in NbErrors
      /\ f.err = "ok" => f.socket.sent = k.sent \o data
      BY <1>2 DEF Sends
<1>5. PICK e \in Seq(Nat) : f.socket.sent = k.sent \o e
      BY <1>2 DEF Sends
<1>6. b \in Buffered /\ (f.err = "ok" => b.data = <<>>) /\ (f.err # "ok" => b.data = data)
  <2>1. CASE f.err = "ok"
        BY <1>1, <2>1, BufferResetFacts
  <2>2. CASE f.err # "ok"
        BY <1>1, <2>2
  <2> QED
      BY <2>1, <2>2
<1> HIDE DEF b
<1>7. t \in NbRecords
      BY <1>1, <1>4, <1>6 DEF NbRecords
<1>8. t.in = s.in /\ t.out = b /\ t.socket = f.socket
      BY <1>1 DEF NbRecords
<1> HIDE DEF t
<1>9. t \in NbStreams
      BY <1>1, <1>7, <1>8 DEF NbStreams
<1>10. r.nb = t /\ r.err = f.err
       BY SMT, <1>3 DEF NbResult
<1>11. r \in NbWritten
       BY <1>3, <1>4, <1>9, NbWrittenResult
<1>12. OutOnly(s, t)
       BY <1>4, <1>8, <1>9 DEF OutOnly
<1>13. OutputKept(k.sent, data, acc, failed)
       BY DEF NbKept
<1> HIDE DEF k, data
<1>14. CASE f.err = "ok"
  <2>1. OutputKept(k.sent \o data, <<>>, acc, failed)
        BY <1>1, <1>13, OutputFlushed
  <2>2. NbKept(t, acc, failed) /\ t.out.data = <<>>
        BY <1>4, <1>6, <1>8, <1>14, <2>1 DEF NbKept
  <2>3. (failed \/ r.err # "ok") <=> failed
        BY <1>10, <1>14
  <2>4. NbKept(t, acc, failed \/ r.err # "ok")
        BY <2>2, <2>3 DEF NbKept, OutputKept
  <2>5. Writes(s, r, acc, failed)
        BY <1>10, <1>11, <1>12, <2>4 DEF Writes
  <2> QED
      BY <1>10, <2>2, <2>5 DEF r
<1>15. CASE f.err # "ok"
  <2>1. OutputKept(k.sent \o e, data, acc, TRUE)
        BY <1>1, <1>13, OutputFailed
  <2>2. NbKept(t, acc, TRUE)
        BY <1>5, <1>6, <1>8, <1>15, <2>1 DEF NbKept
  <2>3. NbKept(t, acc, failed \/ r.err # "ok")
        BY <1>10, <1>15, <2>2 DEF NbKept, OutputKept
  <2>4. Writes(s, r, acc, failed)
        BY <1>10, <1>11, <1>12, <2>3 DEF Writes
  <2> QED
      BY <1>10, <1>15, <2>4 DEF r
<1> QED
    BY <1>14, <1>15

\* buffered_netstream_write_some: into the buffer, or past it once it is flushed
LEMMA NbWriteSomeFacts ==
    ASSUME NEW s \in NbStreams, NEW acc, NEW failed, NbKept(s, acc, failed), NEW data \in Seq(Nat)
    PROVE  LET r == NbWriteSome(s, data) IN
           Writes(s, r, IF r.err = "ok" THEN acc \o data ELSE acc, failed)
<1> DEFINE r == NbWriteSome(s, data)
           acc2 == IF r.err = "ok" THEN acc \o data ELSE acc
           room == Len(data) < BufferSpaceLeft(s.out)
<1>1. /\ s \in NbRecords /\ s.socket \in NbSockets /\ s.in.capacity # 0 /\ s.out.data \in Seq(Nat)
      /\ s.out \in Buffered /\ s.socket.sent \in Seq(Nat)
      /\ s.out.capacity \in Nat /\ Len(s.out.data) \in Nat
      BY NbFields
<1>2. Len(data) \in Nat
      BY LenProperties
<1>3. CASE room
  <2> DEFINE b == BufferAppendBytes(s.out, data)
             t == [s EXCEPT !.out = b]
  <2>1. r = NbResult(t, "ok", <<>>, FALSE)
        BY <1>3 DEF NbWriteSome
  <2>2. Len(data) <= s.out.capacity - Len(s.out.data) /\ BufferFits(s.out, data)
        BY SMT, <1>1, <1>2, <1>3 DEF BufferSpaceLeft, BufferDataSize, BufferFits
  <2>3. b = BufferPut(s.out, data)
        BY <2>2 DEF BufferAppendBytes
  <2>4. b \in Buffered /\ b.data = s.out.data \o data
    <3>1. /\ BufferPut(s.out, data) \in Buffered
          /\ BufferPut(s.out, data).data = s.out.data \o data
          BY <1>1, <2>2, BufferPutFacts
    <3> QED
        BY <2>3, <3>1
  <2> HIDE DEF b, r
  <2>5. t \in NbRecords
        BY <1>1, <2>4 DEF NbRecords
  <2>6. t.in = s.in /\ t.out = b /\ t.socket = s.socket
        BY <1>1 DEF NbRecords
  <2> HIDE DEF t
  <2>7. t \in NbStreams
        BY <1>1, <2>5, <2>6 DEF NbStreams
  <2>8. r.nb = t /\ r.err = "ok"
        BY SMT, <2>1 DEF NbResult
  <2>9. r \in NbWritten
    <3>1. "ok" \in NbErrors
          BY DEF NbErrors
    <3> QED
        BY <2>1, <2>7, <3>1, NbWrittenResult
  <2>10. OutOnly(s, t)
         BY <2>6, <2>7 DEF OutOnly
  <2>11. OutputKept(s.socket.sent, s.out.data \o data, acc \o data, failed)
         BY <1>1, OutputWaits DEF NbKept
  <2>12. NbKept(t, acc \o data, failed)
         BY <2>4, <2>6, <2>11 DEF NbKept
  <2>13. NbKept(t, acc \o data, failed \/ r.err # "ok")
         BY <2>8, <2>12 DEF NbKept, OutputKept
  <2>14. Writes(s, r, acc \o data, failed) /\ acc2 = acc \o data
         BY <2>8, <2>9, <2>10, <2>13 DEF Writes
  <2> QED
      BY <2>14 DEF r
<1>4. CASE ~room
  <2> DEFINE f == OutBufferFlush(s)
             w == SocketSend(f.nb.socket, data)
             t == [f.nb EXCEPT !.socket = w.socket]
  <2>1. r = IF f.err # "ok" THEN f ELSE NbResult(t, w.err, <<>>, FALSE)
        BY <1>4 DEF NbWriteSome
  <2>2. /\ Writes(s, f, acc, failed)
        /\ f.err = "ok" => f.nb.out.data = <<>> /\ NbKept(f.nb, acc, failed)
        BY OutBufferFlushFacts
  <2> HIDE DEF f, r
  <2>3. CASE f.err # "ok"
    <3>1. r = f /\ acc2 = acc
          BY <2>1, <2>3
    <3> QED
        BY <2>2, <3>1 DEF r
  <2>4. CASE f.err = "ok"
    <3> DEFINE s2 == f.nb
               k == s2.socket
    <3>1. s2 \in NbStreams /\ OutOnly(s, s2) /\ s2.out.data = <<>> /\ NbKept(s2, acc, failed)
          BY <2>2, <2>4 DEF Writes, OutOnly
    <3> HIDE DEF s2
    <3>2. /\ s2 \in NbRecords /\ k \in NbSockets /\ s2.in.capacity # 0
          /\ s2.out \in Buffered /\ k.sent \in Seq(Nat)
          BY <3>1, NbFields
    <3>3. r = NbResult(t, w.err, <<>>, FALSE) /\ t = [s2 EXCEPT !.socket = w.socket]
          BY <2>1, <2>4 DEF s2
    <3>4. Sends(k, data, w)
      <4> HIDE DEF k
      <4>1. w = SocketSend(k, data)
            BY DEF k, s2
      <4> QED
          BY <3>2, <4>1, SocketSendFacts
    <3> HIDE DEF w, t
    <3>5. /\ w.socket \in NbSockets /\ w.socket.incoming = k.incoming
          /\ w.socket.closed = k.closed /\ w.socket.timeout = k.timeout
          /\ w.err \in NbErrors
          /\ w.err = "ok" => w.socket.sent = k.sent \o data
          BY <3>4 DEF Sends
    <3>6. PICK e \in Seq(Nat) : w.socket.sent = k.sent \o e
          BY <3>4 DEF Sends
    <3>7. t \in NbRecords
          BY <3>2, <3>3, <3>5 DEF NbRecords
    <3>8. t.in = s2.in /\ t.out = s2.out /\ t.socket = w.socket
          BY <3>2, <3>3 DEF NbRecords
    <3>9. t \in NbStreams
          BY <3>2, <3>7, <3>8 DEF NbStreams
    <3>10. r.nb = t /\ r.err = w.err
           BY SMT, <3>3 DEF NbResult
    <3>11. r \in NbWritten
           BY <3>3, <3>5, <3>9, NbWrittenResult
    <3>12. OutOnly(s, t)
           BY <3>1, <3>5, <3>8, <3>9 DEF OutOnly
    <3>13. OutputKept(k.sent, <<>>, acc, failed)
           BY <3>1 DEF NbKept
    <3> HIDE DEF k
    <3>14. CASE w.err = "ok"
      <4>1. OutputKept(k.sent \o data, <<>>, acc \o data, failed)
            BY <3>2, <3>13, OutputDirect
      <4>2. NbKept(t, acc \o data, failed \/ r.err # "ok")
            BY <3>1, <3>5, <3>8, <3>10, <3>14, <4>1 DEF NbKept, OutputKept
      <4>3. Writes(s, r, acc \o data, failed) /\ acc2 = acc \o data
            BY <3>10, <3>11, <3>12, <3>14, <4>2 DEF Writes
      <4> QED
          BY <4>3 DEF r
    <3>15. CASE w.err # "ok"
      <4>0. <<>> \in Seq(Nat)
            BY SMT
      <4>1. OutputKept(k.sent \o e, <<>>, acc, TRUE)
            BY <3>2, <3>13, <4>0, OutputFailed
      <4>2. NbKept(t, acc, failed \/ r.err # "ok")
            BY <3>1, <3>6, <3>8, <3>10, <3>15, <4>1 DEF NbKept, OutputKept
      <4>3. Writes(s, r, acc, failed) /\ acc2 = acc
            BY <3>10, <3>11, <3>12, <3>15, <4>2 DEF Writes
      <4> QED
          BY <4>3 DEF r
    <3> QED
        BY <3>14, <3>15
  <2> QED
      BY <2>3, <2>4
<1> QED
    BY <1>3, <1>4

-----------------------------------------------------------------------------
(* The buffered net stream: its users                                      *)

\* The state between two calls, and the results of the last call
NbGood ==
    /\ nb \in NbStreams /\ arrived \in Seq(Nat) /\ given \in 0 .. Len(arrived) /\ wrote \in Nat
    /\ ToRead(nb) = Drop(arrived, given)
    /\ NbKept(nb, accepted, sendFailed)
    /\ nb.socket.timeout = wanted

\* What the last call has promised
NbCallGood ==
    /\ nbCall.op = "read" => nbCall.out = SubSeq(arrived, given - Len(nbCall.out) + 1, given)
    /\ nbCall.op = "peek" /\ nbCall.err = "ok"
         => nbCall.out[2] = arrived[given + nbCall.out[1] + 1]
    /\ NbEndIsTheEnd /\ NbReadyIsTrue

\* The inductive invariant
NbInv == NbGood /\ NbCallGood

\* It says what is to be proved.
LEMMA NbInvIsCorrect ==
    ASSUME NbInv
    PROVE  NetbufCorrect
<1>1. NbGood /\ NbCallGood
      BY DEF NbInv
<1>2. NbInputIntact
      BY <1>1 DEF NbGood, NbCallGood, NbInputIntact, ToRead
<1>3. NbOutputIntact
  <2>1. nb.socket.sent \in Seq(Nat) /\ nb.out.data \in Seq(Nat)
        BY <1>1, NbFields DEF NbGood
  <2>2. OutputKept(nb.socket.sent, nb.out.data, accepted, sendFailed)
        BY <1>1 DEF NbGood, NbKept
  <2> DEFINE sent == nb.socket.sent
             waits == nb.out.data
  <2>3. sent \in Seq(Nat) /\ waits \in Seq(Nat) /\ OutputKept(sent, waits, accepted, sendFailed)
        BY <2>1, <2>2
  <2> HIDE DEF sent, waits
  <2>4. AllThere(sent \o waits, accepted, sendFailed)
        BY <2>3, OutputIntact
  <2> QED
      BY <2>4 DEF NbOutputIntact, AllThere, sent, waits
<1> QED
    BY <1>1, <1>2, <1>3 DEF NetbufCorrect, NbGood, NbCallGood, NbTimeoutKept

\* Calls that promise nothing about what was read
LEMMA NbOtherCall ==
    ASSUME nbCall'.op \notin {"read", "peek", "ready"}
    PROVE  NbCallGood'
    BY DEF NbCallGood, NbEndIsTheEnd, NbReadyIsTrue

\* What a call returns
LEMMA NbReturns ==
    ASSUME NEW op, NEW r, Returns(op, r)
    PROVE  /\ nb' = r.nb /\ nbCall'.op = op /\ nbCall'.err = r.err
           /\ nbCall'.out = r.out /\ nbCall'.fin = r.fin
    BY DEF Returns

\* A plan for sends changes nothing else.
LEMMA PlanFacts ==
    ASSUME NEW s \in NbStreams, NEW plan \in NbPlans
    PROVE  LET t == [s EXCEPT !.socket.plan = plan] IN
           /\ t \in NbStreams /\ t.in = s.in /\ t.out = s.out
           /\ t.socket.incoming = s.socket.incoming /\ t.socket.closed = s.socket.closed
           /\ t.socket.timeout = s.socket.timeout /\ t.socket.sent = s.socket.sent
<1> DEFINE k == [s.socket EXCEPT !.plan = plan]
           t == [s EXCEPT !.socket = k]
<1>1. s \in NbRecords /\ s.socket \in NbSockets /\ s.in.capacity # 0
      BY NbFields
<1>2. k \in NbSockets
      BY <1>1 DEF NbSockets
<1>3. /\ k.incoming = s.socket.incoming /\ k.closed = s.socket.closed
      /\ k.sent = s.socket.sent /\ k.timeout = s.socket.timeout
      BY <1>1 DEF NbSockets
<1>4. [s EXCEPT !.socket.plan = plan] = t
      OBVIOUS
<1> HIDE DEF k
<1>5. t \in NbRecords
      BY <1>1, <1>2 DEF NbRecords
<1>6. t.in = s.in /\ t.out = s.out /\ t.socket = k
      BY <1>1 DEF NbRecords
<1> HIDE DEF t
<1>7. t \in NbStreams
      BY <1>1, <1>5, <1>6 DEF NbStreams
<1> QED
    BY <1>3, <1>4, <1>6, <1>7

\* Neither does taking it away.
LEMMA WithoutPlanFacts ==
    ASSUME NEW r \in NbWritten
    PROVE  LET w == WithoutPlan(r) IN
           /\ OutOnly(r.nb, w.nb) /\ w.nb.out = r.nb.out /\ w.nb.socket.sent = r.nb.socket.sent
           /\ w.err = r.err
<1> DEFINE t == [r.nb EXCEPT !.socket.plan = <<>>]
           w == [r EXCEPT !.nb = t]
<1>1. r.nb \in NbStreams
      BY DEF NbWritten
<1>2. <<>> \in NbPlans
      BY SMT DEF NbPlans
<1>3. /\ t \in NbStreams /\ t.in = r.nb.in /\ t.out = r.nb.out
      /\ t.socket.incoming = r.nb.socket.incoming /\ t.socket.closed = r.nb.socket.closed
      /\ t.socket.timeout = r.nb.socket.timeout /\ t.socket.sent = r.nb.socket.sent
      BY <1>1, <1>2, PlanFacts
<1>4. WithoutPlan(r) = w
      BY DEF WithoutPlan
<1> HIDE DEF t
<1>5. w.nb = t /\ w.err = r.err
      BY DEF NbWritten
<1> HIDE DEF w
<1> QED
    BY <1>3, <1>4, <1>5 DEF OutOnly

\* What a call on the output leaves true
LEMMA OutOnlyGood ==
    ASSUME NbGood, OutOnly(nb, nb'), NbKept(nb', accepted', sendFailed'), wrote' \in Nat,
           UNCHANGED <<arrived, given, wanted>>
    PROVE  NbGood'
<1>1. arrived' = arrived /\ given' = given /\ wanted' = wanted
      OBVIOUS
<1>2. ToRead(nb') = ToRead(nb)
      BY DEF OutOnly, ToRead
<1> QED
    BY <1>1, <1>2 DEF NbGood, OutOnly

\* Plans are of their type.
LEMMA NbPlanAllowed ==
    ASSUME NEW plan \in SendPlans
    PROVE  plan \in NbPlans
    BY NbAssumption DEF NbPlans

\* avs_stream_write
LEMMA NbWriteStep ==
    ASSUME NbInv, NEW n \in NbSizes, NEW plan \in SendPlans, NbCallWrite(n, plan)
    PROVE  NbInv'
<1> DEFINE data == [i \in 1 .. n |-> wrote + i]
           s == WithPlan(plan)
           r == NbWriteSome(s, data)
           w == WithoutPlan(r)
           acc == IF r.err = "ok" THEN accepted \o data ELSE accepted
<1>1. NbGood /\ nb \in NbStreams /\ wrote \in Nat /\ NbKept(nb, accepted, sendFailed)
      BY DEF NbInv, NbGood
<1>2. n \in Nat
      BY NbAssumption
<1>3. data \in Seq(Nat) /\ wrote + n \in Nat
      BY SMT, <1>1, <1>2
<1>4. /\ Returns("write", w) /\ wrote' = wrote + n /\ accepted' = acc
      /\ sendFailed' = (sendFailed \/ r.err # "ok") /\ UNCHANGED <<arrived, given, wanted>>
      BY DEF NbCallWrite
<1> HIDE DEF data
<1>5. /\ s \in NbStreams /\ s.in = nb.in /\ s.out = nb.out
      /\ s.socket.incoming = nb.socket.incoming /\ s.socket.closed = nb.socket.closed
      /\ s.socket.timeout = nb.socket.timeout /\ s.socket.sent = nb.socket.sent
  <2>1. plan \in NbPlans
        BY NbPlanAllowed
  <2> QED
      BY <1>1, <2>1, PlanFacts DEF WithPlan
<1> HIDE DEF s
<1>6. NbKept(s, accepted, sendFailed)
      BY <1>1, <1>5 DEF NbKept
<1>7. Writes(s, r, acc, sendFailed)
      BY <1>3, <1>5, <1>6, NbWriteSomeFacts
<1> HIDE DEF r, acc
<1>8. r \in NbWritten /\ OutOnly(s, r.nb) /\ NbKept(r.nb, acc, sendFailed \/ r.err # "ok")
      BY <1>7 DEF Writes
<1>9. OutOnly(r.nb, w.nb) /\ w.nb.out = r.nb.out /\ w.nb.socket.sent = r.nb.socket.sent
      BY <1>8, WithoutPlanFacts
<1> HIDE DEF w
<1>10. nb' = w.nb /\ nbCall'.op = "write"
       BY <1>4, NbReturns
<1>11. OutOnly(nb, nb')
       BY <1>5, <1>8, <1>9, <1>10 DEF OutOnly
<1>12. NbKept(nb', accepted', sendFailed')
       BY <1>4, <1>8, <1>9, <1>10 DEF NbKept
<1>13. NbGood'
       BY <1>1, <1>3, <1>4, <1>11, <1>12, OutOnlyGood
<1>14. "write" \notin {"read", "peek", "ready"}
       OBVIOUS
<1> QED
    BY <1>10, <1>13, <1>14, NbOtherCall DEF NbInv

\* avs_stream_finish_message
LEMMA NbFinishStep ==
    ASSUME NbInv, NEW plan \in SendPlans, NbCallFinish(plan)
    PROVE  NbInv'
<1> DEFINE s == WithPlan(plan)
           r == OutBufferFlush(s)
           w == WithoutPlan(r)
<1>1. NbGood /\ nb \in NbStreams /\ wrote \in Nat /\ NbKept(nb, accepted, sendFailed)
      BY DEF NbInv, NbGood
<1>2. /\ Returns("finish", w) /\ wrote' = wrote /\ accepted' = accepted
      /\ sendFailed' = (sendFailed \/ r.err # "ok") /\ UNCHANGED <<arrived, given, wanted>>
      BY DEF NbCallFinish
<1>3. /\ s \in NbStreams /\ s.in = nb.in /\ s.out = nb.out
      /\ s.socket.incoming = nb.socket.incoming /\ s.socket.closed = nb.socket.closed
      /\ s.socket.timeout = nb.socket.timeout /\ s.socket.sent = nb.socket.sent
  <2>1. plan \in NbPlans
        BY NbPlanAllowed
  <2> QED
      BY <1>1, <2>1, PlanFacts DEF WithPlan
<1> HIDE DEF s
<1>4. NbKept(s, accepted, sendFailed)
      BY <1>1, <1>3 DEF NbKept
<1>5. Writes(s, r, accepted, sendFailed)
      BY <1>3, <1>4, OutBufferFlushFacts
<1> HIDE DEF r
<1>6. r \in NbWritten /\ OutOnly(s, r.nb) /\ NbKept(r.nb, accepted, sendFailed \/ r.err # "ok")
      BY <1>5 DEF Writes
<1>7. OutOnly(r.nb, w.nb) /\ w.nb.out = r.nb.out /\ w.nb.socket.sent = r.nb.socket.sent
      BY <1>6, WithoutPlanFacts
<1> HIDE DEF w
<1>8. nb' = w.nb /\ nbCall'.op = "finish"
      BY <1>2, NbReturns
<1>9. OutOnly(nb, nb')
      BY <1>3, <1>6, <1>7, <1>8 DEF OutOnly
<1>10. NbKept(nb', accepted', sendFailed')
       BY <1>2, <1>6, <1>7, <1>8 DEF NbKept
<1>11. wrote' \in Nat
       BY <1>1, <1>2
<1>12. NbGood'
       BY <1>1, <1>2, <1>9, <1>10, <1>11, OutOnlyGood
<1>13. "finish" \notin {"read", "peek", "ready"}
       OBVIOUS
<1> QED
    BY <1>8, <1>12, <1>13, NbOtherCall DEF NbInv

\* avs_stream_read
LEMMA NbReadStep ==
    ASSUME NbInv, NEW len \in NbSizes, NbCallRead(len)
    PROVE  NbInv'
<1> DEFINE r == NbRead(nb, len)
           n == Len(r.out)
<1>1. /\ nb \in NbStreams /\ arrived \in Seq(Nat) /\ given \in 0 .. Len(arrived) /\ wrote \in Nat
      /\ ToRead(nb) = Drop(arrived, given)
      /\ NbKept(nb, accepted, sendFailed) /\ nb.socket.timeout = wanted
      BY DEF NbInv, NbGood
<1>2. len \in Nat
      BY NbAssumption
<1>3. Reads(nb, r)
      BY <1>1, <1>2, NbReadFacts
<1>4. Returns("read", r) /\ given' = given + n
      BY DEF NbCallRead
<1>5. /\ arrived' = arrived /\ accepted' = accepted /\ wrote' = wrote
      /\ sendFailed' = sendFailed /\ wanted' = wanted
      BY DEF NbCallRead
<1> HIDE DEF r
<1>6. /\ Same(nb, r.nb) /\ r.out \in Seq(Nat) /\ r.out \o ToRead(r.nb) = ToRead(nb)
      /\ (r.err = "ok" /\ r.fin) => r.nb.socket.closed /\ r.nb.socket.incoming = <<>>
      BY <1>3 DEF Reads
<1>7. /\ nb' = r.nb /\ nbCall'.op = "read" /\ nbCall'.err = r.err
      /\ nbCall'.out = r.out /\ nbCall'.fin = r.fin
      BY <1>4, NbReturns
<1>8. r.nb \in NbStreams /\ r.nb.out = nb.out /\ r.nb.socket.sent = nb.socket.sent
      /\ r.nb.socket.timeout = nb.socket.timeout
      BY <1>6 DEF Same
<1>9. ToRead(r.nb) \in Seq(Nat)
      BY <1>8, NbFields, CatElems DEF ToRead
<1> DEFINE b == ToRead(r.nb)
           a == r.out
<1>10. n \in Nat /\ n \in 0 .. Len(a) /\ Drop(a, n) = <<>> /\ Take(a, n) = a
  <2>1. a \in Seq(Nat)
        BY <1>6
  <2> HIDE DEF a
  <2>2. Len(a) \in Nat /\ Len(a) \in 0 .. Len(a) /\ Drop(a, Len(a)) = <<>> /\ Take(a, Len(a)) = a
        BY SMT, <2>1 DEF Take, Drop
  <2> QED
      BY <2>2 DEF a
<1>11. /\ given + n \in 0 .. Len(arrived) /\ Drop(a, n) \o b = Drop(arrived, given + n)
       /\ Take(a, n) = SubSeq(arrived, given + 1, given + n)
  <2>1. a \in Seq(Nat) /\ b \in Seq(Nat) /\ a \o b = Drop(arrived, given)
        BY <1>1, <1>6, <1>9
  <2> HIDE DEF a, b, n
  <2>2. ReadsOn(arrived, given, a, b, n)
        BY <1>1, <1>10, <2>1, ReadOn
  <2> QED
      BY <2>2 DEF ReadsOn
<1>12. b = Drop(arrived, given + n)
  <2>1. <<>> \o b = b
        BY <1>9, NoneBefore
  <2> QED
      BY <1>10, <1>11, <2>1
<1> HIDE DEF n
<1>13. NbGood'
  <2>1. NbKept(nb', accepted', sendFailed')
        BY <1>1, <1>5, <1>7, <1>8 DEF NbKept
  <2> QED
      BY <1>1, <1>4, <1>5, <1>7, <1>8, <1>11, <1>12, <2>1 DEF NbGood
<1>14. a = SubSeq(arrived, (given + n) - n + 1, given + n)
  <2>1. given \in Nat
        BY SMT, <1>1
  <2>2. (given + n) - n + 1 = given + 1
        BY SMT, <1>10, <2>1
  <2> QED
      BY <1>10, <1>11, <2>2
<1>15. nbCall'.out = SubSeq(arrived', given' - Len(nbCall'.out) + 1, given')
       BY <1>4, <1>5, <1>7, <1>14 DEF n
<1>16. NbEndIsTheEnd' /\ NbReadyIsTrue'
       BY <1>6, <1>7 DEF NbEndIsTheEnd, NbReadyIsTrue
<1>17. NbCallGood'
       BY <1>7, <1>15, <1>16 DEF NbCallGood
<1> QED
    BY <1>13, <1>17 DEF NbInv

\* avs_stream_peek
LEMMA NbPeekStep ==
    ASSUME NbInv, NEW offset \in NbSizes, NbCallPeek(offset)
    PROVE  NbInv'
<1> DEFINE r == NbPeek(nb, offset)
<1>1. /\ nb \in NbStreams /\ arrived \in Seq(Nat) /\ given \in 0 .. Len(arrived) /\ wrote \in Nat
      /\ ToRead(nb) = Drop(arrived, given)
      /\ NbKept(nb, accepted, sendFailed) /\ nb.socket.timeout = wanted
      BY DEF NbInv, NbGood
<1>2. offset \in Nat
      BY NbAssumption
<1>3. Peeks(nb, offset, r)
      BY <1>1, <1>2, NbPeekFacts
<1>4. nb' = r.nb /\ nbCall' = [op |-> "peek", err |-> r.err, fin |-> FALSE, out |-> <<offset>> \o r.out]
      BY DEF NbCallPeek
<1>5. /\ arrived' = arrived /\ given' = given /\ accepted' = accepted /\ wrote' = wrote
      /\ sendFailed' = sendFailed /\ wanted' = wanted
      BY DEF NbCallPeek
<1> HIDE DEF r
<1>6. /\ r.nb \in NbStreams /\ Same(nb, r.nb) /\ ToRead(r.nb) = ToRead(nb)
      /\ r.err = "eof" => r.nb.socket.closed /\ r.nb.socket.incoming = <<>>
      /\ r.err = "ok" => r.out = <<r.nb.in.data[offset + 1]>> /\ offset < Len(r.nb.in.data)
      BY <1>3 DEF Peeks, Ahead
<1> DEFINE out == <<offset>> \o r.out
<1>7. nbCall'.op = "peek" /\ nbCall'.err = r.err /\ nbCall'.out = out
  <2> HIDE DEF out
  <2>1. nbCall' = [op |-> "peek", err |-> r.err, fin |-> FALSE, out |-> out]
        BY <1>4 DEF out
  <2> QED
      BY <2>1
<1>8. NbGood'
  <2>1. NbKept(nb', accepted', sendFailed')
        BY <1>1, <1>4, <1>5, <1>6 DEF NbKept, Same
  <2>2. nb'.socket.timeout = wanted'
        BY <1>1, <1>4, <1>5, <1>6 DEF Same
  <2> QED
      BY <1>1, <1>4, <1>5, <1>6, <2>1, <2>2 DEF NbGood
<1>9. r.err = "ok" => out[2] = arrived[given + out[1] + 1]
  <2> SUFFICES ASSUME r.err = "ok" PROVE out[2] = arrived[given + out[1] + 1]
      OBVIOUS
  <2> DEFINE a == r.nb.in.data
             b == Flat(r.nb.socket.incoming)
             byte == a[offset + 1]
  <2>1. a \in Seq(Nat) /\ b \in Seq(Nat) /\ a \o b = Drop(arrived, given) /\ offset < Len(a)
        BY <1>1, <1>6, NbFields DEF ToRead
  <2>2. r.out = <<byte>>
        BY <1>6
  <2> HIDE DEF a, b, byte
  <2>3. out[1] = offset /\ out[2] = byte
        BY SMT, <2>2
  <2>4. offset + 1 \in 1 .. Len(a) /\ 0 \in 0 .. Len(a) /\ given + (offset + 1) = given + offset + 1
        BY SMTT(30), <1>1, <1>2, <2>1
  <2>5. ReadsOn(arrived, given, a, b, 0)
        BY <1>1, <2>1, <2>4, ReadOn
  <2>6. a[offset + 1] = arrived[given + (offset + 1)]
        BY <2>4, <2>5 DEF ReadsOn
  <2> HIDE DEF out
  <2> QED
      BY <2>3, <2>4, <2>6 DEF byte
<1> HIDE DEF out
<1>10. NbEndIsTheEnd' /\ NbReadyIsTrue'
       BY <1>4, <1>6, <1>7 DEF NbEndIsTheEnd, NbReadyIsTrue
<1>11. NbCallGood'
       BY <1>5, <1>7, <1>9, <1>10 DEF NbCallGood
<1> QED
    BY <1>8, <1>11 DEF NbInv

\* avs_stream_nonblock_read_ready
LEMMA NbReadyStep ==
    ASSUME NbInv, NEW fault \in {"none", "get", "set", "restore"}, NbCallReadReady(fault)
    PROVE  NbInv'
<1> DEFINE r == NbReadReady(nb, fault)
           op == IF fault = "none" THEN "ready" ELSE "ready_failed"
<1>1. /\ nb \in NbStreams /\ arrived \in Seq(Nat) /\ given \in 0 .. Len(arrived) /\ wrote \in Nat
      /\ ToRead(nb) = Drop(arrived, given)
      /\ NbKept(nb, accepted, sendFailed) /\ nb.socket.timeout = wanted
      BY DEF NbInv, NbGood
<1>2. Readies(nb, fault, r)
      BY <1>1, NbReadReadyFacts
<1>3. /\ Returns(op, r)
      /\ wanted' = IF fault = "restore" THEN nb'.socket.timeout ELSE wanted
      /\ arrived' = arrived /\ given' = given /\ accepted' = accepted /\ wrote' = wrote
      /\ sendFailed' = sendFailed
      BY DEF NbCallReadReady
<1> HIDE DEF r, op
<1>4. /\ r.nb \in NbStreams /\ r.nb.out = nb.out /\ r.nb.socket.sent = nb.socket.sent
      /\ ToRead(r.nb) = ToRead(nb)
      /\ fault # "restore" => r.nb.socket.timeout = nb.socket.timeout
      /\ (fault = "none" /\ ~r.fin) => ToRead(nb) = <<>>
      BY <1>2 DEF Readies
<1>5. nb' = r.nb /\ nbCall'.op = op /\ nbCall'.fin = r.fin
      BY <1>3, NbReturns
<1>6. NbGood'
  <2>1. NbKept(nb', accepted', sendFailed')
        BY <1>1, <1>3, <1>4, <1>5 DEF NbKept
  <2>2. nb'.socket.timeout = wanted'
        BY <1>1, <1>3, <1>4, <1>5
  <2> QED
      BY <1>1, <1>3, <1>4, <1>5, <2>1, <2>2 DEF NbGood
<1>7. op \notin {"read", "peek"} /\ (op = "ready" => fault = "none")
      BY DEF op
<1>8. NbEndIsTheEnd'
      BY <1>5, <1>7 DEF NbEndIsTheEnd
<1>9. NbReadyIsTrue'
      BY <1>1, <1>3, <1>4, <1>5, <1>7 DEF NbReadyIsTrue
<1>10. NbCallGood'
       BY <1>5, <1>7, <1>8, <1>9 DEF NbCallGood
<1> QED
    BY <1>6, <1>10 DEF NbInv

\* avs_stream_netbuf_set_recv_timeout
LEMMA NbTimeoutStep ==
    ASSUME NbInv, NbCallSetRecvTimeout(1)
    PROVE  NbInv'
<1> DEFINE s == SetTimeout(nb, 1)
           r == NbResult(s, "ok", <<>>, FALSE)
<1>1. /\ nb \in NbStreams /\ arrived \in Seq(Nat) /\ given \in 0 .. Len(arrived) /\ wrote \in Nat
      /\ ToRead(nb) = Drop(arrived, given)
      /\ NbKept(nb, accepted, sendFailed)
      BY DEF NbInv, NbGood
<1>2. 1 \in Nat
      BY SMT
<1>3. /\ s \in NbStreams /\ s.out = nb.out /\ s.socket.sent = nb.socket.sent
      /\ s.socket.timeout = 1 /\ ToRead(s) = ToRead(nb)
      BY <1>1, <1>2, SetTimeoutFacts
<1>4. /\ Returns("timeout", r)
      /\ wanted' = 1 /\ arrived' = arrived /\ given' = given /\ accepted' = accepted /\ wrote' = wrote
      /\ sendFailed' = sendFailed
      BY DEF NbCallSetRecvTimeout
<1> HIDE DEF s
<1>5. r.nb = s
      BY DEF NbResult
<1> HIDE DEF r
<1>6. nb' = s /\ nbCall'.op = "timeout"
      BY <1>4, <1>5, NbReturns
<1>7. NbKept(nb', accepted', sendFailed')
      BY <1>1, <1>3, <1>4, <1>6 DEF NbKept
<1>8. NbGood'
      BY <1>1, <1>3, <1>4, <1>6, <1>7 DEF NbGood
<1>9. "timeout" \notin {"read", "peek", "ready"}
      OBVIOUS
<1> QED
    BY <1>6, <1>8, <1>9, NbOtherCall DEF NbInv

\* avs_stream_reset
LEMMA NbResetStep ==
    ASSUME NbInv, NbCallReset
    PROVE  NbInv'
<1> DEFINE s == NbResetBuffers(nb)
           i == BufferReset(nb.in)
           o == BufferReset(nb.out)
           r == NbResult(s, "ok", <<>>, FALSE)
           a == nb.in.data
           b == Flat(nb.socket.incoming)
           n == Len(a)
<1>1. /\ nb \in NbStreams /\ arrived \in Seq(Nat) /\ given \in 0 .. Len(arrived) /\ wrote \in Nat
      /\ ToRead(nb) = Drop(arrived, given)
      /\ NbKept(nb, accepted, sendFailed) /\ nb.socket.timeout = wanted
      BY DEF NbInv, NbGood
<1>2. /\ nb \in NbRecords /\ nb.in \in Buffered /\ nb.out \in Buffered /\ nb.in.capacity # 0
      /\ a \in Seq(Nat) /\ b \in Seq(Nat) /\ nb.out.data \in Seq(Nat) /\ nb.socket.sent \in Seq(Nat)
      BY <1>1, NbFields
<1>3. i \in Buffered /\ i.data = <<>> /\ i.capacity = nb.in.capacity
      BY <1>2, BufferResetFacts
<1>4. o \in Buffered /\ o.data = <<>>
      BY <1>2, BufferResetFacts
<1>5. s = [nb EXCEPT !.in = i, !.out = o]
      BY DEF NbResetBuffers
<1>6. /\ Returns("reset", r)
      /\ given' = given + n
      /\ accepted' = Take(accepted, Len(accepted) - Len(nb.out.data))
      /\ wanted' = wanted /\ arrived' = arrived /\ wrote' = wrote
      /\ sendFailed' = sendFailed
      BY DEF NbCallReset, BufferDataSize
<1> HIDE DEF i, o, s
<1>7. s \in NbRecords
      BY <1>2, <1>3, <1>4, <1>5 DEF NbRecords
<1>8. s.in = i /\ s.out = o /\ s.socket = nb.socket
      BY <1>2, <1>5 DEF NbRecords
<1>9. s \in NbStreams
      BY <1>2, <1>3, <1>7, <1>8 DEF NbStreams
<1>10. r.nb = s
       BY DEF NbResult
<1> HIDE DEF r
<1>11. nb' = s /\ nbCall'.op = "reset"
       BY <1>6, <1>10, NbReturns
<1>12. n \in 0 .. Len(a) /\ Drop(a, n) = <<>>
  <2> HIDE DEF a
  <2> QED
      BY SMT, <1>2 DEF Drop
<1>13. ReadsOn(arrived, given, a, b, n)
  <2>1. a \o b = Drop(arrived, given)
        BY <1>1 DEF ToRead
  <2> HIDE DEF a, b, n
  <2> QED
      BY <1>1, <1>2, <1>12, <2>1, ReadOn
<1>14. given + n \in 0 .. Len(arrived) /\ ToRead(s) = Drop(arrived, given + n)
  <2>1. Drop(a, n) \o b = Drop(arrived, given + n) /\ given + n \in 0 .. Len(arrived)
    <3> HIDE DEF a, b, n
    <3> QED
        BY <1>13 DEF ReadsOn
  <2> QED
      BY <1>3, <1>8, <1>12, <2>1 DEF ToRead
<1>15. NbKept(nb', accepted', sendFailed')
  <2>1. OutputKept(nb.socket.sent, nb.out.data, accepted, sendFailed)
        BY <1>1 DEF NbKept
  <2>2. OutputKept(nb.socket.sent, <<>>, Take(accepted, Len(accepted) - Len(nb.out.data)), sendFailed)
        BY <1>2, <2>1, OutputDropped
  <2> QED
      BY <1>4, <1>6, <1>8, <1>11, <2>2 DEF NbKept
<1> HIDE DEF n
<1>16. NbGood'
       BY <1>1, <1>6, <1>8, <1>9, <1>11, <1>14, <1>15 DEF NbGood
<1>17. "reset" \notin {"read", "peek", "ready"}
       OBVIOUS
<1> QED
    BY <1>11, <1>16, <1>17, NbOtherCall DEF NbInv

\* avs_stream_netbuf_create
LEMMA NbCreateFacts ==
    ASSUME NEW i \in InSizes, NEW o \in OutSizes
    PROVE  LET s == NbCreate(i, o) IN
           /\ s \in NbStreams /\ s.in \in Buffered /\ s.out \in Buffered
           /\ s.in.data = <<>> /\ s.out.data = <<>> /\ s.in.capacity = i
           /\ s.socket.incoming = <<>> /\ s.socket.sent = <<>> /\ s.socket.timeout = 1
<1> DEFINE s == NbCreate(i, o)
<1>1. i \in Nat /\ i # 0 /\ o \in Nat
      BY NbAssumption
<1>2. /\ 0 \in Nat /\ 1 \in Nat /\ <<>> \in Seq(Nat) /\ <<>> \in Seq(Segs)
      /\ <<>> \in Seq({SENDS} \cup Nat) /\ Len(<<>>) <= i /\ Len(<<>>) <= o
      BY SMT, <1>1
<1>3. Socket \in NbSockets
      BY <1>2 DEF Socket, NbSockets, NbPlans
<1>4. ASSUME NEW c \in Nat, Len(<<>>) <= c
      PROVE  BufferCreate(c) \in Buffered /\ BufferCreate(c).data = <<>> /\ BufferCreate(c).capacity = c
  <2>1. BufferCreate(c) \in NbBuffers
        BY <1>2 DEF BufferCreate, NbBuffers
  <2>2. BufferCreate(c).data = <<>> /\ BufferCreate(c).capacity = c
        BY DEF BufferCreate
  <2> QED
      BY <1>4, <2>1, <2>2 DEF Buffered
<1>5. /\ BufferCreate(i) \in Buffered /\ BufferCreate(i).data = <<>> /\ BufferCreate(i).capacity = i
      /\ BufferCreate(o) \in Buffered /\ BufferCreate(o).data = <<>>
      BY <1>1, <1>2, <1>4
<1>6. s.in = BufferCreate(i) /\ s.out = BufferCreate(o) /\ s.socket = Socket
      BY DEF NbCreate
<1>7. s \in NbRecords
      BY <1>3, <1>5 DEF NbCreate, NbRecords
<1> HIDE DEF s
<1>8. s \in NbStreams
      BY <1>1, <1>5, <1>6, <1>7 DEF NbStreams
<1>9. Socket.incoming = <<>> /\ Socket.sent = <<>> /\ Socket.timeout = 1
      BY DEF Socket
<1> QED
    BY <1>5, <1>6, <1>8, <1>9 DEF s

\* A new stream: nothing was sent in either direction.
LEMMA NbFreshGood ==
    ASSUME NEW s \in NbStreams, s.in.data = <<>>, s.out.data = <<>>,
           s.socket.incoming = <<>>, s.socket.sent = <<>>
    PROVE  ToRead(s) = Drop(<<>>, 0) /\ NbKept(s, <<>>, FALSE) /\ 0 \in 0 .. Len(<<>>) /\ <<>> \in Seq(Nat)
<1>1. Drop(<<>>, 0) = <<>> /\ 0 \in 0 .. Len(<<>>) /\ <<>> \in Seq(Nat) /\ 1 .. Len(<<>>) = {}
      BY SMT DEF Drop
<1>2. ToRead(s) = <<>>
      BY FlatEmpty, NoneBefore DEF ToRead
<1>3. <<>> = <<>> \o <<>>
      BY NoneBefore
<1>4. OccursIn(<<>>, <<>>)
      BY <1>1 DEF OccursIn
<1>5. OutputKept(<<>>, <<>>, <<>>, FALSE)
      BY <1>1, <1>3, <1>4 DEF OutputKept
<1> QED
    BY <1>1, <1>2, <1>5 DEF NbKept

\* Initially
LEMMA NbInitInv ==
    ASSUME NbInit
    PROVE  NbInv
<1>1. PICK i \in InSizes, o \in OutSizes : nb = NbCreate(i, o)
      BY DEF NbInit
<1>2. /\ nb \in NbStreams /\ nb.in.data = <<>> /\ nb.out.data = <<>>
      /\ nb.socket.incoming = <<>> /\ nb.socket.sent = <<>> /\ nb.socket.timeout = 1
      BY <1>1, NbCreateFacts
<1>3. /\ arrived = <<>> /\ given = 0 /\ accepted = <<>> /\ wrote = 0
      /\ sendFailed = FALSE /\ wanted = 1 /\ nbCall = NbNoCall
      BY DEF NbInit
<1>4. /\ ToRead(nb) = Drop(<<>>, 0) /\ NbKept(nb, <<>>, FALSE)
      /\ 0 \in 0 .. Len(<<>>) /\ <<>> \in Seq(Nat)
      BY <1>2, NbFreshGood
<1>5. 0 \in Nat
      BY SMT
<1>6. NbGood
      BY <1>2, <1>3, <1>4, <1>5 DEF NbGood
<1>7. nbCall.op = "none"
      BY <1>3 DEF NbNoCall
<1>8. NbCallGood
      BY <1>7 DEF NbCallGood, NbEndIsTheEnd, NbReadyIsTrue
<1> QED
    BY <1>6, <1>8 DEF NbInv

\* A connection ends, and another one begins.
LEMMA NbCloseStep ==
    ASSUME NbCallClose
    PROVE  NbInv'
<1>1. PICK i \in InSizes, o \in OutSizes : nb' = NbCreate(i, o)
      BY DEF NbCallClose
<1>2. /\ nb' \in NbStreams /\ nb'.in.data = <<>> /\ nb'.out.data = <<>>
      /\ nb'.socket.incoming = <<>> /\ nb'.socket.sent = <<>> /\ nb'.socket.timeout = 1
      BY <1>1, NbCreateFacts
<1>3. /\ arrived' = <<>> /\ given' = 0 /\ accepted' = <<>> /\ wrote' = 0
      /\ sendFailed' = FALSE /\ wanted' = 1 /\ nbCall' = NbNoCall
      BY DEF NbCallClose
<1>4. /\ ToRead(nb') = Drop(<<>>, 0) /\ NbKept(nb', <<>>, FALSE)
      /\ 0 \in 0 .. Len(<<>>) /\ <<>> \in Seq(Nat)
      BY <1>2, NbFreshGood
<1>5. 0 \in Nat
      BY SMT
<1>6. NbGood'
      BY <1>2, <1>3, <1>4, <1>5 DEF NbGood
<1>7. nbCall'.op = "none" /\ "none" \notin {"read", "peek", "ready"}
      BY <1>3 DEF NbNoCall
<1> QED
    BY <1>6, <1>7, NbOtherCall DEF NbInv

\* A stream with the same data in other buffers
LEMMA NbTransferStep ==
    ASSUME NbInv, NEW i \in InSizes, NEW o \in OutSizes, NbCallTransfer(i, o)
    PROVE  NbInv'
<1> DEFINE c == NbCreate(i, o)
           d == [c EXCEPT !.socket = nb.socket]
           t == NbTransfer(d, nb)
           r == NbResult(t.to, IF t.done THEN "ok" ELSE "failed", <<>>, FALSE)
           s == t.to
           bi == BufferAppendBytes(d.in, nb.in.data)
           bo == BufferAppendBytes(d.out, nb.out.data)
<1>1. /\ nb \in NbStreams /\ arrived \in Seq(Nat) /\ given \in 0 .. Len(arrived) /\ wrote \in Nat
      /\ ToRead(nb) = Drop(arrived, given)
      /\ NbKept(nb, accepted, sendFailed) /\ nb.socket.timeout = wanted
      BY DEF NbInv, NbGood
<1>2. /\ nb.in.data \in Seq(Nat) /\ nb.out.data \in Seq(Nat) /\ nb.socket \in NbSockets
      /\ Len(nb.in.data) \in Nat /\ Len(nb.out.data) \in Nat
      BY <1>1, NbFields
<1>3. /\ c \in NbStreams /\ c.in \in Buffered /\ c.out \in Buffered
      /\ c.in.data = <<>> /\ c.out.data = <<>>
      BY NbCreateFacts
<1>4. /\ Returns("transfer", r)
      /\ wanted' = wanted /\ arrived' = arrived /\ given' = given /\ accepted' = accepted
      /\ wrote' = wrote /\ sendFailed' = sendFailed
      BY DEF NbCallTransfer
<1>5. t = IF \/ BufferSpaceLeft(d.out) < BufferDataSize(nb.out)
             \/ BufferSpaceLeft(d.in) < BufferDataSize(nb.in)
          THEN [to |-> nb, done |-> FALSE]
          ELSE [to |-> [d EXCEPT !.out = bo, !.in = bi], done |-> TRUE]
      BY DEF NbTransfer, TransferUnchecked
<1> HIDE DEF c
<1>6. c \in NbRecords /\ c.in.capacity # 0 /\ c.in.capacity \in Nat /\ c.out.capacity \in Nat
      BY <1>3, NbFields
<1>7. d \in NbRecords
      BY <1>2, <1>6 DEF NbRecords
<1>8. d.in = c.in /\ d.out = c.out /\ d.socket = nb.socket
      BY <1>6 DEF NbRecords
<1> HIDE DEF d, t
<1>9. /\ s \in NbStreams /\ s.in.data = nb.in.data /\ s.out.data = nb.out.data
      /\ s.socket = nb.socket
  <2>1. CASE \/ BufferSpaceLeft(d.out) < BufferDataSize(nb.out)
             \/ BufferSpaceLeft(d.in) < BufferDataSize(nb.in)
    <3>1. t = [to |-> nb, done |-> FALSE]
          BY <1>5, <2>1
    <3>2. t.to = nb
          BY <3>1
    <3> QED
        BY <1>1, <3>2
  <2>2. CASE ~(\/ BufferSpaceLeft(d.out) < BufferDataSize(nb.out)
               \/ BufferSpaceLeft(d.in) < BufferDataSize(nb.in))
    <3> DEFINE u == [d EXCEPT !.out = bo, !.in = bi]
    <3>1. t = [to |-> u, done |-> TRUE]
          BY <1>5, <2>2
    <3>2. /\ Len(nb.in.data) <= c.in.capacity - Len(c.in.data)
          /\ Len(nb.out.data) <= c.out.capacity - Len(c.out.data)
      <4>1. /\ ~(c.in.capacity - Len(c.in.data) < Len(nb.in.data))
            /\ ~(c.out.capacity - Len(c.out.data) < Len(nb.out.data))
            BY <1>8, <2>2 DEF BufferSpaceLeft, BufferDataSize
      <4>2. Len(<<>>) = 0
            BY SMT
      <4> DEFINE x == c.in.capacity
                 y == c.out.capacity
                 v == Len(nb.in.data)
                 w == Len(nb.out.data)
                 z == Len(<<>>)
      <4>3. x \in Nat /\ y \in Nat /\ v \in Nat /\ w \in Nat /\ z = 0 /\ ~(x - z < v) /\ ~(y - z < w)
            BY <1>2, <1>3, <1>6, <4>1, <4>2
      <4> HIDE DEF x, y, v, w, z
      <4>4. v <= x - z /\ w <= y - z
            BY SMT, <4>3
      <4> QED
          BY <1>3, <4>4 DEF x, y, v, w, z
    <3>3. BufferFits(c.in, nb.in.data) /\ BufferFits(c.out, nb.out.data)
          BY <3>2 DEF BufferFits, BufferSpaceLeft, BufferDataSize
    <3>4. bi = BufferPut(c.in, nb.in.data) /\ bo = BufferPut(c.out, nb.out.data)
          BY <1>8, <3>3 DEF BufferAppendBytes
    <3>5. /\ BufferPut(c.in, nb.in.data) \in Buffered
          /\ BufferPut(c.in, nb.in.data).capacity = c.in.capacity
          /\ BufferPut(c.in, nb.in.data).data = c.in.data \o nb.in.data
          BY <1>2, <1>3, <3>2, BufferPutFacts
    <3>6. /\ BufferPut(c.out, nb.out.data) \in Buffered
          /\ BufferPut(c.out, nb.out.data).data = c.out.data \o nb.out.data
          BY <1>2, <1>3, <3>2, BufferPutFacts
    <3>7. <<>> \o nb.in.data = nb.in.data /\ <<>> \o nb.out.data = nb.out.data
          BY <1>2, NoneBefore
    <3>8. /\ bi \in Buffered /\ bi.capacity = c.in.capacity /\ bi.data = nb.in.data
          /\ bo \in Buffered /\ bo.data = nb.out.data
          BY <1>3, <3>4, <3>5, <3>6, <3>7
    <3> HIDE DEF bi, bo
    <3>9. u \in NbRecords
          BY <1>7, <3>8 DEF NbRecords
    <3>10. u.in = bi /\ u.out = bo /\ u.socket = d.socket
           BY <1>7 DEF NbRecords
    <3> HIDE DEF u
    <3>11. u \in NbStreams
           BY <1>6, <3>8, <3>9, <3>10 DEF NbStreams
    <3>12. t.to = u
           BY <3>1
    <3> QED
        BY <1>8, <3>8, <3>10, <3>11, <3>12
  <2> QED
      BY <2>1, <2>2
<1> HIDE DEF s
<1>10. r.nb = s
       BY SMT DEF NbResult, s
<1> HIDE DEF r
<1>11. nb' = s /\ nbCall'.op = "transfer"
       BY <1>4, <1>10, NbReturns
<1>12. NbKept(nb', accepted', sendFailed')
       BY <1>1, <1>4, <1>9, <1>11 DEF NbKept
<1>13. ToRead(nb') = ToRead(nb)
       BY <1>9, <1>11 DEF ToRead
<1>14. NbGood'
       BY <1>1, <1>4, <1>9, <1>11, <1>12, <1>13 DEF NbGood
<1>15. "transfer" \notin {"read", "peek", "ready"}
       OBVIOUS
<1> QED
    BY <1>11, <1>14, <1>15, NbOtherCall DEF NbInv

\* Bytes that arrive come last.
LEMMA DropMore ==
    ASSUME NEW s \in Seq(Nat), NEW g \in 0 .. Len(s), NEW e \in Seq(Nat)
    PROVE  g \in 0 .. Len(s \o e) /\ Drop(s \o e, g) = Drop(s, g) \o e
<1> DEFINE a == Take(s, g)
           b == Drop(s, g)
           c == s \o e
           f == b \o e
<1>1. a \in Seq(Nat) /\ Len(a) = g /\ b \in Seq(Nat) /\ s = a \o b
      BY TakeDropFacts
<1>2. c \in Seq(Nat) /\ Len(c) = Len(s) + Len(e) /\ Len(s) \in Nat /\ Len(e) \in Nat
      BY CatElems, LenProperties
<1>3. g \in 0 .. Len(c)
      BY SMT, <1>2
<1> HIDE DEF a, b
<1>4. c = a \o (b \o e)
      BY <1>1, CatAssociative
<1>5. f \in Seq(Nat)
      BY <1>1, CatElems
<1> HIDE DEF c, f
<1>6. Len(c) = g + Len(f) /\ \A i \in 1 .. Len(f) : c[g + i] = f[i]
  <2>1. c = a \o f
        BY <1>4 DEF f
  <2>2. Len(a \o f) = Len(a) + Len(f) /\ \A i \in 1 .. Len(f) : (a \o f)[Len(a) + i] = f[i]
        BY <1>1, <1>5, CatElems
  <2> QED
      BY <1>1, <2>1, <2>2
<1>7. /\ Drop(c, g) \in Seq(Nat) /\ Len(Drop(c, g)) = Len(c) - g
      /\ \A i \in 1 .. Len(c) - g : Drop(c, g)[i] = c[g + i]
      BY <1>2, <1>3, TakeDropFacts
<1>8. Len(c) - g = Len(f)
  <2>1. Len(f) \in Nat
        BY <1>5, LenProperties
  <2> QED
      BY SMT, <1>6, <2>1
<1>9. Drop(c, g) = f
      BY <1>5, <1>6, <1>7, <1>8, SeqEqual
<1> QED
    BY <1>3, <1>9 DEF c, f, b

\* The peer sends.
LEMMA NbPeerSendsStep ==
    ASSUME NbInv, NEW n \in Segments, PeerSends(n)
    PROVE  NbInv'
<1> DEFINE e == [i \in 1 .. n |-> Len(arrived) + i]
           q == Append(nb.socket.incoming, e)
           k == [nb.socket EXCEPT !.incoming = q]
           s == [nb EXCEPT !.socket = k]
<1>1. /\ nb \in NbStreams /\ arrived \in Seq(Nat) /\ given \in 0 .. Len(arrived) /\ wrote \in Nat
      /\ ToRead(nb) = Drop(arrived, given)
      /\ NbKept(nb, accepted, sendFailed) /\ nb.socket.timeout = wanted
      BY DEF NbInv, NbGood
<1>2. /\ nb \in NbRecords /\ nb.socket \in NbSockets /\ nb.in.capacity # 0
      /\ nb.in.data \in Seq(Nat) /\ nb.socket.incoming \in Seq(Segs)
      /\ Flat(nb.socket.incoming) \in Seq(Nat)
      BY <1>1, NbFields
<1>3. n \in Nat /\ n # 0 /\ Len(arrived) \in Nat
      BY <1>1, NbAssumption, LenProperties
<1>4. e \in Seq(Nat) /\ e # <<>>
  <2> DEFINE l == Len(arrived)
  <2>1. l \in Nat
        BY <1>3
  <2> HIDE DEF l
  <2>2. [i \in 1 .. n |-> l + i] \in Seq(Nat) /\ [i \in 1 .. n |-> l + i] # <<>>
        BY SMT, <1>3, <2>1
  <2> QED
      BY <2>2 DEF l
<1>5. /\ nb' = [nb EXCEPT !.socket.incoming = q] /\ arrived' = arrived \o e /\ nbCall' = NbNoCall
      /\ given' = given /\ accepted' = accepted /\ wrote' = wrote
      /\ sendFailed' = sendFailed /\ wanted' = wanted
      BY DEF PeerSends
<1>6. nb' = s
      BY <1>5
<1> HIDE DEF e
<1>7. q \in Seq(Segs)
  <2>1. e \in Segs
        BY <1>4 DEF Segs
  <2> QED
      BY <1>2, <2>1, AppendProperties
<1>8. Flat(q) = Flat(nb.socket.incoming) \o e
  <2>1. nb.socket.incoming \in Seq(Seq(Nat))
        BY <1>2, SegsAreSequences
  <2> QED
      BY <1>4, <2>1, FlatAppend
<1> HIDE DEF q
<1>9. k \in NbSockets
      BY <1>2, <1>7 DEF NbSockets
<1>10. k.incoming = q /\ k.timeout = nb.socket.timeout /\ k.sent = nb.socket.sent
       BY <1>2 DEF NbSockets
<1> HIDE DEF k
<1>11. s \in NbRecords
       BY <1>2, <1>9 DEF NbRecords
<1>12. s.in = nb.in /\ s.out = nb.out /\ s.socket = k
       BY <1>2 DEF NbRecords
<1> HIDE DEF s
<1>13. s \in NbStreams
       BY <1>2, <1>11, <1>12 DEF NbStreams
<1>14. ToRead(s) = ToRead(nb) \o e
  <2>1. (nb.in.data \o Flat(nb.socket.incoming)) \o e = nb.in.data \o (Flat(nb.socket.incoming) \o e)
        BY <1>2, <1>4, CatAssociative
  <2> QED
      BY <1>8, <1>10, <1>12, <2>1 DEF ToRead
<1>15. /\ given \in 0 .. Len(arrived \o e)
       /\ Drop(arrived \o e, given) = Drop(arrived, given) \o e
       BY <1>1, <1>4, DropMore
<1>16. arrived \o e \in Seq(Nat)
       BY <1>1, <1>4, CatElems
<1>17. NbKept(nb', accepted', sendFailed')
       BY <1>1, <1>5, <1>6, <1>10, <1>12 DEF NbKept
<1>18. ToRead(nb') = Drop(arrived', given') /\ nb'.socket.timeout = wanted'
       BY <1>1, <1>5, <1>6, <1>10, <1>12, <1>14, <1>15
<1>19. NbGood'
       BY <1>1, <1>5, <1>6, <1>13, <1>15, <1>16, <1>17, <1>18 DEF NbGood
<1>20. nbCall'.op = "none" /\ "none" \notin {"read", "peek", "ready"}
       BY <1>5 DEF NbNoCall
<1> QED
    BY <1>19, <1>20, NbOtherCall DEF NbInv

\* The peer closes.
LEMMA NbPeerClosesStep ==
    ASSUME NbInv, PeerCloses
    PROVE  NbInv'
<1> DEFINE k == [nb.socket EXCEPT !.closed = TRUE]
           s == [nb EXCEPT !.socket = k]
<1>1. NbGood /\ nb \in NbStreams /\ NbKept(nb, accepted, sendFailed) /\ wrote \in Nat
      BY DEF NbInv, NbGood
<1>2. nb \in NbRecords /\ nb.socket \in NbSockets /\ nb.in.capacity # 0
      BY <1>1, NbFields
<1>3. /\ nb' = s /\ nbCall' = NbNoCall
      /\ arrived' = arrived /\ given' = given /\ accepted' = accepted /\ wrote' = wrote
      /\ sendFailed' = sendFailed /\ wanted' = wanted
      BY DEF PeerCloses
<1>4. k \in NbSockets
      BY <1>2 DEF NbSockets
<1>5. k.incoming = nb.socket.incoming /\ k.timeout = nb.socket.timeout /\ k.sent = nb.socket.sent
      BY <1>2 DEF NbSockets
<1> HIDE DEF k
<1>6. s \in NbRecords
      BY <1>2, <1>4 DEF NbRecords
<1>7. s.in = nb.in /\ s.out = nb.out /\ s.socket = k
      BY <1>2 DEF NbRecords
<1> HIDE DEF s
<1>8. s \in NbStreams
      BY <1>2, <1>6, <1>7 DEF NbStreams
<1>9. ToRead(s) = ToRead(nb)
      BY <1>5, <1>7 DEF ToRead
<1>10. NbKept(nb', accepted', sendFailed')
       BY <1>1, <1>3, <1>5, <1>7 DEF NbKept
<1>11. NbGood'
       BY <1>1, <1>3, <1>5, <1>7, <1>8, <1>9, <1>10 DEF NbGood
<1>12. nbCall'.op = "none" /\ "none" \notin {"read", "peek", "ready"}
       BY <1>3 DEF NbNoCall
<1> QED
    BY <1>11, <1>12, NbOtherCall DEF NbInv

\* Every step keeps the invariant.
LEMMA NbInvKept ==
    ASSUME NbInv, [NbNext]_nbVars
    PROVE  NbInv'
<1>1. CASE NbNext
  <2>1. ASSUME NEW n \in NbSizes, NbCallRead(n) PROVE NbInv'
        BY <2>1, NbReadStep
  <2>2. ASSUME NEW n \in NbSizes, NbCallPeek(n) PROVE NbInv'
        BY <2>2, NbPeekStep
  <2>3. ASSUME NEW n \in NbSizes, NEW plan \in SendPlans, NbCallWrite(n, plan) PROVE NbInv'
        BY <2>3, NbWriteStep
  <2>4. ASSUME NEW plan \in SendPlans, NbCallFinish(plan) PROVE NbInv'
        BY <2>4, NbFinishStep
  <2>5. ASSUME NEW fault \in {"none", "get", "set", "restore"}, NbCallReadReady(fault) PROVE NbInv'
        BY <2>5, NbReadyStep
  <2>6. ASSUME NEW i \in InSizes, NEW o \in OutSizes, NbCallTransfer(i, o) PROVE NbInv'
        BY <2>6, NbTransferStep
  <2>7. ASSUME NEW n \in Segments, PeerSends(n) PROVE NbInv'
        BY <2>7, NbPeerSendsStep
  <2>8. NbCallSetRecvTimeout(1) => NbInv'
        BY NbTimeoutStep
  <2>9. NbCallReset => NbInv'
        BY NbResetStep
  <2>10. NbCallClose => NbInv'
         BY NbCloseStep
  <2>11. PeerCloses => NbInv'
         BY NbPeerClosesStep
  <2> QED
      BY <1>1, <2>1, <2>2, <2>3, <2>4, <2>5, <2>6, <2>7, <2>8, <2>9, <2>10, <2>11 DEF NbNext
<1>2. CASE UNCHANGED nbVars
  <2>1. /\ nb' = nb /\ arrived' = arrived /\ given' = given /\ accepted' = accepted /\ wrote' = wrote
        /\ sendFailed' = sendFailed /\ wanted' = wanted /\ nbCall' = nbCall
        BY <1>2 DEF nbVars
  <2>2. NbGood'
        BY <2>1 DEF NbInv, NbGood
  <2>3. NbEndIsTheEnd' /\ NbReadyIsTrue'
        BY <2>1 DEF NbInv, NbCallGood, NbEndIsTheEnd, NbReadyIsTrue
  <2>4. NbCallGood'
        BY <2>1, <2>3 DEF NbInv, NbCallGood
  <2> QED
      BY <2>2, <2>4 DEF NbInv
<1> QED
    BY <1>1, <1>2

\* Through any sequence of reads, peeks, readiness checks, writes, flushes, resets and transfers, with
\* failing sends and options, the buffered net stream neither loses, repeats nor reorders
\* bytes, reports the end only at the end, and keeps the timeout of its socket.
THEOREM NetbufAlwaysCorrect ==
    NbSpec => []NetbufCorrect
<1>1. NbInit => NbInv
      BY NbInitInv
<1>2. NbInv /\ [NbNext]_nbVars => NbInv'
      BY NbInvKept
<1>3. NbInv => NetbufCorrect
      BY NbInvIsCorrect
<1> QED
    BY <1>1, <1>2, <1>3, PTL DEF NbSpec

=============================================================================
