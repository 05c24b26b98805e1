----------------------------- MODULE TlsProofs ------------------------------
(***************************************************************************)
(* Proofs about the TLS sockets, with what each does with the socket below *)
(* it (TlsCommon):                                                         *)
(*                                                                         *)
(*   - the one over tinyDTLS (TinydtlsSocket), for any datagrams of the    *)
(*     server, sizes and limit on the exchanges of a handshake;            *)
(*   - the one over OpenSSL (OpensslSocket), for any configurations, peers,*)
(*     TLSA records and sizes.                                             *)
(***************************************************************************)
EXTENDS TinydtlsSocket, OpensslSocket, WellFoundedInduction, TLAPS

\* Zenon proves most steps; those with arithmetic or sequences name SMT.
USE ZenonT(120)

\* Every set of naturals but the empty one has a smallest element.
LEMMA SmallestNat ==
    ASSUME NEW P \in SUBSET Nat, P # {}
    PROVE  \E i \in P : \A j \in P : i <= j
<1>1. IsWellFoundedOn(OpToRel(<, Nat), Nat)
      BY NatLessThanWellFounded
<1>2. PICK i \in P : \A j \in P : ~(<<j, i>> \in OpToRel(<, Nat))
      BY <1>1, WFMin
<1>3. ASSUME NEW j \in P PROVE i <= j
  <2>1. ~(<<j, i>> \in {ss \in Nat \X Nat : ss[1] < ss[2]})
        BY <1>2 DEF OpToRel
  <2> QED BY SMT, <2>1
<1> QED BY <1>3

-----------------------------------------------------------------------------
(* TLS: owning a backend                                                   *)

\* The states of a backend socket,
BackendStates == {"free", "closed", "bound", "connected", "accepted"}
\* who may have to clean it up,
Owners == {"none", "ssl", "app"}
\* all of it,
Backend == [state : BackendStates, owner : Owners, timeout : Nat]
\* and where the TLS socket may point.
Handles == 0 .. 2

\* The worlds of a TLS socket whose record is one of S
Worlds(S) == [sock : S, backends : [1 .. 2 -> Backend]]

\* The records of a TLS socket: whatever else they have, the handle of the
\* backend may be any.
TlsSocks(S) ==
    \A s \in S : /\ s.backend \in Handles /\ "backend" \in DOMAIN s
                 /\ \A b \in Handles : [s EXCEPT !.backend = b] \in S

\* A free backend and a new one.
LEMMA BackendFacts ==
    /\ FreeBackend \in Backend /\ FreeBackend.owner = "none" /\ FreeBackend.state = "free"
    /\ NULLSOCK \in Handles /\ 1 .. 2 \subseteq Handles /\ NULLSOCK \notin 1 .. 2
    /\ \A b \in Handles : b # NULLSOCK => b \in 1 .. 2
    /\ \A owner \in Owners, state \in BackendStates :
          /\ NewBackend(owner, state) \in Backend
          /\ NewBackend(owner, state).owner = owner
          /\ NewBackend(owner, state).state = state
          /\ NewBackend(owner, state).timeout = 1
<1>1. /\ NULLSOCK \in Handles /\ 1 .. 2 \subseteq Handles /\ NULLSOCK \notin 1 .. 2
      /\ \A b \in Handles : b # NULLSOCK => b \in 1 .. 2
      /\ 0 \in Nat /\ 1 \in Nat
      BY SMT DEF NULLSOCK, Handles
<1>5. "free" \in BackendStates /\ "none" \in Owners
      BY DEF BackendStates, Owners
<1>2. FreeBackend \in Backend
      BY <1>1, <1>5 DEF FreeBackend, Backend
<1>4. FreeBackend.owner = "none" /\ FreeBackend.state = "free"
      BY SMT DEF FreeBackend
<1>3. ASSUME NEW owner \in Owners, NEW state \in BackendStates
      PROVE  /\ NewBackend(owner, state) \in Backend
             /\ NewBackend(owner, state).owner = owner
             /\ NewBackend(owner, state).state = state
             /\ NewBackend(owner, state).timeout = 1
  <2>1. NewBackend(owner, state) \in Backend
        BY <1>1 DEF NewBackend, Backend
  <2>2. /\ NewBackend(owner, state).owner = owner
        /\ NewBackend(owner, state).state = state
        /\ NewBackend(owner, state).timeout = 1
        BY SMT DEF NewBackend
  <2> QED
      BY <2>1, <2>2
<1> QED
    BY <1>1, <1>2, <1>3, <1>4

\* A world with another handle and another backend, or a backend in another
\* state
Owning(w, b, c, x) == [w EXCEPT !.sock.backend = b, !.backends[c] = x]
\* A backend in another state.
InState(w, b, state) == [w EXCEPT !.backends[b].state = state]

\* Changing the handle and one backend
LEMMA WorldWith ==
    ASSUME NEW S, TlsSocks(S), NEW w \in Worlds(S), NEW b \in Handles,
           NEW c \in 1 .. 2, NEW x \in Backend
    PROVE  LET v == Owning(w, b, c, x) IN
           /\ v \in Worlds(S) /\ v.sock = [w.sock EXCEPT !.backend = b]
           /\ v.sock.backend = b
           /\ \A d \in 1 .. 2 : v.backends[d] = IF d = c THEN x ELSE w.backends[d]
<1> DEFINE sock == [w.sock EXCEPT !.backend = b]
           backends == [w.backends EXCEPT ![c] = x]
           v == Owning(w, b, c, x)
<1>1. w.sock \in S /\ w.backends \in [1 .. 2 -> Backend]
      BY DEF Worlds
<1>2. sock \in S /\ backends \in [1 .. 2 -> Backend]
      BY <1>1 DEF TlsSocks
<1>3. sock.backend = b
      BY <1>1 DEF TlsSocks
<1>4. v.sock = sock /\ v.backends = backends
      BY SMT DEF Worlds, Owning
<1>5. \A d \in 1 .. 2 : backends[d] = IF d = c THEN x ELSE w.backends[d]
      BY <1>1
<1>6. v \in Worlds(S)
      BY <1>1, <1>2 DEF Worlds, Owning
<1> QED
    BY <1>3, <1>4, <1>5, <1>6

\* Another state for a backend somebody owns
LEMMA WorldState ==
    ASSUME NEW S, TlsSocks(S), NEW w \in Worlds(S), BackendsHaveOneOwner(w),
           NEW b \in 1 .. 2, w.backends[b].owner # "none",
           NEW state \in BackendStates, state # "free"
    PROVE  LET v == InState(w, b, state) IN
           /\ v \in Worlds(S) /\ BackendsHaveOneOwner(v) /\ v.sock = w.sock
           /\ v.backends[b].state = state
           /\ \A d \in 1 .. 2 : /\ v.backends[d].owner = w.backends[d].owner
                                /\ v.backends[d].timeout = w.backends[d].timeout
           /\ \A d \in 1 .. 2 : d # b => v.backends[d] = w.backends[d]
<1> DEFINE x == [w.backends[b] EXCEPT !.state = state]
           backends == [w.backends EXCEPT ![b] = x]
           v == InState(w, b, state)
<1>1. w.sock \in S /\ w.backends \in [1 .. 2 -> Backend]
      BY DEF Worlds
<1>2. w.backends[b] \in Backend
      BY <1>1
<1>3. x \in Backend
      BY <1>2 DEF Backend
<1>4. /\ x.state = state /\ x.owner = w.backends[b].owner
      /\ x.timeout = w.backends[b].timeout
      BY SMT, <1>2 DEF Backend
<1>5. v.sock = w.sock /\ v.backends = backends
      BY SMT, <1>1 DEF Worlds, InState
<1>6. v \in Worlds(S)
      BY <1>1, <1>3 DEF Worlds, InState
<1> HIDE DEF x
<1>7. \A d \in 1 .. 2 : v.backends[d] = IF d = b THEN x ELSE w.backends[d]
      BY <1>1, <1>5
<1>8. DOMAIN v.backends = 1 .. 2 /\ DOMAIN w.backends = 1 .. 2
      BY <1>6 DEF Worlds
<1>9. ASSUME NEW d \in 1 .. 2
      PROVE  /\ v.backends[d].owner = "ssl" <=> v.sock.backend = d
             /\ v.backends[d].owner = "none" <=> v.backends[d].state = "free"
  <2>1. /\ w.backends[d].owner = "ssl" <=> w.sock.backend = d
        /\ w.backends[d].owner = "none" <=> w.backends[d].state = "free"
        BY <1>8 DEF BackendsHaveOneOwner
  <2>2. CASE d = b
        BY <1>4, <1>5, <1>7, <2>1, <2>2
  <2>3. CASE d # b
        BY <1>5, <1>7, <2>1, <2>3
  <2> QED
      BY <2>2, <2>3
<1>10. BackendsHaveOneOwner(v)
      BY <1>8, <1>9 DEF BackendsHaveOneOwner
<1> QED
    BY <1>4, <1>5, <1>6, <1>7, <1>10

\* Owning a backend, and giving it up
LEMMA EnsureFacts ==
    ASSUME NEW S, TlsSocks(S), NEW w \in Worlds(S), BackendsHaveOneOwner(w)
    PROVE  LET e == EnsureHaveBackendSocket(w) IN
           /\ e.w \in Worlds(S) /\ BackendsHaveOneOwner(e.w)
           /\ e.err \in {"ok", "enomem"}
           /\ e.err = "ok" => e.w.sock.backend \in 1 .. 2
           /\ e.w = w \/ e.w.sock = [w.sock EXCEPT !.backend = e.w.sock.backend]
           /\ w.sock.backend # NULLSOCK => e.w = w
           /\ \A d \in 1 .. 2 : \/ e.w.backends[d] = w.backends[d]
                                \/ e.w.backends[d] = NewBackend("ssl", "closed")
<1> DEFINE e == EnsureHaveBackendSocket(w)
           b == CHOOSE i \in Unallocated(w) : \A j \in Unallocated(w) : i <= j
           x == NewBackend("ssl", "closed")
           v == Owning(w, b, b, x)
<1>0. w.sock.backend \in Handles /\ DOMAIN w.backends = 1 .. 2
      BY DEF Worlds, TlsSocks
<1>1. CASE w.sock.backend # NULLSOCK
  <2>1. e = TlsResult(w, "ok")
        BY <1>1 DEF EnsureHaveBackendSocket
  <2>2. e.w = w /\ e.err = "ok"
        BY SMT, <2>1 DEF TlsResult
  <2> QED
      BY <1>0, <1>1, <2>2, BackendFacts
<1>2. CASE w.sock.backend = NULLSOCK /\ Unallocated(w) = {}
  <2>1. e = TlsResult(w, "enomem")
        BY <1>2 DEF EnsureHaveBackendSocket
  <2>2. e.w = w /\ e.err = "enomem"
        BY SMT, <2>1 DEF TlsResult
  <2> QED
      BY <1>2, <2>2
<1>3. CASE w.sock.backend = NULLSOCK /\ Unallocated(w) # {}
  <2>1. e = TlsResult(v, "ok")
        BY <1>3 DEF EnsureHaveBackendSocket, Owning
  <2>2. e.w = v /\ e.err = "ok"
        BY SMT, <2>1 DEF TlsResult
  <2>3. b \in Unallocated(w)
    <3>1. Unallocated(w) \in SUBSET Nat
          BY SMT, <1>0 DEF Unallocated
    <3>2. \E i \in Unallocated(w) : \A j \in Unallocated(w) : i <= j
          BY <1>3, <3>1, SmallestNat
    <3> QED
        BY <3>2
  <2>4. b \in 1 .. 2 /\ w.backends[b].state = "free"
        BY <1>0, <2>3 DEF Unallocated
  <2>5. x \in Backend /\ x.owner = "ssl" /\ x.state = "closed"
    <3>1. "ssl" \in Owners /\ "closed" \in BackendStates
          BY DEF Owners, BackendStates
    <3> QED
        BY <3>1, BackendFacts
  <2> HIDE DEF b, x
  <2>6. /\ v \in Worlds(S) /\ v.sock = [w.sock EXCEPT !.backend = b]
        /\ v.sock.backend = b
        /\ \A d \in 1 .. 2 : v.backends[d] = IF d = b THEN x ELSE w.backends[d]
    <3>1. b \in Handles
          BY <2>4, BackendFacts
    <3> QED
        BY SMT, <2>4, <2>5, <3>1, WorldWith
  <2> HIDE DEF v
  <2>7. DOMAIN v.backends = 1 .. 2
        BY <2>6 DEF Worlds
  <2>8. ASSUME NEW d \in 1 .. 2
        PROVE  /\ v.backends[d].owner = "ssl" <=> v.sock.backend = d
               /\ v.backends[d].owner = "none" <=> v.backends[d].state = "free"
    <3>1. /\ w.backends[d].owner = "ssl" <=> w.sock.backend = d
          /\ w.backends[d].owner = "none" <=> w.backends[d].state = "free"
          BY <1>0 DEF BackendsHaveOneOwner
    <3>2. CASE d = b
          BY <2>5, <2>6, <3>2
    <3>3. CASE d # b
          BY <1>3, <2>6, <3>1, <3>3, BackendFacts
    <3> QED
        BY <3>2, <3>3
  <2>9. BackendsHaveOneOwner(v)
        BY <2>7, <2>8 DEF BackendsHaveOneOwner
  <2> QED
      BY <1>3, <2>2, <2>4, <2>6, <2>9 DEF x
<1> QED
    BY <1>1, <1>2, <1>3

\* Cleaning up the backend of the socket frees that one only.
LEMMA CleanupBackendFacts ==
    ASSUME NEW S, TlsSocks(S), NEW w \in Worlds(S), BackendsHaveOneOwner(w)
    PROVE  LET v == CleanupBackend(w) IN
           /\ v \in Worlds(S) /\ BackendsHaveOneOwner(v)
           /\ v.sock.backend = NULLSOCK
           /\ v = w \/ v.sock = [w.sock EXCEPT !.backend = NULLSOCK]
           /\ \A d \in 1 .. 2 : d # w.sock.backend => v.backends[d] = w.backends[d]
<1> DEFINE v == CleanupBackend(w)
           b == w.sock.backend
<1>0. b \in Handles /\ DOMAIN w.backends = 1 .. 2
      BY DEF Worlds, TlsSocks
<1>1. CASE b = NULLSOCK
      BY <1>1, BackendFacts DEF CleanupBackend
<1>2. CASE b # NULLSOCK
  <2>1. v = [w EXCEPT !.backends[b] = FreeBackend, !.sock.backend = NULLSOCK]
        BY <1>2 DEF CleanupBackend
  <2>2. b \in 1 .. 2
        BY <1>0, <1>2, BackendFacts
  <2> HIDE DEF b
  <2> DEFINE u == Owning(w, NULLSOCK, b, FreeBackend)
  <2>3. v = u
        BY <2>1, <2>2 DEF Worlds, Owning
  <2>8. /\ u \in Worlds(S) /\ u.sock = [w.sock EXCEPT !.backend = NULLSOCK]
        /\ u.sock.backend = NULLSOCK
        /\ \A d \in 1 .. 2 : u.backends[d] = IF d = b THEN FreeBackend ELSE w.backends[d]
    <3>1. NULLSOCK \in Handles /\ FreeBackend \in Backend
          BY BackendFacts
    <3> QED
        BY SMT, <2>2, <3>1, WorldWith
  <2> HIDE DEF u, v
  <2>4. /\ v \in Worlds(S) /\ v.sock = [w.sock EXCEPT !.backend = NULLSOCK]
        /\ v.sock.backend = NULLSOCK
        /\ \A d \in 1 .. 2 : v.backends[d] = IF d = b THEN FreeBackend ELSE w.backends[d]
        BY <2>3, <2>8
  <2>5. DOMAIN v.backends = 1 .. 2
        BY <2>4 DEF Worlds
  <2>6. ASSUME NEW d \in 1 .. 2
        PROVE  /\ v.backends[d].owner = "ssl" <=> v.sock.backend = d
               /\ v.backends[d].owner = "none" <=> v.backends[d].state = "free"
    <3>1. /\ w.backends[d].owner = "ssl" <=> w.sock.backend = d
          /\ w.backends[d].owner = "none" <=> w.backends[d].state = "free"
          BY <1>0 DEF BackendsHaveOneOwner
    <3>2. CASE d = b
          BY <2>4, <3>2, BackendFacts
    <3>3. CASE d # b
          BY <2>4, <3>1, <3>3, BackendFacts DEF b
    <3> QED
        BY <3>2, <3>3
  <2>7. BackendsHaveOneOwner(v)
        BY <2>5, <2>6 DEF BackendsHaveOneOwner
  <2> QED
      BY <2>4, <2>7 DEF b, v
<1> QED
    BY <1>1, <1>2

\* Closing it changes its state only.
LEMMA CloseBackendFacts ==
    ASSUME NEW S, TlsSocks(S), NEW w \in Worlds(S), BackendsHaveOneOwner(w)
    PROVE  LET v == CloseBackend(w) IN
           /\ v \in Worlds(S) /\ BackendsHaveOneOwner(v) /\ v.sock = w.sock
           /\ \A d \in 1 .. 2 : /\ v.backends[d].owner = w.backends[d].owner
                                /\ v.backends[d].timeout = w.backends[d].timeout
           /\ \A d \in 1 .. 2 : IF d = w.sock.backend THEN v.backends[d].state = "closed"
                                ELSE v.backends[d] = w.backends[d]
<1> DEFINE b == w.sock.backend
<1>0. b \in Handles /\ DOMAIN w.backends = 1 .. 2
      BY DEF Worlds, TlsSocks
<1>1. CASE b = NULLSOCK
      BY <1>1, BackendFacts DEF CloseBackend
<1>2. CASE b # NULLSOCK
  <2>1. CloseBackend(w) = [w EXCEPT !.backends[b].state = "closed"]
        BY <1>2 DEF CloseBackend
  <2>2. b \in 1 .. 2
        BY <1>0, <1>2, BackendFacts
  <2>3. w.backends[b].owner # "none"
        BY <1>0, <2>2 DEF BackendsHaveOneOwner
  <2>4. "closed" \in BackendStates /\ "closed" # "free"
        BY DEF BackendStates
  <2> DEFINE v == InState(w, b, "closed")
  <2>5. /\ v \in Worlds(S) /\ BackendsHaveOneOwner(v) /\ v.sock = w.sock
        /\ \A d \in 1 .. 2 : /\ v.backends[d].owner = w.backends[d].owner
                             /\ v.backends[d].timeout = w.backends[d].timeout
        /\ v.backends[b].state = "closed"
        /\ \A d \in 1 .. 2 : d # b => v.backends[d] = w.backends[d]
        BY SMTT(30), <2>2, <2>3, <2>4, WorldState
  <2>6. CloseBackend(w) = v
        BY <2>1 DEF InState
  <2> HIDE DEF v
  <2> QED
      BY <2>5, <2>6
<1> QED
    BY <1>1, <1>2

\* A backend with another owner
GiveTo(w, h, b, owner) == [w EXCEPT !.sock.backend = h, !.backends[b].owner = owner]

\* The backend of another owner: the socket takes over what is the
\* application's, or gives it back
LEMMA OwnerFacts ==
    ASSUME NEW S, TlsSocks(S), NEW w \in Worlds(S), BackendsHaveOneOwner(w),
           NEW b \in 1 .. 2, w.backends[b].state # "free",
           NEW owner \in Owners, NEW h \in Handles,
           \/ owner = "ssl" /\ h = b /\ w.sock.backend = NULLSOCK
           \/ owner = "app" /\ h = NULLSOCK /\ w.sock.backend = b
    PROVE  LET v == GiveTo(w, h, b, owner) IN
           /\ v \in Worlds(S) /\ BackendsHaveOneOwner(v)
           /\ v.sock = [w.sock EXCEPT !.backend = h] /\ v.sock.backend = h
           /\ \A d \in 1 .. 2 : /\ v.backends[d].state = w.backends[d].state
                                /\ v.backends[d].timeout = w.backends[d].timeout
           /\ v.backends[b].owner = owner
           /\ \A d \in 1 .. 2 : d # b => v.backends[d] = w.backends[d]
<1> DEFINE x == [w.backends[b] EXCEPT !.owner = owner]
           v == GiveTo(w, h, b, owner)
           u == Owning(w, h, b, x)
<1>1. w.backends[b] \in Backend /\ DOMAIN w.backends = 1 .. 2
      BY DEF Worlds
<1>2. x \in Backend
      BY <1>1 DEF Backend
<1>3. /\ x.owner = owner /\ x.state = w.backends[b].state
      /\ x.timeout = w.backends[b].timeout
      BY SMT, <1>1 DEF Backend
<1>4. v = u
      BY DEF Owning, GiveTo
<1> HIDE DEF x
<1>5. /\ u \in Worlds(S) /\ u.sock = [w.sock EXCEPT !.backend = h]
      /\ u.sock.backend = h
      /\ \A d \in 1 .. 2 : u.backends[d] = IF d = b THEN x ELSE w.backends[d]
      BY SMT, <1>2, WorldWith
<1> HIDE DEF u, v
<1>6. /\ v \in Worlds(S) /\ v.sock = [w.sock EXCEPT !.backend = h]
      /\ v.sock.backend = h
      /\ \A d \in 1 .. 2 : v.backends[d] = IF d = b THEN x ELSE w.backends[d]
      BY <1>4, <1>5
<1>7. DOMAIN v.backends = 1 .. 2
      BY <1>6 DEF Worlds
<1>8. ASSUME NEW d \in 1 .. 2
      PROVE  /\ v.backends[d].owner = "ssl" <=> v.sock.backend = d
             /\ v.backends[d].owner = "none" <=> v.backends[d].state = "free"
  <2>1. /\ w.backends[d].owner = "ssl" <=> w.sock.backend = d
        /\ w.backends[d].owner = "none" <=> w.backends[d].state = "free"
        BY <1>1 DEF BackendsHaveOneOwner
  <2>2. CASE d = b
        BY <1>3, <1>6, <2>2, BackendFacts
  <2>3. CASE d # b
        BY <1>6, <2>1, <2>3, BackendFacts
  <2> QED
      BY <2>2, <2>3
<1>9. BackendsHaveOneOwner(v)
      BY <1>7, <1>8 DEF BackendsHaveOneOwner
<1>10. \A d \in 1 .. 2 : /\ v.backends[d].state = w.backends[d].state
                        /\ v.backends[d].timeout = w.backends[d].timeout
      BY <1>3, <1>6
<1> QED
    BY <1>3, <1>6, <1>9, <1>10 DEF v

\* A new socket of the application
LEMMA AppSocketFacts ==
    ASSUME NEW S, TlsSocks(S), NEW w \in Worlds(S), BackendsHaveOneOwner(w),
           NEW b \in Unallocated(w), NEW state \in BackendStates, state # "free"
    PROVE  LET v == [w EXCEPT !.backends[b] = NewBackend("app", state)] IN
           /\ v \in Worlds(S) /\ BackendsHaveOneOwner(v) /\ v.sock = w.sock
           /\ \A d \in 1 .. 2 : \/ d = b /\ v.backends[d] = NewBackend("app", state)
                                \/ d # b /\ v.backends[d] = w.backends[d]
<1> DEFINE x == NewBackend("app", state)
           backends == [w.backends EXCEPT ![b] = x]
           v == [w EXCEPT !.backends[b] = x]
<1>1. /\ w.sock \in S /\ w.backends \in [1 .. 2 -> Backend]
      /\ b \in 1 .. 2 /\ w.backends[b].state = "free"
      BY DEF Worlds, Unallocated
<1>2. x \in Backend /\ x.owner = "app" /\ x.state = state
  <2>1. "app" \in Owners
        BY DEF Owners
  <2> QED
      BY <2>1, BackendFacts
<1> HIDE DEF x
<1>3. v \in Worlds(S)
      BY <1>1, <1>2 DEF Worlds
<1>4. v.sock = w.sock /\ v.backends = backends
      BY SMT, <1>1 DEF Worlds
<1>5. \A d \in 1 .. 2 : v.backends[d] = IF d = b THEN x ELSE w.backends[d]
      BY SMT, <1>1, <1>4
<1>6. DOMAIN v.backends = 1 .. 2 /\ DOMAIN w.backends = 1 .. 2
      BY <1>3 DEF Worlds
<1> HIDE DEF v
<1>7. ASSUME NEW d \in 1 .. 2
      PROVE  /\ v.backends[d].owner = "ssl" <=> v.sock.backend = d
             /\ v.backends[d].owner = "none" <=> v.backends[d].state = "free"
  <2>1. /\ w.backends[d].owner = "ssl" <=> w.sock.backend = d
        /\ w.backends[d].owner = "none" <=> w.backends[d].state = "free"
        BY <1>6 DEF BackendsHaveOneOwner
  <2>2. CASE d = b
        BY <1>1, <1>2, <1>4, <1>5, <2>1, <2>2
  <2>3. CASE d # b
        BY <1>4, <1>5, <2>1, <2>3
  <2> QED
      BY <2>2, <2>3
<1>8. BackendsHaveOneOwner(v)
      BY <1>6, <1>7 DEF BackendsHaveOneOwner
<1> QED
    BY <1>3, <1>4, <1>5, <1>8 DEF v, x

-----------------------------------------------------------------------------
(* tinyDTLS                                                                *)

\* The records of a socket over tinyDTLS.
TdRecords == [backend : Handles, exists : BOOLEAN, ctx : BOOLEAN, connected : BOOLEAN,
              psk : TdKeys \cup {NoPsk}]

\* v is a world that what happened to w may leave behind: the same socket
\* with the same key, every backend with one owner.
TdGood(v, w) ==
    /\ v \in Worlds(TdRecords) /\ BackendsHaveOneOwner(v)
    /\ v.sock.exists = w.sock.exists /\ v.sock.psk = w.sock.psk

\* They are those of a TLS socket.
LEMMA TdRecordFacts == TlsSocks(TdRecords)
<1> SUFFICES ASSUME NEW s \in TdRecords
             PROVE  /\ s.backend \in Handles /\ "backend" \in DOMAIN s
                    /\ \A b \in Handles : [s EXCEPT !.backend = b] \in TdRecords
    BY DEF TlsSocks
<1>1. s.backend \in Handles /\ "backend" \in DOMAIN s
      BY DEF TdRecords
<1>2. \A b \in Handles : [s EXCEPT !.backend = b] \in TdRecords
      BY DEF TdRecords
<1> QED BY <1>1, <1>2

\* Another backend leaves the rest of the record as it was.
LEMMA TdOtherBackend ==
    ASSUME NEW s \in TdRecords, NEW b
    PROVE  LET r == [s EXCEPT !.backend = b] IN
           /\ r.exists = s.exists /\ r.psk = s.psk
           /\ r.ctx = s.ctx /\ r.connected = s.connected
BY SMT DEF TdRecords

\* Setting the context and the connected flag
WithFlags(w, ctx, on) == [w EXCEPT !.sock.ctx = ctx, !.sock.connected = on]

\* The flags leave the key and the backends alone.
LEMMA TdFlags ==
    ASSUME NEW w \in Worlds(TdRecords), BackendsHaveOneOwner(w),
           NEW ctx \in BOOLEAN, NEW on \in BOOLEAN
    PROVE  LET v == WithFlags(w, ctx, on) IN
           /\ TdGood(v, w)
           /\ v.sock.ctx = ctx /\ v.sock.connected = on
           /\ v.sock.backend = w.sock.backend /\ v.backends = w.backends
<1> DEFINE sock == [w.sock EXCEPT !.ctx = ctx, !.connected = on]
           v == WithFlags(w, ctx, on)
<1>1. w.sock \in TdRecords
      BY DEF Worlds
<1>2. sock \in TdRecords
      BY <1>1 DEF TdRecords
<1>3. /\ sock.ctx = ctx /\ sock.connected = on /\ sock.backend = w.sock.backend
      /\ sock.exists = w.sock.exists /\ sock.psk = w.sock.psk
      BY SMT, <1>1 DEF TdRecords
<1>4. v.sock = sock /\ v.backends = w.backends
      BY SMT, <1>1 DEF Worlds, TdRecords, WithFlags
<1>5. v \in Worlds(TdRecords)
      BY <1>2 DEF Worlds, WithFlags
<1> HIDE DEF sock, v
<1>6. BackendsHaveOneOwner(v)
      BY <1>3, <1>4 DEF BackendsHaveOneOwner
<1> QED
    BY <1>3, <1>4, <1>5, <1>6 DEF TdGood, v

\* close_ssl_raw leaves the socket whole.
LEMMA TdCloseRawFacts ==
    ASSUME NEW w \in Worlds(TdRecords), BackendsHaveOneOwner(w)
    PROVE  TdGood(TdCloseRaw(w), w) /\ TdCloseRaw(w).sock.backend = w.sock.backend
<1> DEFINE u == WithFlags(w, FALSE, FALSE)
           v == CloseBackend(u)
<1>1. TdGood(u, w) /\ u.sock.backend = w.sock.backend
      BY TdFlags
<1> HIDE DEF u
<1>2. v \in Worlds(TdRecords) /\ BackendsHaveOneOwner(v) /\ v.sock = u.sock
      BY <1>1, TdRecordFacts, CloseBackendFacts DEF TdGood
<1> QED
    BY <1>1, <1>2 DEF TdGood, TdCloseRaw, u, WithFlags

\* A datagram ends the handshake well only if it completes it.
LEMMA HandleMessageFacts ==
    ASSUME NEW psk, NEW m, DtlsHandleMessage(psk, m) = "ok"
    PROVE  m.kind = "finished"
<1>1. CASE m.kind \notin HandshakeKinds
      BY <1>1 DEF DtlsHandleMessage, HandshakeKinds
<1>2. CASE m.kind = "done" /\ GetPskInfo(psk, PSK_ROOM) # "ok"
      BY <1>2 DEF DtlsHandleMessage, HandshakeKinds
<1>3. CASE /\ ~(m.kind \notin HandshakeKinds) /\ m.kind # "finished"
           /\ ~(m.kind = "done" /\ GetPskInfo(psk, PSK_ROOM) # "ok")
      BY <1>3 DEF DtlsHandleMessage
<1> QED
    BY <1>1, <1>2, <1>3

\* The server completes the handshake within the limit on exchanges.
TdFinished(peer) ==
    \E i \in 1 .. AVS_MIN(Len(peer), HANDSHAKE_EXCHANGES) : peer[i].kind = "finished"

\* ssl_handshake succeeds only if the server completed it, and then the
\* socket counts as connected.
LEMMA SslHandshakeFacts ==
    ASSUME NEW w \in Worlds(TdRecords), BackendsHaveOneOwner(w), NEW peer \in TdDatagrams
    PROVE  LET h == SslHandshake(w, peer, HANDSHAKE_EXCHANGES) IN
           /\ TdGood(h.w, w) /\ h.w.sock.ctx = w.sock.ctx
           /\ h.w.sock.backend = w.sock.backend /\ h.w.backends = w.backends
           /\ h.err = "ok" => h.w.sock.connected /\ TdFinished(peer)
<1> DEFINE h == SslHandshake(w, peer, HANDSHAKE_EXCHANGES)
           places == 1 .. AVS_MIN(Len(peer), HANDSHAKE_EXCHANGES)
           Ends(i) == DtlsHandleMessage(w.sock.psk, peer[i])
           ends == {i \in places : Ends(i) # ""}
           first == CHOOSE i \in ends : \A j \in ends : i <= j
           err == Ends(first)
           on == w.sock.connected \/ err = "ok"
           ctx == w.sock.ctx
           v == WithFlags(w, ctx, on)
<1>1. CASE ends = {}
  <2>1. h = TlsResult(w, "etimedout")
        BY <1>1 DEF SslHandshake
  <2>2. h.w = w /\ h.err = "etimedout"
        BY SMT, <2>1 DEF TlsResult
  <2> QED
      BY <2>2 DEF TdGood
<1>2. CASE ends # {}
  <2>1. first \in ends
    <3>1. ends \in SUBSET Nat
      <4>1. AVS_MIN(Len(peer), HANDSHAKE_EXCHANGES) \in Int
            BY SMT, TdAssumption DEF AVS_MIN
      <4>2. places \subseteq Nat
            BY SMT, <4>1
      <4> QED
          BY <4>2
    <3>2. \E i \in ends : \A j \in ends : i <= j
          BY <1>2, <3>1, SmallestNat
    <3> QED
        BY <3>2
  <2>2. first \in places /\ (err = "ok" => TdFinished(peer))
        BY <2>1, HandleMessageFacts DEF TdFinished
  <2>3. h = TlsResult([w EXCEPT !.sock.connected = on], err)
        BY <1>2 DEF SslHandshake
  <2>4. ctx \in BOOLEAN /\ w.sock.connected \in BOOLEAN /\ on \in BOOLEAN
        BY DEF Worlds, TdRecords
  <2> HIDE DEF places, ends, first, err, on
  <2>5. [w EXCEPT !.sock.connected = on] = v
    <3>1. w.sock \in TdRecords
          BY DEF Worlds
    <3>2. w.sock = [w.sock EXCEPT !.ctx = w.sock.ctx]
          BY <3>1 DEF TdRecords
    <3> QED
        BY <3>2 DEF Worlds, WithFlags
  <2>6. h.w = v /\ h.err = err
        BY SMT, <2>3, <2>5 DEF TlsResult
  <2> HIDE DEF ctx
  <2>7. /\ TdGood(v, w) /\ v.sock.ctx = ctx /\ v.sock.connected = on
        /\ v.sock.backend = w.sock.backend /\ v.backends = w.backends
        BY <2>4, TdFlags
  <2> HIDE DEF v, h
  <2>8. err = "ok" => on
        BY DEF on
  <2> QED
      BY <2>2, <2>6, <2>7, <2>8 DEF h, ctx
<1> QED
    BY <1>1, <1>2

\* The same of start_ssl.
LEMMA TdStartFacts ==
    ASSUME NEW w \in Worlds(TdRecords), BackendsHaveOneOwner(w),
           NEW sent \in BOOLEAN, NEW peer \in TdDatagrams
    PROVE  LET s == TdStartSsl(w, sent, peer) IN
           /\ TdGood(s.w, w)
           /\ s.w.sock.backend = w.sock.backend /\ s.w.backends = w.backends
           /\ s.err = "ok" => TdStarted(s.w) /\ TdFinished(peer)
<1> DEFINE s == TdStartSsl(w, sent, peer)
           h == SslHandshake(w, peer, HANDSHAKE_EXCHANGES)
<1>1. CASE ~w.sock.ctx \/ ~sent
  <2> DEFINE err == IF ~w.sock.ctx THEN "crash" ELSE "ebio"
  <2>1. s = TlsResult(w, err)
        BY <1>1 DEF TdStartSsl
  <2>2. err # "ok"
        OBVIOUS
  <2> HIDE DEF err
  <2>3. s.w = w /\ s.err = err
        BY SMT, <2>1 DEF TlsResult
  <2> QED
      BY <2>2, <2>3 DEF TdGood
<1>2. CASE w.sock.ctx /\ sent
  <2>1. s = h
        BY <1>2 DEF TdStartSsl
  <2> HIDE DEF h, s
  <2>2. /\ TdGood(h.w, w) /\ h.w.sock.ctx = w.sock.ctx
        /\ h.w.sock.backend = w.sock.backend /\ h.w.backends = w.backends
        /\ h.err = "ok" => h.w.sock.connected /\ TdFinished(peer)
        BY SslHandshakeFacts DEF h
  <2> QED
      BY <1>2, <2>1, <2>2 DEF TdStarted, s
<1> QED
    BY <1>1, <1>2

-----------------------------------------------------------------------------
(* tinyDTLS: the actions                                                   *)

\* What may come from the server,
TdKinds == {"data", "step", "alert", "refused"}
\* in datagrams of these.
TdMessages == [kind : TdKinds, size : TdSizes]

\* The inductive invariant: a socket that does not exist owns nothing.
TdInv ==
    /\ TdGood(td, td) /\ tdWire \in Seq(TdMessages)
    /\ td.sock.exists => td.sock.psk.psk # <<>>
    /\ ~td.sock.exists => td.sock.backend = NULLSOCK
    /\ TinydtlsCorrect

\* What a step has to establish: the world is what a socket may leave
\* behind, and the call is described by what it reports.
LEMMA TdStep ==
    ASSUME TdInv, TdGood(td', td), td.sock.exists, tdWire' = <<>>,
           tdCall'.op # "create", tdCall'.op # "receive",
           tdCall'.op = "connect" /\ tdCall'.err = "ok" =>
               tdCall'.finished /\ TdStarted(td)'
    PROVE  TdInv'
<1>1. TdGood(td, td)' /\ td'.sock.exists /\ td'.sock.psk.psk # <<>>
      BY DEF TdInv, TdGood
<1>2. TdNothingHalfMade'
      BY <1>1 DEF TdGood, TdNothingHalfMade
<1>3. TdConnectedMeansFinished' /\ TdReceivesOneDatagram'
      BY DEF TdConnectedMeansFinished, TdReceivesOneDatagram
<1>4. (tdWire \in Seq(TdMessages))'
      BY SMT
<1>5. /\ (td.sock.exists => td.sock.psk.psk # <<>>)'
      /\ (~td.sock.exists => td.sock.backend = NULLSOCK)'
      BY <1>1
<1> QED
    BY <1>1, <1>2, <1>3, <1>4, <1>5 DEF TdInv, TinydtlsCorrect

\* connect_ssl keeps TdInv: the backend is created, connected and, on a
\* failed handshake, closed again.
LEMMA TdConnectStep ==
    ASSUME TdInv, NEW reachable \in BOOLEAN, NEW sent \in BOOLEAN,
           NEW peer \in TdDatagrams, TdConnect(reachable, sent, peer)
    PROVE  TdInv'
<1> DEFINE e == EnsureHaveBackendSocket(td)
           b == e.w.sock.backend
           c == InState(e.w, b, "connected")
           s == TdStartSsl(c, sent, peer)
           r == IF TdStarted(td) THEN TlsResult(td, "eisconn")
                ELSE IF e.err # "ok" THEN TlsResult(e.w, "ebadf")
                ELSE IF e.w.backends[b].state \notin {"closed", "bound"} \/ ~reachable
                THEN TlsResult(e.w, "econnrefused")
                ELSE IF s.err # "ok" THEN TlsResult(TdCloseRaw(s.w), s.err)
                ELSE s
<1>1. /\ td' = r.w /\ tdWire' = <<>> /\ td.sock.exists
      /\ tdCall' = [op |-> "connect", err |-> r.err, finished |-> TdFinished(peer)]
      BY DEF TdConnect, ConnectSsl, InState, TdFinished
<1>2. td \in Worlds(TdRecords) /\ BackendsHaveOneOwner(td) /\ TdGood(td, td)
      BY DEF TdInv, TdGood
<1>3. /\ TdGood(e.w, td)
      /\ e.err = "ok" => b \in 1 .. 2
  <2> HIDE DEF b
  <2>1. /\ e.w \in Worlds(TdRecords) /\ BackendsHaveOneOwner(e.w)
        /\ e.err = "ok" => e.w.sock.backend \in 1 .. 2
        /\ e.w = td \/ e.w.sock = [td.sock EXCEPT !.backend = e.w.sock.backend]
        BY SMT, <1>2, TdRecordFacts, EnsureFacts
  <2>2. td.sock \in TdRecords
        BY <1>2 DEF Worlds
  <2> HIDE DEF e
  <2> DEFINE k == [td.sock EXCEPT !.backend = b]
  <2>4. k.exists = td.sock.exists /\ k.psk = td.sock.psk
        BY <2>2, TdOtherBackend
  <2>5. e.w = td \/ e.w.sock = k
        BY <2>1 DEF b
  <2> HIDE DEF k
  <2>3. e.w.sock.exists = td.sock.exists /\ e.w.sock.psk = td.sock.psk
        BY <2>4, <2>5
  <2> QED
      BY <2>1, <2>3 DEF TdGood, b
<1>4. ASSUME e.err = "ok"
      PROVE  /\ TdGood(s.w, td) /\ TdGood(TdCloseRaw(s.w), td)
             /\ s.err = "ok" => TdStarted(s.w) /\ TdFinished(peer)
  <2>1. e.w \in Worlds(TdRecords) /\ BackendsHaveOneOwner(e.w) /\ b \in 1 .. 2
        BY <1>3, <1>4 DEF TdGood
  <2>2. e.w.backends[b].owner # "none"
    <3>1. DOMAIN e.w.backends = 1 .. 2
          BY <2>1 DEF Worlds
    <3> QED
        BY <2>1, <3>1 DEF BackendsHaveOneOwner
  <2>3. "connected" \in BackendStates /\ "connected" # "free"
        BY DEF BackendStates
  <2> HIDE DEF e, b, s
  <2>4. c \in Worlds(TdRecords) /\ BackendsHaveOneOwner(c) /\ c.sock = e.w.sock
        BY SMT, <2>1, <2>2, <2>3, TdRecordFacts, WorldState
  <2> HIDE DEF c
  <2>5. TdGood(c, td)
        BY <1>3, <2>4 DEF TdGood
  <2>6. /\ TdGood(s.w, c)
        /\ s.err = "ok" => TdStarted(s.w) /\ TdFinished(peer)
        BY <2>4, TdStartFacts DEF s
  <2>7. TdGood(TdCloseRaw(s.w), s.w)
        BY <2>6, TdCloseRawFacts DEF TdGood
  <2> QED
      BY <2>5, <2>6, <2>7 DEF TdGood
<1> HIDE DEF e, b, c, s
<1>5. \/ r = TlsResult(td, "eisconn") \/ r = TlsResult(e.w, "ebadf")
      \/ r = TlsResult(e.w, "econnrefused")
      \/ e.err = "ok" /\ s.err # "ok" /\ r = TlsResult(TdCloseRaw(s.w), s.err)
      \/ e.err = "ok" /\ r = s
      OBVIOUS
<1> HIDE DEF r
<1>6. TdGood(r.w, td) /\ (r.err = "ok" => TdStarted(r.w) /\ TdFinished(peer))
  <2>1. CASE \E w, err : r = TlsResult(w, err) /\ TdGood(w, td) /\ err # "ok"
    <3>1. PICK w, err : r = TlsResult(w, err) /\ TdGood(w, td) /\ err # "ok"
          BY <2>1
    <3>2. r.w = w /\ r.err = err
          BY SMT, <3>1 DEF TlsResult
    <3> QED
        BY <3>1, <3>2
  <2>2. CASE e.err = "ok" /\ r = s
        BY <1>4, <2>2
  <2>3. "eisconn" # "ok" /\ "ebadf" # "ok" /\ "econnrefused" # "ok"
        OBVIOUS
  <2> QED
      BY <1>2, <1>3, <1>4, <1>5, <2>1, <2>2, <2>3
<1>7. /\ tdCall'.op = "connect" /\ tdCall'.err = r.err /\ tdCall'.finished = TdFinished(peer)
  <2> DEFINE f == TdFinished(peer)
  <2>1. tdCall' = [op |-> "connect", err |-> r.err, finished |-> f]
        BY <1>1
  <2> HIDE DEF f
  <2>2. tdCall'.op = "connect" /\ tdCall'.err = r.err /\ tdCall'.finished = f
        BY SMT, <2>1
  <2> QED
      BY <2>2 DEF f
<1>8. tdCall'.op # "create" /\ tdCall'.op # "receive"
      BY <1>7
<1>9. tdCall'.err = "ok" => tdCall'.finished /\ TdStarted(td)'
      BY <1>1, <1>6, <1>7 DEF TdStarted
<1>10. TdGood(td', td)
      BY <1>1, <1>6
<1> QED
    BY <1>1, <1>8, <1>9, <1>10, TdStep

\* decorate_ssl keeps TdInv: on a failure the caller has its socket back.
LEMMA TdDecorateStep ==
    ASSUME TdInv, NEW b \in DOMAIN td.backends, NEW peer \in TdDatagrams,
           TdDecorate(b, peer)
    PROVE  TdInv'
<1> DEFINE cleaned == CleanupBackend(td)
           taken == [cleaned EXCEPT !.sock.backend = b, !.backends[b].owner = "ssl"]
           s == IF td.backends[b].state \in {"connected", "accepted"}
                THEN TdStartSsl(taken, TRUE, peer) ELSE TlsResult(taken, "ok")
           dropped == [s.w EXCEPT !.sock.backend = NULLSOCK, !.backends[b].owner = "app"]
           r == IF TdStarted(td) THEN TlsResult(td, "eisconn")
                ELSE IF s.err # "ok" THEN TlsResult(TdCloseRaw(dropped), s.err)
                ELSE s
<1>1. /\ td' = r.w /\ tdWire' = <<>> /\ td.sock.exists /\ td.backends[b].owner = "app"
      /\ tdCall' = [op |-> "decorate", err |-> r.err]
      BY DEF TdDecorate, DecorateSsl
<1>2. /\ td \in Worlds(TdRecords) /\ BackendsHaveOneOwner(td) /\ TdGood(td, td)
      /\ b \in 1 .. 2
      BY DEF TdInv, TdGood, Worlds
<1>3. td.sock.backend # b /\ td.backends[b].state # "free"
      BY <1>1, <1>2 DEF BackendsHaveOneOwner
<1>4. /\ cleaned \in Worlds(TdRecords) /\ BackendsHaveOneOwner(cleaned)
      /\ cleaned.sock.backend = NULLSOCK /\ cleaned.backends[b].state # "free"
      /\ TdGood(cleaned, td)
  <2> DEFINE k == [td.sock EXCEPT !.backend = NULLSOCK]
  <2>1. /\ cleaned \in Worlds(TdRecords) /\ BackendsHaveOneOwner(cleaned)
        /\ cleaned.sock.backend = NULLSOCK /\ (cleaned = td \/ cleaned.sock = k)
        BY <1>2, TdRecordFacts, CleanupBackendFacts
  <2>4. cleaned.backends[b] = td.backends[b]
        BY <1>2, <1>3, TdRecordFacts, CleanupBackendFacts
  <2>2. td.sock \in TdRecords
        BY <1>2 DEF Worlds
  <2>3. k.exists = td.sock.exists /\ k.psk = td.sock.psk
        BY <2>2, TdOtherBackend
  <2> HIDE DEF k, cleaned
  <2> QED
      BY <1>3, <2>1, <2>3, <2>4 DEF TdGood
<1> HIDE DEF cleaned
<1>5. /\ TdGood(taken, td) /\ taken.sock.backend = b
      /\ taken.backends[b].owner = "ssl" /\ taken.backends[b].state # "free"
  <2> DEFINE k == [cleaned.sock EXCEPT !.backend = b]
             owner == "ssl"
             t == GiveTo(cleaned, b, b, owner)
  <2>1. owner \in Owners /\ owner = "ssl" /\ b \in Handles
        BY <1>2, BackendFacts DEF Owners
  <2> HIDE DEF owner
  <2>2. /\ t \in Worlds(TdRecords) /\ BackendsHaveOneOwner(t)
        /\ t.sock = k /\ t.sock.backend = b
        /\ t.backends[b].owner = owner
        /\ \A d \in 1 .. 2 : t.backends[d].state = cleaned.backends[d].state
        BY SMT, <1>2, <1>4, <2>1, TdRecordFacts, OwnerFacts
  <2>3. cleaned.sock \in TdRecords
        BY <1>4 DEF Worlds
  <2>4. k.exists = cleaned.sock.exists /\ k.psk = cleaned.sock.psk
        BY <2>3, TdOtherBackend
  <2>5. taken = t
        BY <2>1 DEF GiveTo
  <2> HIDE DEF k, t, taken
  <2> QED
      BY <1>2, <1>4, <2>1, <2>2, <2>4, <2>5 DEF TdGood
<1> HIDE DEF taken
<1>6. /\ TdGood(s.w, td) /\ s.w.sock.backend = b /\ s.w.backends[b].state # "free"
  <2>1. CASE td.backends[b].state \in {"connected", "accepted"}
    <3> DEFINE z == TdStartSsl(taken, TRUE, peer)
    <3>1. /\ TdGood(z.w, taken)
          /\ z.w.sock.backend = taken.sock.backend /\ z.w.backends = taken.backends
          BY <1>5, TdStartFacts DEF TdGood
    <3>2. s = z
          BY <2>1
    <3> HIDE DEF z, s
    <3> QED
        BY <1>5, <3>1, <3>2 DEF TdGood
  <2>2. CASE td.backends[b].state \notin {"connected", "accepted"}
    <3>1. s = TlsResult(taken, "ok")
          BY <2>2
    <3> HIDE DEF s
    <3>2. s.w = taken
          BY SMT, <3>1 DEF TlsResult
    <3> QED
        BY <1>5, <3>2
  <2> QED
      BY <2>1, <2>2
<1> HIDE DEF s
<1>7. TdGood(dropped, td)
  <2> DEFINE k == [s.w.sock EXCEPT !.backend = NULLSOCK]
             owner == "app"
             h == NULLSOCK
             u == s.w
             t == GiveTo(u, h, b, owner)
  <2>1. /\ owner \in Owners /\ owner = "app" /\ h \in Handles /\ h = NULLSOCK
        /\ u \in Worlds(TdRecords) /\ BackendsHaveOneOwner(u)
        /\ u.sock.backend = b /\ u.backends[b].state # "free"
        BY <1>6, BackendFacts DEF Owners, TdGood
  <2> HIDE DEF owner, h, u
  <2>2. /\ t \in Worlds(TdRecords) /\ BackendsHaveOneOwner(t)
        /\ t.sock = [u.sock EXCEPT !.backend = h]
        BY SMT, <1>2, <2>1, TdRecordFacts, OwnerFacts
  <2>3. s.w.sock \in TdRecords
        BY <1>6 DEF Worlds, TdGood
  <2>4. k.exists = s.w.sock.exists /\ k.psk = s.w.sock.psk
        BY <2>3, TdOtherBackend
  <2>5. dropped = t /\ t.sock = k
        BY <2>1, <2>2 DEF u, GiveTo
  <2> HIDE DEF k, t, dropped
  <2> QED
      BY <1>6, <2>2, <2>4, <2>5 DEF TdGood
<1> HIDE DEF dropped
<1>8. TdGood(TdCloseRaw(dropped), td)
      BY <1>7, TdCloseRawFacts DEF TdGood
<1>9. TdGood(r.w, td)
  <2>1. \/ r = TlsResult(td, "eisconn") \/ r = TlsResult(TdCloseRaw(dropped), s.err)
        \/ r = s
        OBVIOUS
  <2> HIDE DEF r
  <2>2. r.w = td \/ r.w = TdCloseRaw(dropped) \/ r = s
        BY SMT, <2>1 DEF TlsResult
  <2> QED
      BY <1>2, <1>6, <1>8, <2>2
<1> HIDE DEF r
<1>10. tdCall'.op = "decorate"
      BY SMT, <1>1
<1> QED
    BY <1>1, <1>9, <1>10, TdStep

\* close_ssl keeps TdInv.
LEMMA TdCloseStep == ASSUME TdInv, TdClose PROVE TdInv'
<1>1. /\ td' = TdCloseRaw(td) /\ tdCall' = TdNoCall /\ tdWire' = <<>> /\ td.sock.exists
      BY DEF TdClose
<1>2. TdGood(td', td)
      BY <1>1, TdCloseRawFacts DEF TdInv, TdGood
<1>3. tdCall'.op = "none"
      BY SMT, <1>1 DEF TdNoCall
<1> QED
    BY <1>1, <1>2, <1>3, TdStep

\* A new socket of the application keeps TdInv.
LEMMA TdAppSocketStep ==
    ASSUME TdInv, NEW state \in {"closed", "connected"}, TdAppSocket(state)
    PROVE  TdInv'
<1>1. PICK b \in Unallocated(td) : td' = [td EXCEPT !.backends[b] = NewBackend("app", state)]
      BY DEF TdAppSocket
<1>2. tdCall' = TdNoCall /\ tdWire' = tdWire
      BY DEF TdAppSocket
<1>3. td \in Worlds(TdRecords) /\ BackendsHaveOneOwner(td)
      BY DEF TdInv, TdGood
<1>4. state \in BackendStates /\ state # "free"
      BY DEF BackendStates
<1>5. td' \in Worlds(TdRecords) /\ BackendsHaveOneOwner(td') /\ td'.sock = td.sock
      BY SMT, <1>1, <1>3, <1>4, TdRecordFacts, AppSocketFacts
<1>6. tdCall'.op = "none"
      BY SMT, <1>2 DEF TdNoCall
<1>7. TdGood(td, td)'
      BY <1>5 DEF TdGood
<1>8. TinydtlsCorrect'
      BY <1>5, <1>6 DEF TdInv, TinydtlsCorrect, TdNothingHalfMade, TdConnectedMeansFinished,
                        TdReceivesOneDatagram
<1> QED
    BY <1>2, <1>5, <1>7, <1>8 DEF TdInv

\* The record of a socket that was not created, and of one that was.
LEMMA TdNoSockFacts ==
    /\ TdNoSock \in TdRecords /\ TdNoSock.backend = NULLSOCK /\ TdNoSock.exists = FALSE
    /\ \A psk \in TdKeys \cup {NoPsk} :
          LET s == TdSock(TRUE, psk) IN
          s \in TdRecords /\ s.backend = NULLSOCK /\ s.exists = TRUE /\ s.psk = psk
<1>1. ASSUME NEW psk \in TdKeys \cup {NoPsk}, NEW ctx \in BOOLEAN
      PROVE  LET s == TdSock(ctx, psk) IN
             s \in TdRecords /\ s.backend = NULLSOCK /\ s.exists = TRUE /\ s.psk = psk
  <2>1. TdSock(ctx, psk) \in TdRecords
        BY BackendFacts DEF TdSock, TdRecords
  <2>2. LET s == TdSock(ctx, psk) IN
        s.backend = NULLSOCK /\ s.exists = TRUE /\ s.psk = psk
        BY SMT DEF TdSock
  <2> QED
      BY <2>1, <2>2
<1> DEFINE s == TdSock(FALSE, NoPsk)
<1>2. s \in TdRecords /\ s.backend = NULLSOCK
      BY <1>1
<1> HIDE DEF s
<1>3. [s EXCEPT !.exists = FALSE] \in TdRecords
      BY <1>2 DEF TdRecords
<1>4. [s EXCEPT !.exists = FALSE].backend = NULLSOCK /\ [s EXCEPT !.exists = FALSE].exists = FALSE
      BY SMT, <1>2 DEF TdRecords
<1>5. /\ TdNoSock \in TdRecords /\ TdNoSock.backend = NULLSOCK /\ TdNoSock.exists = FALSE
      BY <1>3, <1>4 DEF TdNoSock, s
<1> QED
    BY <1>1, <1>5

\* A world in which nothing was the socket's, with another record
LEMMA TdOtherSock ==
    ASSUME NEW w \in Worlds(TdRecords), BackendsHaveOneOwner(w),
           w.sock.backend = NULLSOCK, NEW s \in TdRecords, s.backend = NULLSOCK
    PROVE  LET v == [w EXCEPT !.sock = s] IN
           v \in Worlds(TdRecords) /\ BackendsHaveOneOwner(v) /\ v.sock = s
<1> DEFINE v == [w EXCEPT !.sock = s]
<1>1. v \in Worlds(TdRecords)
      BY DEF Worlds
<1>2. v.sock = s /\ v.backends = w.backends
      BY SMT DEF Worlds
<1> HIDE DEF v
<1>3. BackendsHaveOneOwner(v)
      BY <1>2 DEF BackendsHaveOneOwner
<1> QED
    BY <1>1, <1>2, <1>3 DEF v

\* create_ssl_socket keeps TdInv: the socket has its whole key, or there is
\* none.
LEMMA TdCreateStep ==
    ASSUME TdInv, NEW udp \in BOOLEAN, NEW context \in BOOLEAN, NEW key \in TdKeys,
           NEW blocks \in 0 .. 2, NEW extra \in BOOLEAN, NEW mode \in {"psk", "certificate"},
           TdCreate(udp, context, mode, key, blocks, extra)
    PROVE  TdInv'
<1> DEFINE copied == TdConfigureSsl(mode, key, blocks, extra)
           r == InitializeTinydtls(udp, context, copied)
           Fail(err) == [sock |-> TdNoSock, err |-> err]
<1>1. /\ ~td.sock.exists /\ td' = [td EXCEPT !.sock = r.sock]
      /\ tdCall' = [op |-> "create", err |-> r.err, key |-> key]
      /\ tdWire' = tdWire
      BY DEF TdCreate
<1>2. copied.err = "ok" => copied.psk = key /\ key.psk # <<>>
  <2> DEFINE psk == PskCopy(NoPsk, key, blocks)
  <2>1. \/ psk = [psk |-> NoPsk, err |-> "einval"] \/ psk = [psk |-> NoPsk, err |-> "enomem"]
        \/ psk = [psk |-> key, err |-> "ok"] /\ key.psk # <<>>
        BY DEF PskCopy
  <2>2. \/ copied = [psk |-> NoPsk, err |-> "enotsup"] \/ copied = [psk |-> psk.psk, err |-> "epipe"]
        \/ copied = psk
        BY DEF TdConfigureSsl
  <2> HIDE DEF copied, psk
  <2> QED
      BY SMT, <2>1, <2>2
<1>3. \/ \E err : r = Fail(err) /\ err # "ok"
      \/ r = [sock |-> TdSock(TRUE, copied.psk), err |-> "ok"] /\ copied.err = "ok"
  <2>1. "enotsup" # "ok" /\ "enomem" # "ok"
        OBVIOUS
  <2> HIDE DEF copied
  <2> QED
      BY <2>1 DEF InitializeTinydtls, copied
<1> HIDE DEF copied, r
<1>4. /\ r.sock \in TdRecords /\ r.sock.backend = NULLSOCK
      /\ r.sock.exists => r.sock.psk.psk # <<>>
      /\ r.err = "ok" => r.sock.psk = key
  <2>1. CASE \E err : r = Fail(err) /\ err # "ok"
    <3>1. PICK err : r = Fail(err) /\ err # "ok"
          BY <2>1
    <3>2. r.sock = TdNoSock /\ r.err = err
          BY SMT, <3>1
    <3> QED
        BY <3>1, <3>2, TdNoSockFacts
  <2>2. CASE r = [sock |-> TdSock(TRUE, copied.psk), err |-> "ok"] /\ copied.err = "ok"
    <3> DEFINE z == TdSock(TRUE, copied.psk)
    <3>2. r = [sock |-> z, err |-> "ok"] /\ z = TdSock(TRUE, key)
          BY <1>2, <2>2
    <3> HIDE DEF z
    <3>3. r.sock = z /\ r.err = "ok"
          BY SMT, <3>2
    <3>1. r.sock = TdSock(TRUE, key) /\ r.err = "ok"
          BY <3>2, <3>3
    <3> QED
        BY <1>2, <2>2, <3>1, TdNoSockFacts
  <2> QED
      BY <1>3, <2>1, <2>2
<1>5. td \in Worlds(TdRecords) /\ BackendsHaveOneOwner(td) /\ td.sock.backend = NULLSOCK
      BY <1>1 DEF TdInv, TdGood
<1>6. td' \in Worlds(TdRecords) /\ BackendsHaveOneOwner(td') /\ td'.sock = r.sock
      BY <1>1, <1>4, <1>5, TdOtherSock
<1>7. tdCall'.op = "create" /\ tdCall'.err = r.err /\ tdCall'.key = key
      BY SMT, <1>1
<1>8. TinydtlsCorrect'
      BY <1>4, <1>6, <1>7 DEF TinydtlsCorrect, TdNothingHalfMade,
                              TdConnectedMeansFinished, TdReceivesOneDatagram
<1>9. TdGood(td, td)'
      BY <1>6 DEF TdGood
<1> QED
    BY <1>1, <1>4, <1>6, <1>8, <1>9 DEF TdInv

\* cleanup_ssl keeps TdInv: nothing is left that the socket owned.
LEMMA TdCleanupStep == ASSUME TdInv, TdCleanup PROVE TdInv'
<1> DEFINE u == TdCloseRaw(td)
           v == CleanupBackend(u)
<1>1. /\ td' = [v EXCEPT !.sock = TdNoSock] /\ tdCall' = TdNoCall /\ tdWire' = <<>>
      BY DEF TdCleanup
<1>2. u \in Worlds(TdRecords) /\ BackendsHaveOneOwner(u)
      BY TdCloseRawFacts DEF TdInv, TdGood
<1> HIDE DEF u
<1>3. /\ v \in Worlds(TdRecords) /\ BackendsHaveOneOwner(v) /\ v.sock.backend = NULLSOCK
      BY <1>2, TdRecordFacts, CleanupBackendFacts
<1> HIDE DEF v
<1>4. td' \in Worlds(TdRecords) /\ BackendsHaveOneOwner(td') /\ td'.sock = TdNoSock
      BY <1>1, <1>3, TdNoSockFacts, TdOtherSock
<1>5. td'.sock.exists = FALSE /\ td'.sock.backend = NULLSOCK
      BY <1>4, TdNoSockFacts
<1>6. tdCall'.op = "none"
      BY SMT, <1>1 DEF TdNoCall
<1>7. tdWire' \in Seq(TdMessages)
      BY SMT, <1>1
<1>8. TinydtlsCorrect'
      BY <1>4, <1>5, <1>6 DEF TinydtlsCorrect, TdNothingHalfMade,
                              TdConnectedMeansFinished, TdReceivesOneDatagram
<1>9. TdGood(td, td)'
      BY <1>4 DEF TdGood
<1> QED
    BY <1>5, <1>7, <1>8, <1>9 DEF TdInv

\* A datagram of the server keeps TdInv.
LEMMA TdPeerSendsStep ==
    ASSUME TdInv, NEW kind \in TdKinds, NEW n \in TdSizes, TdPeerSends(TdMessage(kind, n))
    PROVE  TdInv'
<1>1. /\ tdWire' = Append(tdWire, TdMessage(kind, n)) /\ tdCall' = TdNoCall /\ td' = td
      BY DEF TdPeerSends
<1>2. TdMessage(kind, n) \in TdMessages
      BY DEF TdMessage, TdMessages
<1>3. tdWire' \in Seq(TdMessages)
      BY SMT, <1>1, <1>2 DEF TdInv
<1>4. tdCall'.op = "none"
      BY SMT, <1>1 DEF TdNoCall
<1>5. TinydtlsCorrect'
      BY <1>1, <1>4 DEF TdInv, TinydtlsCorrect, TdNothingHalfMade, TdConnectedMeansFinished,
                        TdReceivesOneDatagram
<1> QED
    BY <1>1, <1>3, <1>5 DEF TdInv, TdGood

\* What a receive makes of the datagrams in flight
LEMMA TdReceiveFacts ==
    ASSUME NEW on \in BOOLEAN, NEW wire \in Seq(TdMessages), NEW len \in TdSizes
    PROVE  LET r == TdReceiveSsl(on, wire, len) IN
           /\ r.connected \in BOOLEAN /\ r.wire \in Seq(TdMessages)
           /\ wire # <<>> => r.wire = Tail(wire)
           /\ r.out # UNSET => r.out + RECORD_OVERHEAD = Head(wire).size
           /\ r.out <= len
<1> DEFINE r == TdReceiveSsl(on, wire, len)
           m == Head(wire)
           Is(err, out, c, rest) == [err |-> err, out |-> out, wire |-> rest, connected |-> c]
<1> SUFFICES /\ r.connected \in BOOLEAN /\ r.wire \in Seq(TdMessages)
             /\ wire # <<>> => r.wire = Tail(wire)
             /\ r.out # UNSET => r.out + RECORD_OVERHEAD = m.size
             /\ r.out <= len
    OBVIOUS
<1>1. len \in Nat /\ UNSET <= len
      BY SMT, TdAssumption DEF UNSET
<1>2. CASE wire = <<>>
  <2>1. r = Is("etimedout", UNSET, on, wire)
        BY <1>2 DEF TdReceiveSsl
  <2> HIDE DEF r
  <2>2. r.connected = on /\ r.wire = wire /\ r.out = UNSET
        BY SMT, <2>1
  <2> QED
      BY <1>1, <1>2, <2>2
<1>3. CASE wire # <<>>
  <2> DEFINE rest == Tail(wire)
             alive == m.kind # "alert"
  <2>1. m \in TdMessages /\ rest \in Seq(TdMessages)
        BY SMT, <1>3
  <2>2. m.size \in Nat
        BY <2>1, TdAssumption DEF TdMessages
  <2> DEFINE size == m.size - RECORD_OVERHEAD
  <2>3. \/ \E err : \E c \in BOOLEAN : r = Is(err, UNSET, c, rest)
        \/ r = Is("ok", size, on, rest) /\ ~(m.size > len)
        \/ r = [Is("ok", UNSET, on, rest) EXCEPT !.connected = alive]
    <3>1. CASE m.size > len
          BY <1>3, <3>1 DEF TdReceiveSsl
    <3>2. CASE ~(m.size > len) /\ m.kind = "refused"
          BY <1>3, <3>2 DEF TdReceiveSsl
    <3>3. CASE ~(m.size > len) /\ m.kind = "data"
          BY <1>3, <3>3 DEF TdReceiveSsl
    <3>4. CASE ~(m.size > len) /\ m.kind # "refused" /\ m.kind # "data"
          BY <1>3, <3>4 DEF TdReceiveSsl
    <3> QED
        BY <3>1, <3>2, <3>3, <3>4
  <2>6. size + RECORD_OVERHEAD = m.size /\ (~(m.size > len) => size <= len)
    <3> HIDE DEF m
    <3> QED BY SMT, <1>1, <2>2 DEF RECORD_OVERHEAD
  <2>8. alive \in BOOLEAN
        OBVIOUS
  <2> HIDE DEF r, rest, m, size, alive
  <2>4. CASE \E err : \E c \in BOOLEAN : r = Is(err, UNSET, c, rest)
    <3>1. PICK err : \E c \in BOOLEAN : r = Is(err, UNSET, c, rest)
          BY <2>4
    <3>3. PICK c \in BOOLEAN : r = Is(err, UNSET, c, rest)
          BY <3>1
    <3>2. r.connected = c /\ r.wire = rest /\ r.out = UNSET
          BY SMT, <3>3
    <3> QED
        BY <1>1, <2>1, <3>2 DEF rest
  <2>5. CASE r = Is("ok", size, on, rest) /\ ~(m.size > len)
    <3>2. r.connected = on /\ r.wire = rest /\ r.out = size
          BY SMT, <2>5
    <3> QED
        BY <2>1, <2>5, <2>6, <3>2 DEF rest, m
  <2>7. CASE r = [Is("ok", UNSET, on, rest) EXCEPT !.connected = alive]
    <3>2. r.connected = alive /\ r.wire = rest /\ r.out = UNSET
          BY SMT, <2>7
    <3> QED
        BY <1>1, <2>1, <2>8, <3>2 DEF rest
  <2> QED
      BY <2>3, <2>4, <2>5, <2>7
<1> QED
    BY <1>2, <1>3

\* receive_ssl keeps TdInv.
LEMMA TdReceiveStep == ASSUME TdInv, NEW len \in TdSizes, TdReceive(len) PROVE TdInv'
<1> DEFINE r == TdReceiveSsl(td.sock.connected, tdWire, len)
           ctx == td.sock.ctx
           on == r.connected
           v == WithFlags(td, ctx, on)
<1>1. /\ tdWire' = r.wire /\ td' = [td EXCEPT !.sock.connected = r.connected]
      /\ tdCall' = [op |-> "receive", err |-> r.err, out |-> r.out, len |-> len,
                    wire |-> tdWire]
      BY DEF TdReceive
<1>2. /\ td \in Worlds(TdRecords) /\ BackendsHaveOneOwner(td) /\ td.sock \in TdRecords
      /\ td.sock.connected \in BOOLEAN /\ ctx \in BOOLEAN
      BY DEF TdInv, TdGood, Worlds, TdRecords
<1>3. /\ on \in BOOLEAN /\ r.wire \in Seq(TdMessages)
      /\ tdWire # <<>> => r.wire = Tail(tdWire)
      /\ r.out # UNSET => r.out + RECORD_OVERHEAD = Head(tdWire).size
      /\ r.out <= len
      BY <1>2, TdReceiveFacts DEF TdInv
<1> HIDE DEF r
<1>4. td' = v
  <2>1. td.sock = [td.sock EXCEPT !.ctx = td.sock.ctx]
        BY <1>2 DEF TdRecords
  <2> QED
      BY <1>1, <1>2, <2>1 DEF WithFlags, Worlds
<1> HIDE DEF ctx, on
<1>5. TdGood(v, td) /\ v.sock.backend = td.sock.backend
  <2>1. td \in Worlds(TdRecords) /\ BackendsHaveOneOwner(td) /\ ctx \in BOOLEAN /\ on \in BOOLEAN
        BY <1>2, <1>3
  <2> QED
      BY <2>1, TdFlags
<1> HIDE DEF v
<1>6. /\ tdCall'.op = "receive" /\ tdCall'.out = r.out /\ tdCall'.len = len
      /\ tdCall'.wire = tdWire
      BY SMT, <1>1
<1>7. TdNothingHalfMade'
      BY <1>4, <1>5, <1>6 DEF TdInv, TdGood, TdNothingHalfMade
<1>8. TdConnectedMeansFinished' /\ TdReceivesOneDatagram'
      BY <1>1, <1>3, <1>6 DEF TdConnectedMeansFinished, TdReceivesOneDatagram
<1> QED
    BY <1>1, <1>3, <1>4, <1>5, <1>7, <1>8 DEF TdInv, TdGood, TinydtlsCorrect

\* TinydtlsCorrect: whatever the server sends and whichever allocation,
\* connect or send fails, every backend socket has one owner, a socket that
\* exists has its whole key, a successful connect has completed the
\* handshake within the limit on exchanges, and a receive takes exactly one
\* datagram and reports no more bytes than the buffer holds.
THEOREM TinydtlsAlwaysCorrect == TdSpec => []TinydtlsCorrect
<1>1. TdInit => TdInv
  <2> SUFFICES ASSUME TdInit PROVE TdInv
      OBVIOUS
  <2> DEFINE backends == [b \in 1 .. 2 |-> FreeBackend]
             w == [sock |-> TdNoSock, backends |-> backends]
  <2>1. td = w /\ tdWire = <<>> /\ tdCall = TdNoCall
        BY DEF TdInit
  <2>2. backends \in [1 .. 2 -> Backend]
        BY BackendFacts
  <2>3. w \in Worlds(TdRecords)
        BY <2>2, TdNoSockFacts DEF Worlds
  <2>4. \A b \in 1 .. 2 : backends[b] = FreeBackend
        OBVIOUS
  <2> HIDE DEF backends
  <2>5. w.sock = TdNoSock /\ w.backends = backends
        BY SMT
  <2> HIDE DEF w
  <2>6. DOMAIN w.backends = 1 .. 2
        BY <2>2, <2>5
  <2>7. BackendsHaveOneOwner(w)
        BY <2>4, <2>5, <2>6, BackendFacts, TdNoSockFacts DEF BackendsHaveOneOwner
  <2>8. tdCall.op = "none"
        BY SMT, <2>1 DEF TdNoCall
  <2>9. tdWire \in Seq(TdMessages)
        BY SMT, <2>1
  <2>10. TdGood(td, td) /\ ~td.sock.exists /\ td.sock.backend = NULLSOCK
        BY <2>1, <2>3, <2>5, <2>7, TdNoSockFacts DEF TdGood
  <2>11. TinydtlsCorrect
        BY <2>8, <2>10 DEF TdGood, TinydtlsCorrect, TdNothingHalfMade,
                           TdConnectedMeansFinished, TdReceivesOneDatagram
  <2> QED
      BY <2>9, <2>10, <2>11 DEF TdInv
<1>2. TdInv /\ [TdNext]_tdVars => TdInv'
  <2> SUFFICES ASSUME TdInv, [TdNext]_tdVars PROVE TdInv'
      OBVIOUS
  <2>1. CASE TdNext
    <3>1. "data" \in TdKinds
          BY DEF TdKinds
    <3> QED
        BY <2>1, TdCreateStep, TdConnectStep, TdDecorateStep, TdAppSocketStep,
           TdCloseStep, TdCleanupStep, TdPeerSendsStep, TdReceiveStep DEF TdNext, TdKinds
  <2>2. CASE UNCHANGED tdVars
        BY <2>2 DEF tdVars, TdInv, TdGood, TinydtlsCorrect, TdNothingHalfMade,
                    TdConnectedMeansFinished, TdReceivesOneDatagram, TdStarted
  <2> QED
      BY <2>1, <2>2
<1>3. TdInv => TinydtlsCorrect
      BY DEF TdInv
<1> QED
    BY <1>1, <1>2, <1>3, PTL DEF TdSpec

-----------------------------------------------------------------------------
(* OpenSSL: the retransmission timer                                       *)

\* What a timer is, by the one before it
TimerStep(c, f, k) ==
    IF k = 0 THEN [next |-> 0, blocked |-> FALSE] ELSE DtlsTimerCb(c, f[k - 1].next)

\* The recurrence of the timers has a solution: were there a number of
\* retransmissions without one, there would be a smallest.
LEMMA TimersExist ==
    ASSUME NEW c, NEW n \in Nat
    PROVE  \E f : f = [k \in 0 .. n |-> TimerStep(c, f, k)]
<1> DEFINE Exists(m) == \E f : f = [k \in 0 .. m |-> TimerStep(c, f, k)]
           P == {m \in Nat : ~Exists(m)}
<1> SUFFICES P = {}
    OBVIOUS
<1> SUFFICES ASSUME P # {} PROVE FALSE
    OBVIOUS
<1>1. PICK m \in P : \A j \in P : m <= j
      BY SmallestNat
<1>2. CASE m = 0
  <2> DEFINE f == [k \in 0 .. 0 |-> [next |-> 0, blocked |-> FALSE]]
  <2>1. \A k \in 0 .. 0 : f[k] = TimerStep(c, f, k)
        BY SMT DEF TimerStep
  <2>2. f = [k \in 0 .. 0 |-> f[k]]
        OBVIOUS
  <2>3. f = [k \in 0 .. 0 |-> TimerStep(c, f, k)]
        BY <2>1, <2>2
  <2> QED
      BY <1>2, <2>3
<1>3. CASE m # 0
  <2>1. m \in Nat /\ m - 1 \in Nat /\ ~(m <= m - 1) /\ 0 .. (m - 1) \subseteq 0 .. m
        BY SMT, <1>3
  <2>2. m - 1 \notin P
        BY <1>1, <2>1
  <2>3. PICK g : g = [k \in 0 .. (m - 1) |-> TimerStep(c, g, k)]
        BY <2>1, <2>2
  <2> DEFINE f == [k \in 0 .. m |-> IF k = m THEN TimerStep(c, g, m) ELSE g[k]]
  <2>4. ASSUME NEW k \in 0 .. m PROVE f[k] = TimerStep(c, f, k)
    <3>1. CASE k = m
      <4>1. m # 0 /\ m - 1 \in 0 .. m /\ m - 1 # m /\ k # 0
            BY SMT, <1>3, <3>1
      <4>2. f[m - 1] = g[m - 1]
            BY <4>1
      <4>3. f[k] = TimerStep(c, g, m)
            BY <3>1
      <4> HIDE DEF f
      <4> QED
          BY <3>1, <4>1, <4>2, <4>3 DEF TimerStep
    <3>2. CASE k # m
      <4>1. k \in 0 .. (m - 1) /\ (k # 0 => k - 1 \in 0 .. m /\ k - 1 # m)
            BY SMT, <3>2
      <4>2. f[k] = g[k] /\ g[k] = TimerStep(c, g, k)
            BY <2>3, <3>2, <4>1
      <4>3. k # 0 => f[k - 1] = g[k - 1]
            BY <4>1
      <4> HIDE DEF f
      <4> QED
          BY <4>2, <4>3 DEF TimerStep
    <3> QED
        BY <3>1, <3>2
  <2>5. f = [k \in 0 .. m |-> f[k]]
        OBVIOUS
  <2> HIDE DEF f
  <2>6. f = [k \in 0 .. m |-> TimerStep(c, f, k)]
        BY <2>4, <2>5
  <2> QED
      BY <2>6
<1> QED
    BY <1>2, <1>3

\* DtlsTimers is that solution.
LEMMA DtlsTimersFacts ==
    ASSUME NEW c, NEW n \in Nat, NEW k \in 0 .. n
    PROVE  DtlsTimers(c, n)[k] = TimerStep(c, DtlsTimers(c, n), k)
<1> DEFINE t == DtlsTimers(c, n)
<1>1. t = [i \in 0 .. n |-> TimerStep(c, t, i)]
      BY TimersExist DEF DtlsTimers, TimerStep
<1> HIDE DEF t
<1> QED
    BY <1>1 DEF t

\* What dtls_timer_cb returns.
LEMMA DtlsTimerCbFacts ==
    ASSUME NEW c \in OsConfigs, NEW u \in Nat
    PROVE  LET t == DtlsTimerCb(c, u) IN
           /\ t.next \in Nat /\ t.blocked \in BOOLEAN
           /\ u = 0 => ~t.blocked /\ t.next = c.min_us
           /\ u # 0 => /\ (t.blocked <=> u >= c.max_us)
                       /\ ~t.blocked => t.next = AVS_MIN(2 * u, c.max_us) /\ t.next > 0
<1> DEFINE t == DtlsTimerCb(c, u)
           doubled == IF u <= UINT_MAX \div 2 THEN u * 2 ELSE UINT_MAX
<1>1. UINT_MAX \in Nat /\ c.min_us \in Nat /\ c.max_us \in 0 .. UINT_MAX
      BY OsAssumption
<1> DEFINE max == c.max_us
           min == c.min_us
<1> HIDE DEF max, min
<1>2. UINT_MAX \in Nat /\ min \in Nat /\ max \in 0 .. UINT_MAX
      BY <1>1 DEF max, min
<1>3. /\ doubled \in Nat
      /\ u # 0 /\ u < max => /\ AVS_MIN(doubled, max) = AVS_MIN(2 * u, max)
                             /\ AVS_MIN(doubled, max) > 0 /\ AVS_MIN(doubled, max) \in Nat
      BY SMT, <1>2 DEF AVS_MIN
<1> DEFINE next == AVS_MIN(doubled, max)
<1>4. CASE u = 0
  <2>1. t = [next |-> min, blocked |-> FALSE]
        BY <1>4 DEF DtlsTimerCb, min
  <2>2. t.next = min /\ t.blocked = FALSE
        BY SMT, <2>1
  <2> QED
      BY <1>2, <1>4, <2>2 DEF min
<1>5. CASE u # 0 /\ u >= max
  <2>1. t = [next |-> 0, blocked |-> TRUE]
        BY <1>5 DEF DtlsTimerCb, max
  <2>2. t.next = 0 /\ t.blocked = TRUE /\ 0 \in Nat
        BY SMT, <2>1
  <2> QED
      BY <1>5, <2>2 DEF max
<1>6. CASE u # 0 /\ ~(u >= max)
  <2>1. t = [next |-> next, blocked |-> FALSE]
        BY <1>6 DEF DtlsTimerCb, max
  <2>2. u < max
        BY SMT, <1>2, <1>6
  <2> HIDE DEF next
  <2>3. t.next = next /\ t.blocked = FALSE
        BY SMT, <2>1
  <2> QED
      BY <1>3, <1>6, <2>2, <2>3 DEF max, next
<1> QED
    BY <1>4, <1>5, <1>6

\* Timers are numbers.
LEMMA TimerTypes ==
    ASSUME NEW c \in OsConfigs, NEW n \in Nat, NEW k \in 0 .. n
    PROVE  DtlsTimers(c, n)[k].next \in Nat
<1> DEFINE t == DtlsTimers(c, n)
           P == {i \in 0 .. n : t[i].next \notin Nat}
<1> SUFFICES ASSUME P # {} PROVE FALSE
    OBVIOUS
<1>1. P \in SUBSET Nat
      BY SMT
<1>2. PICK m \in P : \A j \in P : m <= j
      BY <1>1, SmallestNat
<1>3. t[m] = TimerStep(c, t, m)
      BY DtlsTimersFacts
<1> HIDE DEF t
<1>4. CASE m = 0
  <2>1. t[m] = [next |-> 0, blocked |-> FALSE]
        BY <1>3, <1>4 DEF TimerStep
  <2> QED
      BY SMT, <2>1
<1>5. CASE m # 0
  <2>1. m - 1 \in 0 .. n /\ ~(m <= m - 1)
        BY SMT, <1>5
  <2>2. t[m - 1].next \in Nat
        BY <1>2, <2>1
  <2>3. t[m] = DtlsTimerCb(c, t[m - 1].next)
        BY <1>3, <1>5 DEF TimerStep
  <2>4. t[m].next \in Nat
        BY <2>2, <2>3, DtlsTimerCbFacts
  <2> QED
      BY <2>4
<1> QED
    BY <1>4, <1>5

\* The waits of a handshake double up to the maximum.
BacksOff(c, w) ==
    \A i \in DOMAIN w :
        w[i] = IF i = 1 THEN c.min_us ELSE AVS_MIN(2 * w[i - 1], c.max_us)

\* The waits of a handshake, and when it is given up.
LEMMA RetransmitFacts ==
    ASSUME NEW c \in OsConfigs, NEW n \in Nat
    PROVE  LET r == Retransmit(c, n) IN
           /\ r.blocked \in BOOLEAN /\ BacksOff(c, r.waited)
           /\ r.blocked => r.waited # <<>> /\ r.waited[Len(r.waited)] >= c.max_us
<1> DEFINE t == DtlsTimers(c, n)
           stops == {k \in 1 .. n : t[k].blocked}
           first == CHOOSE k \in stops : \A j \in stops : k <= j
           last == IF stops = {} THEN n ELSE first
           w == [i \in 1 .. last - 1 |-> t[i].next]
           r == Retransmit(c, n)
<1>1. r = [blocked |-> stops # {}, waited |-> w]
      BY DEF Retransmit
<1>2. \A k \in 0 .. n : t[k].next \in Nat
      BY TimerTypes
<1>3. ASSUME NEW k \in 1 .. n
      PROVE  /\ k = 1 => t[k] = DtlsTimerCb(c, 0)
             /\ k # 1 => t[k] = DtlsTimerCb(c, t[k - 1].next) /\ k - 1 \in 1 .. n
  <2>1. k \in 0 .. n /\ k - 1 \in 0 .. n /\ k # 0 /\ 0 \in 0 .. n
        BY SMT
  <2>2. t[k] = DtlsTimerCb(c, t[k - 1].next)
        BY <2>1, DtlsTimersFacts DEF TimerStep
  <2>3. t[0] = [next |-> 0, blocked |-> FALSE]
        BY <2>1, DtlsTimersFacts DEF TimerStep
  <2> HIDE DEF t
  <2>4. t[0].next = 0
        BY SMT, <2>3
  <2>5. k = 1 => k - 1 = 0
        BY SMT
  <2>6. k # 1 => k - 1 \in 1 .. n
        BY SMT
  <2> QED
      BY <2>2, <2>4, <2>5, <2>6
<1> HIDE DEF t
<1>4. \A k \in 1 .. n : t[k].next \in Nat
  <2>1. 1 .. n \subseteq 0 .. n
        BY SMT
  <2> QED
      BY <1>2, <2>1
<1>5. /\ 1 \in 1 .. n => ~t[1].blocked /\ t[1].next = c.min_us
      /\ \A k \in 1 .. n : k # 1 =>
            LET u == t[k - 1].next IN
            /\ t[k].blocked => u >= c.max_us
            /\ ~t[k].blocked /\ u # 0 => t[k].next = AVS_MIN(2 * u, c.max_us) /\ t[k].next > 0
            /\ ~t[k].blocked /\ u = 0 => t[k].next = c.min_us
  <2>1. 0 \in Nat
        BY SMT
  <2>2. 1 \in 1 .. n => ~t[1].blocked /\ t[1].next = c.min_us
        BY <1>3, <2>1, DtlsTimerCbFacts
  <2>3. ASSUME NEW k \in 1 .. n, k # 1
        PROVE  LET u == t[k - 1].next IN
               /\ t[k].blocked => u >= c.max_us
               /\ ~t[k].blocked /\ u # 0 =>
                     t[k].next = AVS_MIN(2 * u, c.max_us) /\ t[k].next > 0
               /\ ~t[k].blocked /\ u = 0 => t[k].next = c.min_us
    <3> DEFINE u == t[k - 1].next
    <3>1. u \in Nat /\ t[k] = DtlsTimerCb(c, u)
          BY <1>3, <1>4, <2>3
    <3> HIDE DEF u
    <3>2. /\ t[k].blocked => u >= c.max_us
          /\ ~t[k].blocked /\ u # 0 =>
                t[k].next = AVS_MIN(2 * u, c.max_us) /\ t[k].next > 0
          /\ ~t[k].blocked /\ u = 0 => t[k].next = c.min_us
          BY <3>1, DtlsTimerCbFacts
    <3> QED
        BY <3>2 DEF u
  <2> QED
      BY <2>2, <2>3
<1>6. /\ last \in Nat /\ 1 .. last - 1 \subseteq 1 .. n
      /\ \A i \in 1 .. last - 1 : ~t[i].blocked
      /\ stops # {} => last \in 1 .. n /\ t[last].blocked
  <2>1. CASE stops = {}
    <3>1. 1 .. n - 1 \subseteq 1 .. n
          BY SMT
    <3> QED
        BY <2>1, <3>1
  <2>2. CASE stops # {}
    <3>1. stops \in SUBSET Nat
          BY SMT
    <3>2. first \in stops /\ \A j \in stops : first <= j
          BY <2>2, <3>1, SmallestNat
    <3>3. last = first
          BY <2>2
    <3> HIDE DEF first
    <3>4. last \in 1 .. n /\ t[last].blocked
          BY <3>2, <3>3
    <3> HIDE DEF last
    <3>5. last \in Nat /\ 1 .. last - 1 \subseteq 1 .. n
          BY SMT, <3>4
    <3>6. \A i \in 1 .. last - 1 : ~(last <= i)
          BY SMT, <3>5
    <3> QED
        BY <3>2, <3>3, <3>4, <3>5, <3>6
  <2> QED
      BY <2>1, <2>2
<1>7. r.blocked = (stops # {}) /\ r.waited = w
  <2> HIDE DEF w, stops, r
  <2> QED
      BY SMT, <1>1
<1> HIDE DEF first, last, stops, r
<1>8. \A i \in 1 .. last - 1 : w[i] = t[i].next
      OBVIOUS
<1>9. DOMAIN w = 1 .. last - 1 /\ (last # 0 => Len(w) = last - 1)
  <2> DEFINE m == last - 1
             v == [i \in 1 .. m |-> t[i].next]
  <2>1. last # 0 => m \in Nat
        BY SMT, <1>6
  <2>2. w = v /\ DOMAIN w = 1 .. last - 1
        OBVIOUS
  <2> HIDE DEF m
  <2>3. m \in Nat => Len(v) = m
        BY SMT
  <2> HIDE DEF v, w
  <2> QED
      BY <2>1, <2>2, <2>3 DEF m
<1>10. ASSUME NEW i \in 1 .. last - 1
       PROVE  w[i] = IF i = 1 THEN c.min_us ELSE AVS_MIN(2 * w[i - 1], c.max_us)
  <2>1. CASE i = 1
        BY <1>5, <1>6, <1>8, <2>1
  <2>2. CASE i # 1
    <3>1. i - 1 \in 1 .. last - 1 /\ i \in 1 .. n /\ i - 1 \in 1 .. n
          BY SMT, <1>6, <2>2
    <3> DEFINE u == t[i - 1].next
    <3>2. u \in Nat /\ w[i - 1] = u /\ w[i] = t[i].next /\ ~t[i].blocked
          BY <1>4, <1>6, <1>8, <3>1
    <3>3. CASE u # 0
          BY <1>5, <2>2, <3>1, <3>2, <3>3
    <3>4. CASE u = 0
      <4>1. t[i].next = c.min_us
            BY <1>5, <2>2, <3>1, <3>2, <3>4
      <4>2. c.min_us = 0
        <5>1. CASE i - 1 = 1
              BY <1>5, <3>1, <3>4, <5>1
        <5>2. CASE i - 1 # 1
          <6> DEFINE v == t[i - 1 - 1].next
          <6>1. ~t[i - 1].blocked
                BY <1>6, <3>1
          <6>2. v # 0 => u > 0
                BY <1>5, <3>1, <5>2, <6>1
          <6>3. v = 0
                BY SMT, <3>4, <6>2
          <6> QED
              BY <1>5, <3>1, <3>4, <5>2, <6>1, <6>3
        <5> QED
            BY <5>1, <5>2
      <4>3. AVS_MIN(2 * u, c.max_us) = 0
            BY SMT, <3>4, OsAssumption DEF AVS_MIN
      <4> QED
          BY <2>2, <3>2, <4>1, <4>2, <4>3
    <3> QED
        BY <3>3, <3>4
  <2> QED
      BY <2>1, <2>2
<1>11. ASSUME stops # {} PROVE w # <<>> /\ w[Len(w)] >= c.max_us
  <2>1. last # 1
        BY <1>5, <1>6, <1>11
  <2>2. last - 1 \in 1 .. last - 1 /\ last # 0
        BY SMT, <1>6, <1>11, <2>1
  <2>3. Len(w) = last - 1
        BY <1>9, <2>2
  <2>4. w[Len(w)] = t[last - 1].next
        BY <1>8, <2>2, <2>3
  <2>5. t[last - 1].next >= c.max_us
        BY <1>5, <1>6, <1>11, <2>1
  <2>6. w # <<>>
    <3> HIDE DEF w
    <3> QED
        BY SMT, <1>6, <2>1, <2>2, <2>3
  <2> QED
      BY <2>4, <2>5, <2>6
<1> HIDE DEF w
<1> QED
    BY <1>7, <1>9, <1>10, <1>11 DEF BacksOff, r

-----------------------------------------------------------------------------
(* OpenSSL: verification and ciphers                                       *)

\* The TLSA records a socket may have been given.
OsTlsas == {{}} \cup UNION {c.tlsas : c \in OsConfigs}

\* A TLSA record is of a PKIX usage or of a DANE one.
LEMMA UsageFacts ==
    ASSUME NEW tlsa \in OsTlsas, NEW t \in tlsa
    PROVE  t.usage \in {PKIX_TA, PKIX_EE} <=> ~(t.usage \in {DANE_TA, DANE_EE})
<1>1. PICK c \in OsConfigs : tlsa \in c.tlsas
      BY DEF OsTlsas
<1>2. t.usage \in 0 .. 3
      BY <1>1, OsAssumption
<1> QED
    BY SMT, <1>2 DEF PKIX_TA, PKIX_EE, DANE_TA, DANE_EE

\* The library is asked to accept the peers that the policy accepts.
LEMMA VerificationFacts ==
    ASSUME NEW c \in OsConfigs, NEW tlsa \in OsTlsas, NEW peer
    PROVE  LibraryAccepts(Verification(c, tlsa), peer) <=> OsPolicy(c, tlsa, peer)
<1> DEFINE v == Verification(c, tlsa)
           mode == VerifyMode(c)
           sound == {t \in tlsa : t.wellFormed}
           safe == {t \in sound : t.usage \in {DANE_TA, DANE_EE}}
           usable == UsableRecords(c, tlsa)
           on == CASE mode = "disabled" -> FALSE
                   [] mode = "dane_opportunistic" -> usable # {}
                   [] OTHER -> TRUE
           Hit(records, usage) == \E t \in records : t.usage = usage /\ t.cert \in peer.matches
           good == peer.current /\ peer.named
<1> SUFFICES LibraryAccepts(v, peer) <=> OsPolicy(c, tlsa, peer)
    OBVIOUS
<1>1. v = [peer |-> on, host |-> on, records |-> IF c.dane THEN usable ELSE {}]
      BY DEF Verification
<1>2. (v.peer <=> on) /\ (v.host <=> on) /\ v.records = IF c.dane THEN usable ELSE {}
  <2> DEFINE z == IF c.dane THEN usable ELSE {}
  <2>1. v = [peer |-> on, host |-> on, records |-> z]
        BY <1>1
  <2> HIDE DEF z, on, v
  <2>2. v.peer = on /\ v.host = on /\ v.records = z
        BY SMT, <2>1
  <2> QED
      BY <2>2 DEF z
<1>3. LibraryAccepts(v, peer) <=>
          LET ok == peer.current /\ (v.host => peer.named) IN
          \/ ~v.peer
          \/ v.records = {} /\ peer.trusted /\ ok
          \/ Hit(v.records, DANE_EE)
          \/ Hit(v.records, DANE_TA) /\ ok
          \/ (Hit(v.records, PKIX_TA) \/ Hit(v.records, PKIX_EE)) /\ peer.trusted /\ ok
      BY DEF LibraryAccepts
<1>5. c.validate \in BOOLEAN /\ c.dane \in BOOLEAN
      BY OsAssumption
<1>6. CASE c.validate /\ c.dane
  <2>1. mode = "dane_enforced"
        BY <1>6 DEF VerifyMode
  <2>2. on /\ usable = sound
        BY <2>1 DEF UsableRecords
  <2>3. LibraryAccepts(v, peer) <=>
            \/ sound = {} /\ peer.trusted /\ good
            \/ Hit(sound, DANE_EE)
            \/ Hit(sound, DANE_TA) /\ good
            \/ (Hit(sound, PKIX_TA) \/ Hit(sound, PKIX_EE)) /\ peer.trusted /\ good
    <3> HIDE DEF on, usable, sound, v
    <3> QED
        BY <1>2, <1>3, <1>6, <2>2
  <2>4. CASE sound = {}
    <3>1. OsPolicy(c, tlsa, peer) <=> peer.trusted /\ good
          BY <1>6, <2>4 DEF OsPolicy
    <3> HIDE DEF sound, v
    <3> QED
        BY <2>3, <2>4, <3>1
  <2>5. CASE sound # {}
    <3>1. OsPolicy(c, tlsa, peer) <=>
              \/ Hit(sound, DANE_EE)
              \/ Hit(sound, DANE_TA) /\ good
              \/ (Hit(sound, PKIX_TA) \/ Hit(sound, PKIX_EE)) /\ peer.trusted /\ good
          BY <1>6, <2>5 DEF OsPolicy
    <3> HIDE DEF sound, v
    <3> QED
        BY <2>3, <2>5, <3>1
  <2> QED
      BY <2>4, <2>5
<1>7. CASE c.validate /\ ~c.dane
  <2>1. mode = "truststore"
        BY <1>7 DEF VerifyMode
  <2>2. on
        BY <2>1
  <2>3. LibraryAccepts(v, peer) <=> peer.trusted /\ good
    <3> HIDE DEF on, usable, v
    <3> QED
        BY <1>2, <1>3, <1>7, <2>2
  <2>4. OsPolicy(c, tlsa, peer) <=> peer.trusted /\ good
        BY <1>7 DEF OsPolicy
  <2> HIDE DEF v
  <2> QED
      BY <2>3, <2>4
<1>8. CASE ~c.validate /\ c.dane
  <2>1. mode = "dane_opportunistic"
        BY <1>8 DEF VerifyMode
  <2>2. (on <=> usable # {}) /\ usable = safe
        BY <2>1, UsageFacts DEF UsableRecords
  <2>3. /\ Hit(safe, DANE_EE) <=> Hit(sound, DANE_EE)
        /\ Hit(safe, DANE_TA) <=> Hit(sound, DANE_TA)
        OBVIOUS
  <2>4. ~Hit(safe, PKIX_TA) /\ ~Hit(safe, PKIX_EE)
        BY UsageFacts
  <2>5. CASE safe = {}
    <3>1. OsPolicy(c, tlsa, peer)
          BY <1>8, <2>5 DEF OsPolicy
    <3>2. LibraryAccepts(v, peer)
      <4> HIDE DEF on, usable, safe, v
      <4> QED
          BY <1>2, <1>3, <2>2, <2>5
    <3> QED
        BY <3>1, <3>2
  <2>6. CASE safe # {}
    <3>1. OsPolicy(c, tlsa, peer) <=> Hit(sound, DANE_EE) \/ (Hit(sound, DANE_TA) /\ good)
      <4> DEFINE Shown(usages) == \E t \in sound : t.usage \in usages /\ t.cert \in peer.matches
      <4>1. OsPolicy(c, tlsa, peer) <=>
                \/ Shown({DANE_EE})
                \/ Shown({DANE_TA}) /\ good
                \/ c.validate /\ Shown({PKIX_TA, PKIX_EE}) /\ peer.trusted /\ good
            BY <1>8, <2>6 DEF OsPolicy
      <4>2. /\ Shown({DANE_EE}) <=> Hit(sound, DANE_EE)
            /\ Shown({DANE_TA}) <=> Hit(sound, DANE_TA)
            OBVIOUS
      <4> HIDE DEF Shown, sound
      <4> QED
          BY <1>8, <4>1, <4>2
    <3>2. LibraryAccepts(v, peer) <=> Hit(safe, DANE_EE) \/ (Hit(safe, DANE_TA) /\ good)
      <4> HIDE DEF on, usable, safe, v
      <4>1. v.records = safe /\ v.peer /\ v.host
            BY <1>2, <1>8, <2>2, <2>6
      <4> HIDE DEF Hit
      <4> QED
          BY <1>3, <2>4, <2>6, <4>1
    <3> HIDE DEF sound, safe, v
    <3> QED
        BY <2>3, <3>1, <3>2
  <2> QED
      BY <2>5, <2>6
<1>9. CASE ~c.validate /\ ~c.dane
  <2>1. mode = "disabled"
        BY <1>9 DEF VerifyMode
  <2>2. ~on
        BY <2>1
  <2>3. LibraryAccepts(v, peer)
    <3> HIDE DEF on, usable, v
    <3> QED
        BY <1>2, <1>3, <2>2
  <2>4. OsPolicy(c, tlsa, peer)
        BY <1>9 DEF OsPolicy
  <2> QED
      BY <2>3, <2>4
<1> QED
    BY <1>5, <1>6, <1>7, <1>8, <1>9

\* Only enabled ciphers of the right kind are offered, and the errors.
LEMMA CipherFacts ==
    ASSUME NEW c
    PROVE  /\ FixSocketCiphersuites(c).err \in {"ok", "enomem", "eproto"}
           /\ c.ciphers # <<>> =>
                \A id \in FixSocketCiphersuites(c).list :
                    \E i \in DOMAIN c.ciphers : /\ c.ciphers[i].id = id
                                                /\ c.ciphers[i].psk = c.psk
<1> DEFINE usable == {i \in DOMAIN c.ciphers : Known(c.ciphers[i]) /\ c.ciphers[i].psk = c.psk}
           list == {c.ciphers[i].id : i \in usable \ c.lost}
           err == IF \E i \in usable \cap c.lost : \A j \in usable : j <= i
                  THEN "enomem" ELSE "ok"
           l == IdsToCipherList(c.ciphers, c.psk, c.lost)
           f == FixSocketCiphersuites(c)
           none == IF c.psk THEN {"PSK"} ELSE {"!PSK"}
<1>1. l = [list |-> list, err |-> err]
      BY DEF IdsToCipherList
<1>2. err \in {"ok", "enomem"}
      OBVIOUS
<1>3. \A id \in list : \E i \in DOMAIN c.ciphers : /\ c.ciphers[i].id = id
                                                   /\ c.ciphers[i].psk = c.psk
      OBVIOUS
<1>4. f = IF c.ciphers = <<>> THEN [list |-> none, err |-> "ok"]
          ELSE IF l.err = "ok" /\ l.list = {} THEN [l EXCEPT !.err = "eproto"] ELSE l
      BY DEF FixSocketCiphersuites
<1> HIDE DEF list, err, l, f, none
<1>5. CASE c.ciphers = <<>>
  <2>1. f = [list |-> none, err |-> "ok"]
        BY <1>4, <1>5
  <2>2. f.err = "ok"
        BY SMT, <2>1
  <2> QED
      BY <1>5, <2>2 DEF f
<1>6. CASE c.ciphers # <<>>
  <2>1. f = l \/ f = [l EXCEPT !.err = "eproto"]
        BY <1>4, <1>6
  <2>2. f.list = list /\ (f.err = err \/ f.err = "eproto")
        BY SMT, <1>1, <2>1
  <2> QED
      BY <1>2, <1>3, <2>2 DEF f
<1> QED
    BY <1>5, <1>6

-----------------------------------------------------------------------------
(* OpenSSL: the session buffer                                             *)

\* The sizes of the sessions negotiated so far.
SessionSizes == Seq(Nat \ {0})

\* A buffer that holds the session id whole and zeroes behind it, or, with 0,
\* only zeroes
Holds(buf, sessions, id) ==
    /\ id \in 0 .. Len(sessions)
    /\ id # 0 => sessions[id] <= Len(buf)
    /\ \A i \in 1 .. Len(buf) : buf[i] = IF id # 0 /\ i <= sessions[id] THEN id ELSE 0

\* Such a buffer is read as that session.
LEMMA DeserialiseFacts ==
    ASSUME osSessions \in SessionSizes, NEW buf \in Seq(Nat), NEW id,
           Holds(buf, osSessions, id)
    PROVE  Deserialise(buf) = id
<1> DEFINE Whole(j) == /\ osSessions[j] <= Len(buf)
                       /\ Take(buf, osSessions[j]) = SessionImage(j, osSessions[j])
           whole == {j \in DOMAIN osSessions : Whole(j)}
<1>1. Deserialise(buf) = IF whole = {} THEN 0 ELSE CHOOSE j \in whole : TRUE
      BY DEF Deserialise
<1>2. ASSUME NEW j \in DOMAIN osSessions
      PROVE  /\ j \in 1 .. Len(osSessions) /\ osSessions[j] \in Nat /\ osSessions[j] >= 1
             /\ Len(buf) \in Nat
      BY SMT DEF SessionSizes
<1>3. ASSUME NEW j \in whole PROVE id # 0 /\ j = id
  <2> DEFINE n == osSessions[j]
  <2>1. n \in Nat /\ n >= 1 /\ n <= Len(buf) /\ Take(buf, n) = SessionImage(j, n)
        BY <1>2
  <2>2. j # 0
        BY SMT, <1>2
  <2> HIDE DEF n
  <2>3. 1 \in 1 .. n /\ 1 \in 1 .. Len(buf)
        BY SMT, <2>1
  <2>4. SessionImage(j, n)[1] = j
        BY <2>3 DEF SessionImage
  <2>5. Take(buf, n)[1] = buf[1]
        BY SMT, <2>1 DEF Take
  <2>6. buf[1] = j
        BY <2>1, <2>4, <2>5
  <2> QED
      BY <2>2, <2>3, <2>6 DEF Holds
<1>4. ASSUME id # 0 PROVE id \in whole
  <2> DEFINE n == osSessions[id]
  <2>1. id \in DOMAIN osSessions
        BY SMT, <1>4 DEF Holds, SessionSizes
  <2>2. n \in Nat /\ n >= 1 /\ n <= Len(buf) /\ Len(buf) \in Nat
        BY <1>2, <1>4, <2>1 DEF Holds
  <2>3. \A i \in 1 .. Len(buf) : i <= n => buf[i] = id
        BY <1>4 DEF Holds
  <2> HIDE DEF n
  <2>4. Take(buf, n) = SessionImage(id, n)
    <3>1. Take(buf, n) = [i \in 1 .. n |-> buf[i]]
          BY SMT, <2>2 DEF Take
    <3>2. \A i \in 1 .. n : i \in 1 .. Len(buf) /\ i <= n
          BY SMT, <2>2
    <3> QED
        BY <2>3, <3>1, <3>2 DEF SessionImage
  <2> QED
      BY <2>1, <2>2, <2>4 DEF n
<1> HIDE DEF whole
<1>5. CASE whole = {}
      BY <1>1, <1>4, <1>5
<1>6. CASE whole # {}
      BY <1>1, <1>3, <1>6
<1> QED
    BY <1>5, <1>6

\* A later session changes nothing for what the buffer holds.
LEMMA HoldsKept ==
    ASSUME NEW sessions \in SessionSizes, NEW n \in Nat \ {0}, NEW buf \in Seq(Nat),
           NEW id, Holds(buf, sessions, id)
    PROVE  Append(sessions, n) \in SessionSizes /\ Holds(buf, Append(sessions, n), id)
<1> DEFINE more == Append(sessions, n)
<1>1. more \in SessionSizes /\ Len(more) = Len(sessions) + 1 /\ Len(sessions) \in Nat
      BY SMT DEF SessionSizes
<1>2. id \in 0 .. Len(sessions)
      BY DEF Holds
<1>3. id # 0 => more[id] = sessions[id]
      BY SMT, <1>2 DEF SessionSizes
<1> HIDE DEF more
<1>4. id \in 0 .. Len(more)
      BY SMT, <1>1, <1>2
<1>5. Holds(buf, more, id)
      BY <1>3, <1>4 DEF Holds
<1> QED
    BY <1>1, <1>5 DEF more

\* The elements of a concatenation
LEMMA CatFacts ==
    ASSUME NEW a \in Seq(Nat), NEW z \in Seq(Nat)
    PROVE  /\ a \o z \in Seq(Nat) /\ Len(a \o z) = Len(a) + Len(z)
           /\ \A i \in 1 .. Len(a) + Len(z) :
                 (a \o z)[i] = IF i <= Len(a) THEN a[i] ELSE z[i - Len(a)]
    BY SMT

\* What new_session_cb leaves in the buffer
LEMMA NewSessionFacts ==
    ASSUME NEW sessions \in SessionSizes, NEW n \in Nat \ {0}, NEW buf \in Seq(Nat)
    PROVE  LET id == Len(sessions) + 1
               new == NewSessionCb(buf, id, n)
           IN  /\ new \in Seq(Nat)
               /\ \E held \in {0, id} : Holds(new, Append(sessions, n), held)
<1> DEFINE id == Len(sessions) + 1
           more == Append(sessions, n)
           len == Len(buf)
           new == NewSessionCb(buf, id, n)
<1>1. /\ Len(more) = id /\ id \in Nat /\ id # 0 /\ more[id] = n /\ len \in Nat
      BY SMT DEF SessionSizes
<1> SUFFICES /\ new \in Seq(Nat)
             /\ \E held \in {0, id} : Holds(new, more, held)
    OBVIOUS
<1>2. new = IF n <= len THEN SessionImage(id, n) \o OsZeroes(len - n) ELSE OsZeroes(len)
      BY DEF NewSessionCb
<1> HIDE DEF id, more, len, new
<1>3. 0 \in 0 .. Len(more) /\ id \in 0 .. Len(more)
      BY SMT, <1>1
<1>4. CASE n <= len
  <2> DEFINE m == len - n
             a == SessionImage(id, n)
             z == OsZeroes(m)
  <2>1. m \in Nat /\ n + m = len
        BY SMT, <1>1, <1>4
  <2> HIDE DEF m
  <2>2. a \in Seq(Nat) /\ z \in Seq(Nat) /\ Len(a) = n /\ Len(z) = m
        BY SMT, <1>1, <2>1 DEF SessionImage, OsZeroes
  <2>3. (\A i \in 1 .. n : a[i] = id) /\ (\A i \in 1 .. m : z[i] = 0)
        BY DEF SessionImage, OsZeroes
  <2>4. new = a \o z
        BY <1>2, <1>4 DEF m
  <2> HIDE DEF a, z
  <2>5. /\ new \in Seq(Nat) /\ Len(new) = len
        /\ \A i \in 1 .. len : new[i] = IF i <= n THEN a[i] ELSE z[i - n]
        BY <2>1, <2>2, <2>4, CatFacts
  <2>6. ASSUME NEW i \in 1 .. len PROVE new[i] = IF i <= n THEN id ELSE 0
    <3>1. (i <= n => i \in 1 .. n) /\ (~(i <= n) => i - n \in 1 .. m)
          BY SMT, <2>1
    <3> QED
        BY <2>3, <2>5, <3>1
  <2>7. Holds(new, more, id)
        BY <1>1, <1>3, <1>4, <2>5, <2>6 DEF Holds
  <2> QED
      BY <2>5, <2>7
<1>5. CASE ~(n <= len)
  <2>1. new = OsZeroes(len)
        BY <1>2, <1>5
  <2>2. new \in Seq(Nat) /\ Len(new) = len
        BY SMT, <1>1, <2>1 DEF OsZeroes
  <2>3. \A i \in 1 .. len : new[i] = 0
        BY <2>1 DEF OsZeroes
  <2>4. Holds(new, more, 0)
        BY <1>3, <2>2, <2>3 DEF Holds
  <2> QED
      BY <2>2, <2>4
<1> QED
    BY <1>4, <1>5

-----------------------------------------------------------------------------
(* OpenSSL: worlds                                                         *)

\* The records of a socket over OpenSSL.
OsRecords == [backend : Handles, ssl : BOOLEAN, reused : BOOLEAN, tlsa : OsTlsas,
              buffer : Seq(Nat), session : Nat, avail : Seq(Int)]

\* Two records that differ in the backend at most
OsSame(s, t) ==
    /\ s.ssl = t.ssl /\ s.reused = t.reused /\ s.tlsa = t.tlsa /\ s.buffer = t.buffer
    /\ s.session = t.session /\ s.avail = t.avail

\* What holds of every world on the way: types, one owner for a backend, and
\* its own timeout.  Nothing binds a backend.
OsBase(w) ==
    /\ w \in Worlds(OsRecords) /\ BackendsHaveOneOwner(w)
    /\ \A b \in 1 .. 2 : /\ w.backends[b].state # "bound"
                         /\ w.backends[b].owner # "none" => w.backends[b].timeout = 1

\* Another backend leaves the rest of the record as it was.
LEMMA OsOtherBackend ==
    ASSUME NEW s \in OsRecords, NEW b \in Handles
    PROVE  LET t == [s EXCEPT !.backend = b] IN
           t \in OsRecords /\ t.backend = b /\ OsSame(t, s)
<1> DEFINE t == [s EXCEPT !.backend = b]
<1>1. t \in OsRecords
      BY DEF OsRecords
<1>2. /\ t.backend = b /\ t.ssl = s.ssl /\ t.reused = s.reused /\ t.tlsa = s.tlsa
      /\ t.buffer = s.buffer /\ t.session = s.session /\ t.avail = s.avail
      BY SMT DEF OsRecords
<1> QED
    BY <1>1, <1>2 DEF OsSame

\* Records are their fields.
LEMMA OsEqual ==
    ASSUME NEW s \in OsRecords, NEW t \in OsRecords, s.backend = t.backend, OsSame(s, t)
    PROVE  s = t
<1>1. ASSUME NEW H, NEW B, NEW T, NEW F, NEW N, NEW A,
             s \in [backend : H, ssl : B, reused : B, tlsa : T, buffer : F,
                    session : N, avail : A],
             t \in [backend : H, ssl : B, reused : B, tlsa : T, buffer : F,
                    session : N, avail : A]
      PROVE  s = t
      BY SMT, <1>1 DEF OsSame
<1> QED
    BY <1>1 DEF OsRecords

\* Updates of the record of a world
LEMMA SockUpdates ==
    ASSUME NEW S, NEW w \in Worlds(S), NEW s, NEW t
    PROVE  /\ [w EXCEPT !.sock = s].sock = s
           /\ [[w EXCEPT !.sock = s] EXCEPT !.sock = t] = [w EXCEPT !.sock = t]
           /\ [w EXCEPT !.sock = w.sock] = w
<1>1. [w EXCEPT !.sock = s].sock = s
      BY SMT DEF Worlds
<1>2. [[w EXCEPT !.sock = s] EXCEPT !.sock = t] = [w EXCEPT !.sock = t]
      BY DEF Worlds
<1>3. [w EXCEPT !.sock = w.sock] = w
      BY DEF Worlds
<1> QED
    BY <1>1, <1>2, <1>3

\* They are those of a TLS socket.
LEMMA OsRecordFacts == TlsSocks(OsRecords)
<1>1. ASSUME NEW s \in OsRecords
      PROVE  s.backend \in Handles /\ "backend" \in DOMAIN s
      BY SMT DEF OsRecords
<1> QED
    BY <1>1, OsOtherBackend DEF TlsSocks

\* A world with another record for the same backend
LEMMA OsOtherSock ==
    ASSUME NEW w, OsBase(w), NEW s \in OsRecords, s.backend = w.sock.backend
    PROVE  LET v == [w EXCEPT !.sock = s] IN
           OsBase(v) /\ v.sock = s /\ v.backends = w.backends
<1> DEFINE v == [w EXCEPT !.sock = s]
<1>1. w \in Worlds(OsRecords) /\ BackendsHaveOneOwner(w)
      BY DEF OsBase
<1>2. v \in Worlds(OsRecords)
      BY <1>1 DEF Worlds
<1>3. v.sock = s /\ v.backends = w.backends
      BY SMT, <1>1 DEF Worlds
<1> HIDE DEF v
<1>4. BackendsHaveOneOwner(v)
      BY <1>1, <1>3 DEF BackendsHaveOneOwner
<1>5. OsBase(v)
      BY <1>2, <1>3, <1>4 DEF OsBase
<1> QED
    BY <1>3, <1>5 DEF v

\* Closing ends the session of the library and closes the backend.
LEMMA OsCloseRawFacts ==
    ASSUME NEW w, OsBase(w)
    PROVE  LET v == OsCloseRaw(w) IN
           /\ OsBase(v) /\ ~v.sock.ssl /\ v.sock.avail = <<>>
           /\ v.sock.backend = w.sock.backend /\ v.sock.tlsa = w.sock.tlsa
           /\ v.sock.buffer = w.sock.buffer /\ v.sock.session = w.sock.session
<1> DEFINE s == [w.sock EXCEPT !.ssl = FALSE, !.avail = <<>>]
           u == [w EXCEPT !.sock = s]
           v == CloseBackend(u)
<1>1. w.sock \in OsRecords
      BY DEF OsBase, Worlds
<1>2. s \in OsRecords
  <2>1. <<>> \in Seq(Int)
        BY SMT
  <2> QED
      BY <1>1, <2>1 DEF OsRecords
<1>3. /\ s.ssl = FALSE /\ s.avail = <<>> /\ s.backend = w.sock.backend
      /\ s.tlsa = w.sock.tlsa /\ s.buffer = w.sock.buffer /\ s.session = w.sock.session
      BY SMT, <1>1 DEF OsRecords
<1>4. OsCloseRaw(w) = v
      BY DEF OsCloseRaw
<1> HIDE DEF s
<1>5. OsBase(u) /\ u.sock = s
      BY <1>2, <1>3, OsOtherSock
<1> HIDE DEF u
<1>6. /\ v \in Worlds(OsRecords) /\ BackendsHaveOneOwner(v) /\ v.sock = u.sock
      /\ \A d \in 1 .. 2 : /\ v.backends[d].owner = u.backends[d].owner
                           /\ v.backends[d].timeout = u.backends[d].timeout
      /\ \A d \in 1 .. 2 : \/ v.backends[d].state = "closed"
                           \/ v.backends[d] = u.backends[d]
      BY <1>5, OsRecordFacts, CloseBackendFacts DEF OsBase
<1> HIDE DEF v
<1>7. "closed" # "bound"
      OBVIOUS
<1>8. OsBase(v)
      BY <1>5, <1>6, <1>7 DEF OsBase
<1> QED
    BY <1>3, <1>4, <1>5, <1>6, <1>8

\* A backend with another timeout
Timed(w, b, t) == [w EXCEPT !.backends[b].timeout = t]

\* It differs in the timeout only.
LEMMA TimedFacts ==
    ASSUME NEW w \in Worlds(OsRecords), NEW b \in 1 .. 2, NEW t \in Nat
    PROVE  LET v == Timed(w, b, t) IN
           /\ v \in Worlds(OsRecords) /\ v.sock = w.sock
           /\ \A d \in 1 .. 2 : d # b => v.backends[d] = w.backends[d]
           /\ v.backends[b] = [w.backends[b] EXCEPT !.timeout = t]
<1> DEFINE f == w.backends
           x == [f[b] EXCEPT !.timeout = t]
           g == [f EXCEPT ![b] = x]
           v == [w EXCEPT !.backends = g]
<1>1. w.sock \in OsRecords /\ f \in [1 .. 2 -> Backend]
      BY DEF Worlds
<1>2. x \in Backend
      BY <1>1 DEF Backend
<1>3. Timed(w, b, t) = v
      BY DEF Timed
<1> HIDE DEF x
<1>4. g \in [1 .. 2 -> Backend] /\ g[b] = x /\ \A d \in 1 .. 2 : d # b => g[d] = f[d]
      BY <1>1, <1>2
<1> HIDE DEF g
<1>5. v \in Worlds(OsRecords)
      BY <1>4 DEF Worlds
<1>6. v.sock = w.sock /\ v.backends = g
      BY SMT DEF Worlds
<1> HIDE DEF v
<1> QED
    BY <1>3, <1>4, <1>5, <1>6 DEF x

\* A read puts the timeout back.
LEMMA BioReadFacts ==
    ASSUME NEW w \in Worlds(OsRecords), NEW deadline \in Nat
    PROVE  AvsBioRead(w, deadline) = w
<1> DEFINE b == w.sock.backend
           x == w.backends[b]
           t == x.timeout
           adjusted == Timed(w, b, deadline)
           back == Timed(adjusted, b, t)
<1>1. AvsBioRead(w, deadline) = w \/ (AvsBioRead(w, deadline) = back /\ b # NULLSOCK)
      BY DEF AvsBioRead, Timed
<1>2. ASSUME b # NULLSOCK PROVE back = w
  <2>1. w.sock \in OsRecords /\ w.backends \in [1 .. 2 -> Backend]
        BY DEF Worlds
  <2>2. b \in 1 .. 2
        BY <1>2, <2>1, BackendFacts, OsRecordFacts DEF TlsSocks
  <2>3. x \in Backend
        BY <2>1, <2>2
  <2>4. t \in Nat
        BY <2>3 DEF Backend
  <2> HIDE DEF x, b, t
  <2>5. /\ adjusted \in Worlds(OsRecords) /\ adjusted.sock = w.sock
        /\ \A d \in 1 .. 2 : d # b => adjusted.backends[d] = w.backends[d]
        /\ adjusted.backends[b] = [w.backends[b] EXCEPT !.timeout = deadline]
        BY <2>2, TimedFacts
  <2> HIDE DEF adjusted
  <2>6. /\ back \in Worlds(OsRecords) /\ back.sock = adjusted.sock
        /\ \A d \in 1 .. 2 : d # b => back.backends[d] = adjusted.backends[d]
        /\ back.backends[b] = [adjusted.backends[b] EXCEPT !.timeout = t]
    <3>1. adjusted \in Worlds(OsRecords)
          BY <2>5
    <3> QED
        BY <2>2, <2>4, <3>1, TimedFacts
  <2> HIDE DEF back
  <2>7. back.backends[b] = [[x EXCEPT !.timeout = deadline] EXCEPT !.timeout = t]
    <3>1. adjusted.backends[b] = [x EXCEPT !.timeout = deadline]
          BY <2>5 DEF x
    <3>2. back.backends[b] = [adjusted.backends[b] EXCEPT !.timeout = t]
          BY <2>6
    <3> QED
        BY <3>1, <3>2
  <2>8. [[x EXCEPT !.timeout = deadline] EXCEPT !.timeout = t] = x
    <3> DEFINE y == [x EXCEPT !.timeout = deadline]
               z == [y EXCEPT !.timeout = t]
    <3>1. y \in Backend /\ y.state = x.state /\ y.owner = x.owner
          BY SMT, <2>3 DEF Backend
    <3> HIDE DEF y
    <3>2. z \in Backend /\ z.state = x.state /\ z.owner = x.owner /\ z.timeout = t
          BY SMT, <2>4, <3>1 DEF Backend
    <3> HIDE DEF z
    <3>3. z = x
          BY SMT, <2>3, <3>2 DEF Backend, t
    <3> QED
        BY <3>3 DEF y, z
  <2>9. \A d \in 1 .. 2 : back.backends[d] = w.backends[d]
        BY <2>5, <2>6, <2>7, <2>8 DEF x
  <2>10. back.backends = w.backends
    <3>1. back.backends \in [1 .. 2 -> Backend]
          BY <2>6 DEF Worlds
    <3> QED
        BY SMT, <2>1, <2>9, <3>1
  <2>11. back.sock = w.sock
        BY <2>5, <2>6
  <2> QED
      BY SMT, <2>6, <2>10, <2>11 DEF Worlds
<1> QED
    BY <1>1, <1>2

\* The record of a socket whose handshake began,
SslOn(s) == [s EXCEPT !.ssl = TRUE]
\* and of one that completed it.
SslDone(s, reused, session, buffer) ==
    [s EXCEPT !.reused = reused, !.buffer = buffer, !.session = session]

\* What each of them leaves alone.
LEMMA SslOnFacts ==
    ASSUME NEW s \in OsRecords
    PROVE  LET t == SslOn(s) IN
           /\ t \in OsRecords /\ t.ssl /\ t.backend = s.backend /\ t.tlsa = s.tlsa
           /\ t.buffer = s.buffer /\ t.session = s.session /\ t.avail = s.avail
           /\ [[t EXCEPT !.backend = NULLSOCK] EXCEPT !.backend = s.backend] = t
           /\ [t EXCEPT !.backend = s.backend] = t
<1> DEFINE t == SslOn(s)
           u == [t EXCEPT !.backend = NULLSOCK]
           v == [u EXCEPT !.backend = s.backend]
           x == [t EXCEPT !.backend = s.backend]
<1>1. t \in OsRecords
      BY DEF OsRecords, SslOn
<1>2. /\ t.ssl = TRUE /\ t.backend = s.backend /\ t.tlsa = s.tlsa
      /\ t.buffer = s.buffer /\ t.session = s.session /\ t.avail = s.avail
      BY SMT DEF OsRecords, SslOn
<1> HIDE DEF t
<1>3. NULLSOCK \in Handles /\ s.backend \in Handles
      BY BackendFacts, OsRecordFacts DEF TlsSocks
<1>4. x \in OsRecords /\ x.backend = s.backend /\ OsSame(x, t)
      BY <1>1, <1>3, OsOtherBackend
<1>5. u \in OsRecords /\ OsSame(u, t)
      BY <1>1, <1>3, OsOtherBackend
<1> HIDE DEF u, x
<1>6. v \in OsRecords /\ v.backend = s.backend /\ OsSame(v, u)
      BY <1>3, <1>5, OsOtherBackend
<1> HIDE DEF v
<1>7. x = t /\ v = t
      BY <1>1, <1>2, <1>4, <1>5, <1>6, OsEqual DEF OsSame
<1> QED
    BY <1>1, <1>2, <1>7 DEF t, u, v, x

\* The same of a completed one.
LEMMA SslDoneFacts ==
    ASSUME NEW s \in OsRecords, NEW reused \in BOOLEAN, NEW session \in Nat,
           NEW buffer \in Seq(Nat)
    PROVE  LET t == SslDone(s, reused, session, buffer) IN
           /\ t \in OsRecords /\ t.ssl = s.ssl /\ t.backend = s.backend /\ t.tlsa = s.tlsa
           /\ t.buffer = buffer /\ t.session = session /\ t.avail = s.avail
<1> DEFINE t == SslDone(s, reused, session, buffer)
<1>1. t \in OsRecords
      BY DEF OsRecords, SslDone
<1>2. /\ t.ssl = s.ssl /\ t.backend = s.backend /\ t.tlsa = s.tlsa
      /\ t.buffer = buffer /\ t.session = session /\ t.avail = s.avail
      BY SMT DEF OsRecords, SslDone
<1> QED
    BY <1>1, <1>2

\* The steps of start_ssl(), by the worlds they go through
LEMMA OsStartSslIs ==
    ASSUME osConfig \in OsConfigs, NEW w, OsBase(w), NEW peer,
           osSessions \in SessionSizes, NEW id, Holds(w.sock.buffer, osSessions, id)
    PROVE  LET on == [w EXCEPT !.sock = SslOn(w.sock)]
               s == OsStartSsl(w, peer)
               client == StateOpt(w) = "connected"
               reused == client /\ id # 0 /\ peer.resumes
               new == Len(osSessions) + 1
               buffer == IF client /\ ~reused
                         THEN NewSessionCb(w.sock.buffer, new, peer.size) ELSE w.sock.buffer
               done == [on EXCEPT !.sock = SslDone(on.sock, reused,
                                                   IF reused THEN id ELSE new, buffer)]
               cipher == FixSocketCiphersuites(osConfig).err
               blocked == osConfig.dgram /\ Retransmit(osConfig, peer.answers).blocked
           IN  \/ cipher # "ok" /\ s = TlsResult(on, cipher)
               \/ blocked /\ s = TlsResult(on, "etimedout")
               \/ /\ ~reused /\ ~LibraryAccepts(Verification(osConfig, w.sock.tlsa), peer)
                  /\ s = TlsResult(on, "eproto")
               \/ /\ reused \/ LibraryAccepts(Verification(osConfig, w.sock.tlsa), peer)
                  /\ s = TlsResult(done, "ok")
<1> DEFINE on == [w EXCEPT !.sock = SslOn(w.sock)]
           client == StateOpt(w) = "connected"
           r == IF osConfig.dgram THEN Retransmit(osConfig, peer.answers)
                ELSE [blocked |-> FALSE, waited |-> <<>>]
           old == IF client THEN Deserialise(w.sock.buffer) ELSE 0
           reused == old # 0 /\ peer.resumes
           new == Len(osSessions) + 1
           buffer == IF client /\ ~reused
                     THEN NewSessionCb(w.sock.buffer, new, peer.size) ELSE w.sock.buffer
           begun == AvsBioRead([w EXCEPT !.sock.ssl = TRUE], osConfig.min_us)
           stopped == SslHandshakeStopped(begun, r)
           restored == [stopped EXCEPT !.sock.backend = w.sock.backend]
           done == [on EXCEPT !.sock = SslDone(on.sock, reused, IF reused THEN old ELSE new,
                                               buffer)]
<1>1. osConfig.min_us \in Nat /\ osConfig.dgram \in BOOLEAN
      BY OsAssumption
<1>2. w \in Worlds(OsRecords) /\ w.sock \in OsRecords
      BY DEF OsBase, Worlds
<1>3. OsBase(on) /\ on.sock = SslOn(w.sock)
  <2> DEFINE t == SslOn(w.sock)
  <2>1. t \in OsRecords /\ t.backend = w.sock.backend
        BY <1>2, SslOnFacts
  <2> HIDE DEF t
  <2>2. LET v == [w EXCEPT !.sock = t] IN OsBase(v) /\ v.sock = t
        BY <2>1, OsOtherSock
  <2> QED
      BY <2>2 DEF t
<1>4. begun = on
  <2>1. [w EXCEPT !.sock.ssl = TRUE] = on
        BY DEF SslOn
  <2> HIDE DEF on
  <2> QED
      BY <1>1, <1>3, <2>1, BioReadFacts DEF OsBase
<1>5. restored = on
  <2> DEFINE t == SslOn(w.sock)
             u == [t EXCEPT !.backend = NULLSOCK]
             gone == [on EXCEPT !.sock.backend = NULLSOCK]
  <2>1. stopped = on \/ stopped = gone
        BY <1>4 DEF SslHandshakeStopped
  <2>2. on \in Worlds(OsRecords) /\ on.sock = t
        BY <1>3 DEF OsBase
  <2>3. [u EXCEPT !.backend = w.sock.backend] = t /\ [t EXCEPT !.backend = w.sock.backend] = t
        BY <1>2, SslOnFacts
  <2> HIDE DEF on, stopped, t
  <2>4. CASE stopped = on
    <3>1. restored = [on EXCEPT !.sock = [t EXCEPT !.backend = w.sock.backend]]
          BY <2>2, <2>4
    <3> QED
        BY <2>2, <2>3, <3>1, SockUpdates
  <2>5. CASE stopped = gone
    <3>1. gone = [on EXCEPT !.sock = u]
          BY <2>2
    <3> HIDE DEF u
    <3> DEFINE v == [on EXCEPT !.sock = u]
    <3>2. v.sock = u
          BY <2>2, SockUpdates
    <3>3. stopped = v
          BY <2>5, <3>1
    <3> HIDE DEF v
    <3>4. restored = [v EXCEPT !.sock = [u EXCEPT !.backend = w.sock.backend]]
          BY <3>2, <3>3
    <3>5. restored = [v EXCEPT !.sock = t]
          BY <2>3, <3>4 DEF u
    <3> HIDE DEF restored
    <3>6. restored = [on EXCEPT !.sock = t]
          BY <2>2, <3>5, SockUpdates DEF v
    <3> QED
        BY <2>2, <3>6, SockUpdates
  <2> QED
      BY <2>1, <2>4, <2>5
<1>6. Deserialise(w.sock.buffer) = id
  <2>1. w.sock.buffer \in Seq(Nat)
        BY <1>2 DEF OsRecords
  <2> QED
      BY <2>1, DeserialiseFacts
<1>8. OsStartSsl(w, peer) =
          IF FixSocketCiphersuites(osConfig).err # "ok"
          THEN TlsResult(on, FixSocketCiphersuites(osConfig).err)
          ELSE IF r.blocked THEN TlsResult(on, "etimedout")
          ELSE IF ~reused /\ ~LibraryAccepts(Verification(osConfig, w.sock.tlsa), peer)
          THEN TlsResult(on, "eproto")
          ELSE TlsResult(done, "ok")
  <2> DEFINE session == IF reused THEN old ELSE new
             ended == [restored EXCEPT !.sock = SslDone(@, reused, session, buffer)]
  <2>1. OsStartSsl(w, peer) =
            IF FixSocketCiphersuites(osConfig).err # "ok"
            THEN TlsResult(begun, FixSocketCiphersuites(osConfig).err)
            ELSE IF r.blocked THEN TlsResult(restored, "etimedout")
            ELSE IF ~reused /\ ~LibraryAccepts(Verification(osConfig, w.sock.tlsa), peer)
            THEN TlsResult(restored, "eproto")
            ELSE TlsResult(ended, "ok")
        BY DEF OsStartSsl, SslDone
  <2> HIDE DEF on, restored, begun, r, reused, session, buffer
  <2>2. ended = done
        BY <1>5 DEF session
  <2> HIDE DEF ended, done
  <2> QED
      BY <1>4, <1>5, <2>1, <2>2
<1>9. r.blocked => osConfig.dgram /\ Retransmit(osConfig, peer.answers).blocked
      BY SMT, <1>1
<1>10. old = (IF client THEN id ELSE 0) /\ (reused <=> client /\ id # 0 /\ peer.resumes)
       /\ (reused => old = id)
      BY <1>6
<1> QED
    BY <1>8, <1>9, <1>10

\* What start_ssl() returns
OsErrors == {"ok", "enomem", "eproto", "etimedout"}

\* start_ssl leaves the backend whole, and the session buffer alone unless
\* the handshake succeeded.
LEMMA OsStartFacts ==
    ASSUME osConfig \in OsConfigs, NEW w, OsBase(w), NEW peer \in osConfig.peers,
           osSessions \in SessionSizes, NEW id, Holds(w.sock.buffer, osSessions, id)
    PROVE  LET s == OsStartSsl(w, peer)
               new == Len(osSessions) + 1
           IN  /\ OsBase(s.w) /\ s.w.backends = w.backends
               /\ s.w.sock.backend = w.sock.backend /\ s.w.sock.tlsa = w.sock.tlsa
               /\ s.w.sock.avail = w.sock.avail /\ s.w.sock.ssl /\ s.err \in OsErrors
               /\ s.err # "ok" => /\ s.w.sock.buffer = w.sock.buffer
                                  /\ s.w.sock.session = w.sock.session
               /\ s.err = "ok" =>
                    \/ /\ id # 0 /\ s.w.sock.session = id
                       /\ s.w.sock.buffer = w.sock.buffer
                    \/ /\ s.w.sock.session = new
                       /\ LibraryAccepts(Verification(osConfig, w.sock.tlsa), peer)
                       /\ s.w.sock.buffer = IF StateOpt(w) = "connected"
                                            THEN NewSessionCb(w.sock.buffer, new, peer.size)
                                            ELSE w.sock.buffer
               /\ s.err = "etimedout" =>
                    osConfig.dgram /\ Retransmit(osConfig, peer.answers).blocked
               /\ s.err = "eproto" /\ FixSocketCiphersuites(osConfig).err = "ok" =>
                    ~LibraryAccepts(Verification(osConfig, w.sock.tlsa), peer)
<1> DEFINE on == [w EXCEPT !.sock = SslOn(w.sock)]
           s == OsStartSsl(w, peer)
           client == StateOpt(w) = "connected"
           reused == client /\ id # 0 /\ peer.resumes
           new == Len(osSessions) + 1
           session == IF reused THEN id ELSE new
           buffer == IF client /\ ~reused
                     THEN NewSessionCb(w.sock.buffer, new, peer.size) ELSE w.sock.buffer
           done == [on EXCEPT !.sock = SslDone(on.sock, reused, session, buffer)]
           cipher == FixSocketCiphersuites(osConfig).err
           blocked == osConfig.dgram /\ Retransmit(osConfig, peer.answers).blocked
           accepted == LibraryAccepts(Verification(osConfig, w.sock.tlsa), peer)
<1>1. \/ cipher # "ok" /\ s = TlsResult(on, cipher)
      \/ blocked /\ s = TlsResult(on, "etimedout")
      \/ ~reused /\ ~accepted /\ s = TlsResult(on, "eproto")
      \/ (reused \/ accepted) /\ s = TlsResult(done, "ok")
      BY OsStartSslIs
<1>2. cipher \in {"ok", "enomem", "eproto"}
      BY CipherFacts
<1>3. /\ w.sock \in OsRecords /\ w.sock.buffer \in Seq(Nat) /\ peer.size \in Nat \ {0}
      BY OsAssumption DEF OsBase, Worlds, OsRecords
<1>4. /\ OsBase(on) /\ on.sock \in OsRecords /\ on.backends = w.backends
      /\ on.sock.backend = w.sock.backend /\ on.sock.tlsa = w.sock.tlsa
      /\ on.sock.avail = w.sock.avail /\ on.sock.ssl
      /\ on.sock.buffer = w.sock.buffer /\ on.sock.session = w.sock.session
  <2> DEFINE t == SslOn(w.sock)
  <2>1. /\ t \in OsRecords /\ t.ssl /\ t.backend = w.sock.backend /\ t.tlsa = w.sock.tlsa
        /\ t.buffer = w.sock.buffer /\ t.session = w.sock.session /\ t.avail = w.sock.avail
        BY <1>3, SslOnFacts
  <2> HIDE DEF t
  <2>2. LET v == [w EXCEPT !.sock = t] IN
        OsBase(v) /\ v.sock = t /\ v.backends = w.backends
        BY <2>1, OsOtherSock
  <2>3. on = [w EXCEPT !.sock = t]
        BY DEF t
  <2> HIDE DEF on
  <2> QED
      BY <2>1, <2>2, <2>3
<1>5. session \in Nat /\ buffer \in Seq(Nat)
  <2>1. new \in Nat /\ id \in Nat
        BY SMT DEF SessionSizes, Holds
  <2>2. NewSessionCb(w.sock.buffer, new, peer.size) \in Seq(Nat)
        BY <1>3, NewSessionFacts
  <2> HIDE DEF new
  <2> QED
      BY <1>3, <2>1, <2>2
<1> HIDE DEF on
<1>6. /\ OsBase(done) /\ done.backends = w.backends
      /\ done.sock.backend = w.sock.backend /\ done.sock.tlsa = w.sock.tlsa
      /\ done.sock.avail = w.sock.avail /\ done.sock.ssl
      /\ done.sock.buffer = buffer /\ done.sock.session = session
  <2> DEFINE t == SslDone(on.sock, reused, session, buffer)
  <2>0. reused \in BOOLEAN
        OBVIOUS
  <2> HIDE DEF reused, session, buffer
  <2>1. /\ t \in OsRecords /\ t.ssl = on.sock.ssl /\ t.backend = on.sock.backend
        /\ t.tlsa = on.sock.tlsa
        /\ t.buffer = buffer /\ t.session = session /\ t.avail = on.sock.avail
    <3> DEFINE k == on.sock
    <3>1. k \in OsRecords
          BY <1>4
    <3> HIDE DEF k
    <3>2. LET z == SslDone(k, reused, session, buffer) IN
          /\ z \in OsRecords /\ z.ssl = k.ssl /\ z.backend = k.backend /\ z.tlsa = k.tlsa
          /\ z.buffer = buffer /\ z.session = session /\ z.avail = k.avail
          BY SMTT(30), <1>5, <2>0, <3>1, SslDoneFacts
    <3> QED
        BY <3>2 DEF k
  <2> HIDE DEF t
  <2>2. LET v == [on EXCEPT !.sock = t] IN
        OsBase(v) /\ v.sock = t /\ v.backends = on.backends
        BY <1>4, <2>1, OsOtherSock
  <2>3. done = [on EXCEPT !.sock = t]
        BY DEF t
  <2> HIDE DEF done
  <2> QED
      BY <1>4, <2>1, <2>2, <2>3
<1> HIDE DEF done, blocked, accepted, cipher, s
<1>7. CASE \E err : /\ s = TlsResult(on, err) /\ err \in {"enomem", "eproto", "etimedout"}
                    /\ err = "etimedout" => blocked
                    /\ err = "eproto" /\ cipher = "ok" => ~accepted
  <2>1. PICK err : /\ s = TlsResult(on, err) /\ err \in {"enomem", "eproto", "etimedout"}
                   /\ err = "etimedout" => blocked
                   /\ err = "eproto" /\ cipher = "ok" => ~accepted
        BY <1>7
  <2>2. s.w = on /\ s.err = err
        BY SMT, <2>1 DEF TlsResult
  <2>3. s.err \in OsErrors /\ s.err # "ok"
        BY <2>1, <2>2 DEF OsErrors
  <2> QED
      BY <1>4, <2>1, <2>2, <2>3 DEF blocked, accepted, cipher, s
<1>8. CASE (reused \/ accepted) /\ s = TlsResult(done, "ok")
  <2>1. s.w = done /\ s.err = "ok"
        BY SMT, <1>8 DEF TlsResult
  <2>2. "ok" # "etimedout" /\ "ok" # "eproto" /\ "ok" \in OsErrors
        BY DEF OsErrors
  <2>3. \/ id # 0 /\ session = id /\ buffer = w.sock.buffer
        \/ /\ session = new /\ accepted
           /\ buffer = IF client THEN NewSessionCb(w.sock.buffer, new, peer.size)
                       ELSE w.sock.buffer
        BY <1>8
  <2> HIDE DEF session, buffer, new, client
  <2> QED
      BY <1>6, <2>1, <2>2, <2>3 DEF accepted, s, client, new
<1>9. /\ "etimedout" # "eproto" /\ "enomem" # "etimedout"
      /\ "enomem" \in {"enomem", "eproto", "etimedout"}
      /\ "eproto" \in {"enomem", "eproto", "etimedout"}
      /\ "etimedout" \in {"enomem", "eproto", "etimedout"}
      OBVIOUS
<1>10. cipher # "ok" => cipher = "enomem" \/ cipher = "eproto"
      BY <1>2
<1>11. CASE cipher # "ok" /\ s = TlsResult(on, cipher)
      BY <1>7, <1>9, <1>10, <1>11
<1>12. CASE blocked /\ s = TlsResult(on, "etimedout")
      BY <1>7, <1>9, <1>12
<1>13. CASE ~reused /\ ~accepted /\ s = TlsResult(on, "eproto")
      BY <1>7, <1>9, <1>13
<1> QED
    BY <1>1, <1>8, <1>11, <1>12, <1>13

-----------------------------------------------------------------------------
(* OpenSSL: receiving                                                      *)

\* What may be in flight.
OsMessages == Seq(Int) \ {<<>>}

\* A record with other data left to read
Left(s, a) == [s EXCEPT !.avail = a]

\* Two records that differ in that at most
OsSameSession(s, t) ==
    /\ s.backend = t.backend /\ s.ssl = t.ssl /\ s.tlsa = t.tlsa
    /\ s.buffer = t.buffer /\ s.session = t.session

\* It differs in the data left only.
LEMMA LeftFacts ==
    ASSUME NEW s \in OsRecords, NEW a \in Seq(Int)
    PROVE  LET t == Left(s, a) IN
           t \in OsRecords /\ t.avail = a /\ OsSameSession(t, s)
<1> DEFINE t == Left(s, a)
<1>1. t \in OsRecords
      BY DEF OsRecords, Left
<1>2. /\ t.avail = a /\ t.backend = s.backend /\ t.ssl = s.ssl /\ t.tlsa = s.tlsa
      /\ t.buffer = s.buffer /\ t.session = s.session
      BY SMT DEF OsRecords, Left
<1> QED
    BY <1>1, <1>2 DEF OsSameSession

\* Draining without the network tells whether something was left, and puts
\* the backend back.
LEMMA DrainFacts ==
    ASSUME NEW w, OsBase(w), NEW records
    PROVE  LET d == Drain([w EXCEPT !.sock.backend = NULLSOCK], records)
               v == [d.w EXCEPT !.sock.backend = w.sock.backend]
           IN  /\ OsBase(v) /\ v.backends = w.backends /\ OsSameSession(v.sock, w.sock)
               /\ v.sock.avail = <<>> /\ d.records = records
               /\ d.truncated <=> w.sock.avail # <<>>
<1> DEFINE b == w.sock.backend
           s1 == [w.sock EXCEPT !.backend = NULLSOCK]
           s2 == Left(s1, <<>>)
           s3 == [s2 EXCEPT !.backend = b]
           u == [w EXCEPT !.sock.backend = NULLSOCK]
           d == Drain(u, records)
           v == [d.w EXCEPT !.sock.backend = b]
<1>1. /\ w \in Worlds(OsRecords) /\ w.sock \in OsRecords /\ b \in Handles
      /\ NULLSOCK \in Handles /\ <<>> \in Seq(Int)
  <2>1. w \in Worlds(OsRecords) /\ w.sock \in OsRecords
        BY DEF OsBase, Worlds
  <2>2. <<>> \in Seq(Int)
        BY SMT
  <2> QED
      BY <2>1, <2>2, BackendFacts, OsRecordFacts DEF TlsSocks
<1>2. s1 \in OsRecords /\ s1.backend = NULLSOCK /\ OsSame(s1, w.sock)
      BY <1>1, OsOtherBackend
<1>3. u = [w EXCEPT !.sock = s1]
      OBVIOUS
<1> HIDE DEF s1, b
<1>4. s2 \in OsRecords /\ s2.avail = <<>> /\ OsSameSession(s2, s1)
      BY <1>1, <1>2, LeftFacts
<1> HIDE DEF s2
<1>5. s3 \in OsRecords /\ s3.backend = b /\ OsSame(s3, s2)
      BY <1>1, <1>4, OsOtherBackend
<1> HIDE DEF u
<1>6. u.sock = s1
      BY <1>1, <1>3, SockUpdates
<1>7. d = [w |-> [u EXCEPT !.sock = s2], records |-> records,
           truncated |-> s1.avail # <<>>]
  <2>1. d = [w |-> [u EXCEPT !.sock.avail = <<>>], records |-> records,
             truncated |-> u.sock.avail # <<>> \/ <<>> # <<>>]
        BY <1>2, <1>6 DEF Drain
  <2> QED
      BY <1>6, <2>1 DEF s2, Left
<1> DEFINE x == [u EXCEPT !.sock = s2]
<1>8. d.w = x /\ d.records = records /\ d.truncated = (s1.avail # <<>>)
  <2> HIDE DEF d, x
  <2> QED
      BY SMT, <1>7 DEF x
<1> HIDE DEF d
<1>9. x = [w EXCEPT !.sock = s2] /\ x.sock = s2
  <2>1. x = [[w EXCEPT !.sock = s1] EXCEPT !.sock = s2]
        BY <1>3
  <2>2. x = [w EXCEPT !.sock = s2]
        BY <1>1, <2>1, SockUpdates
  <2>3. [w EXCEPT !.sock = s2].sock = s2
        BY <1>1, SockUpdates
  <2> HIDE DEF x
  <2> QED
      BY <2>2, <2>3
<1> HIDE DEF x, s3
<1>10. v = [x EXCEPT !.sock = s3]
      BY <1>8, <1>9 DEF s3
<1> HIDE DEF v
<1>11. v = [w EXCEPT !.sock = s3]
      BY <1>1, <1>9, <1>10, SockUpdates
<1>12. OsBase(v) /\ v.sock = s3 /\ v.backends = w.backends
      BY <1>5, <1>11, OsOtherSock DEF b
<1>13. OsSameSession(s3, w.sock) /\ s3.avail = <<>> /\ s1.avail = w.sock.avail
      BY <1>2, <1>4, <1>5 DEF OsSame, OsSameSession, b
<1> QED
    BY <1>8, <1>12, <1>13 DEF v, d, u, b

\* What one read takes of a record, and leaves
LEMMA PieceFacts ==
    ASSUME NEW m \in Seq(Int), NEW len \in Nat \ {0}
    PROVE  LET n == AVS_MIN(len, Len(m)) IN
           /\ n \in Nat /\ ~(n < 0) /\ n <= Len(m)
           /\ Take(m, n) \in Seq(Int) /\ Len(Take(m, n)) = n /\ Drop(m, n) \in Seq(Int)
           /\ Drop(m, n) = <<>> <=> Len(m) <= len
           /\ n # len => Len(m) <= len
<1> DEFINE n == AVS_MIN(len, Len(m))
<1>1. n \in Nat /\ ~(n < 0) /\ n <= Len(m) /\ Len(m) \in Nat
      BY SMT DEF AVS_MIN
<1>2. n # len => Len(m) <= len
      BY SMT DEF AVS_MIN
<1>3. n = Len(m) <=> Len(m) <= len
      BY SMT DEF AVS_MIN
<1> HIDE DEF n
<1>4. Take(m, n) \in Seq(Int) /\ Len(Take(m, n)) = n /\ Drop(m, n) \in Seq(Int)
      BY SMT, <1>1 DEF Take, Drop
<1>5. Drop(m, n) = <<>> <=> n = Len(m)
  <2>1. Len(Drop(m, n)) = Len(m) - n
        BY SMTT(30), <1>1 DEF Drop
  <2>2. Drop(m, n) = <<>> <=> Len(Drop(m, n)) = 0
        BY SMT, <1>4
  <2> QED
      BY SMT, <1>1, <2>1, <2>2
<1> QED
    BY <1>1, <1>2, <1>3, <1>4, <1>5 DEF n

\* A prefix of a concatenation.
LEMMA PrefixFacts ==
    ASSUME NEW a \in Seq(Int), NEW b \in Seq(Int), NEW n \in Nat, n <= Len(a)
    PROVE  Take(a \o b, n) = Take(a, n)
<1>1. a \o b \in Seq(Int) /\ Len(a \o b) = Len(a) + Len(b)
      BY SMT
<1>2. \A i \in 1 .. n : (a \o b)[i] = a[i]
      BY SMT
<1>3. Take(a \o b, n) = [i \in 1 .. n |-> (a \o b)[i]]
      BY SMT, <1>1 DEF Take
<1>4. Take(a, n) = [i \in 1 .. n |-> a[i]]
      BY SMT DEF Take
<1> QED
    BY <1>2, <1>3, <1>4

\* What a receive promises of the data, as OsMessagesWhole states it
OsWhole(dgram, err, out, len, rest, message) ==
    err \in {"ok", "emsgsize"} =>
        IF dgram
        THEN /\ out = Take(message, AVS_MIN(len, Len(message)))
             /\ err = "ok" <=> Len(message) <= len
        ELSE LET all == rest \o message IN out = Take(all, Len(out))

\* receive_ssl leaves the socket whole, and its data are as promised.
LEMMA OsReceiveFacts ==
    ASSUME osConfig \in OsConfigs, NEW w, OsBase(w), w.sock.backend # NULLSOCK,
           NEW records \in Seq(OsMessages), NEW len \in OsSizes,
           osConfig.dgram => w.sock.avail = <<>>
    PROVE  LET r == OsReceiveSsl(w, records, len)
               message == IF records = <<>> THEN <<>> ELSE Head(records)
           IN  /\ OsBase(r.w) /\ r.w.backends = w.backends
               /\ OsSameSession(r.w.sock, w.sock)
               /\ osConfig.dgram => r.w.sock.avail = <<>>
               /\ r.records \in Seq(OsMessages)
               /\ OsWhole(osConfig.dgram, r.err, r.out, len, w.sock.avail, message)
<1> DEFINE dgram == osConfig.dgram
           message == IF records = <<>> THEN <<>> ELSE Head(records)
           avail == w.sock.avail
           left == avail # <<>>
           record == IF left THEN avail ELSE Head(records)
           n == AVS_MIN(len, Len(record))
           out == Take(record, n)
           rest == IF left THEN records ELSE Tail(records)
           s == Left(w.sock, Drop(record, n))
           x == [w EXCEPT !.sock = s]
           q == OsSslRead(w, records, len)
           r == OsReceiveSsl(w, records, len)
           d == Drain([q.w EXCEPT !.sock.backend = NULLSOCK], q.records)
           back == [d.w EXCEPT !.sock.backend = q.w.sock.backend]
<1> SUFFICES /\ OsBase(r.w) /\ r.w.backends = w.backends
             /\ OsSameSession(r.w.sock, w.sock)
             /\ dgram => r.w.sock.avail = <<>>
             /\ r.records \in Seq(OsMessages)
             /\ OsWhole(dgram, r.err, r.out, len, avail, message)
    OBVIOUS
<1>1. /\ w.sock \in OsRecords /\ avail \in Seq(Int) /\ dgram \in BOOLEAN
      /\ (dgram => avail = <<>>) /\ len \in Nat \ {0}
      BY OsAssumption DEF OsBase, Worlds, OsRecords
<1>2. r = IF q.n < 0
          THEN [w |-> q.w, records |-> q.records, err |-> "etimedout", out |-> <<>>]
          ELSE IF dgram /\ len > 0 /\ q.n = len
          THEN [w |-> back, records |-> d.records, out |-> q.out,
                err |-> IF d.truncated THEN "emsgsize" ELSE "ok"]
          ELSE [w |-> q.w, records |-> q.records, err |-> "ok", out |-> q.out]
      BY DEF OsReceiveSsl
<1>3. CASE ~left /\ records = <<>>
  <2>1. q = [w |-> w, records |-> records, n |-> -1, out |-> <<>>]
        BY <1>3 DEF OsSslRead
  <2> HIDE DEF q, r
  <2>2. q.w = w /\ q.records = records /\ q.n = -1
        BY SMT, <2>1
  <2>3. q.n < 0
        BY SMT, <2>2
  <2>4. r = [w |-> w, records |-> records, err |-> "etimedout", out |-> <<>>]
        BY <1>2, <2>2, <2>3
  <2>5. r.w = w /\ r.records = records /\ r.err = "etimedout"
        BY SMT, <2>4
  <2>6. r.err \notin {"ok", "emsgsize"}
        BY <2>5
  <2> QED
      BY <1>3, <2>5, <2>6 DEF OsWhole, OsSameSession
<1>4. CASE left \/ records # <<>>
  <2>1. /\ record \in Seq(Int) /\ rest \in Seq(OsMessages) /\ message \in Seq(Int)
        /\ ~left => record = message
    <3>1. CASE left
      <4>1. message \in Seq(Int)
            BY SMT DEF OsMessages
      <4> QED
          BY <1>1, <3>1, <4>1
    <3>2. CASE ~left
      <4>1. Head(records) \in Seq(Int) /\ Tail(records) \in Seq(OsMessages)
            BY SMT, <1>4, <3>2 DEF OsMessages
      <4> QED
          BY <1>4, <3>2, <4>1
    <3> QED
        BY <3>1, <3>2
  <2>2. q = [w |-> x, records |-> rest, n |-> n, out |-> out]
        BY <1>4 DEF OsSslRead, Left
  <2> HIDE DEF record, rest, message
  <2>3. /\ n \in Nat /\ ~(n < 0) /\ n <= Len(record)
        /\ out \in Seq(Int) /\ Len(out) = n /\ Drop(record, n) \in Seq(Int)
        /\ Drop(record, n) = <<>> <=> Len(record) <= len
        /\ n # len => Len(record) <= len
        BY <1>1, <2>1, PieceFacts
  <2> DEFINE a == Drop(record, n)
  <2> HIDE DEF a
  <2>4. s \in OsRecords /\ s.avail = a /\ OsSameSession(s, w.sock)
        BY <1>1, <2>3, LeftFacts DEF a
  <2> HIDE DEF s
  <2>5. OsBase(x) /\ x.sock = s /\ x.backends = w.backends
        BY <2>4, OsOtherSock DEF OsSameSession
  <2> HIDE DEF x, n, out, q
  <2>6. q.w = x /\ q.records = rest /\ q.n = n /\ q.out = out
        BY SMT, <2>2
  <2>7. ~dgram => out = Take(avail \o message, Len(out))
    <3>1. CASE left
      <4>1. record = avail
            BY <3>1 DEF record
      <4>2. Take(avail \o message, n) = Take(avail, n)
            BY <1>1, <2>1, <2>3, <4>1, PrefixFacts
      <4> QED
          BY <2>3, <4>1, <4>2 DEF out
    <3>2. CASE ~left
      <4>1. avail = <<>> /\ record = message
            BY <2>1, <3>2
      <4>2. avail \o message = message
            BY SMT, <2>1, <4>1
      <4> QED
          BY <2>3, <4>1, <4>2 DEF out
    <3> QED
        BY <3>1, <3>2
  <2>8. dgram => record = message /\ out = Take(message, AVS_MIN(len, Len(message)))
        BY <1>1, <2>1 DEF out, n
  <2>9. CASE dgram /\ n = len
    <3> DEFINE err == IF d.truncated THEN "emsgsize" ELSE "ok"
    <3>1. len > 0
          BY SMT, <1>1
    <3>2. /\ OsBase(back) /\ back.backends = x.backends /\ OsSameSession(back.sock, x.sock)
          /\ back.sock.avail = <<>> /\ d.records = rest
          /\ d.truncated <=> x.sock.avail # <<>>
      <4>1. /\ d = Drain([x EXCEPT !.sock.backend = NULLSOCK], rest)
            /\ back = [d.w EXCEPT !.sock.backend = x.sock.backend]
            BY <2>6
      <4>2. LET e == Drain([x EXCEPT !.sock.backend = NULLSOCK], rest)
                v == [e.w EXCEPT !.sock.backend = x.sock.backend]
            IN  /\ OsBase(v) /\ v.backends = x.backends /\ OsSameSession(v.sock, x.sock)
                /\ v.sock.avail = <<>> /\ e.records = rest
                /\ e.truncated <=> x.sock.avail # <<>>
            BY <2>5, DrainFacts
      <4> HIDE DEF d, back
      <4> QED
          BY <4>1, <4>2
    <3> HIDE DEF d, back, r
    <3>3. r = [w |-> back, records |-> rest, out |-> out, err |-> err]
          BY <1>2, <2>3, <2>6, <2>9, <3>1, <3>2
    <3> HIDE DEF err
    <3>4. r.w = back /\ r.records = rest /\ r.out = out /\ r.err = err
          BY SMT, <3>3
    <3>5. (err = "ok") <=> Len(message) <= len
      <4>1. d.truncated <=> ~(Len(message) <= len)
            BY <2>3, <2>4, <2>5, <2>8, <2>9, <3>2 DEF a
      <4>2. "emsgsize" # "ok"
            OBVIOUS
      <4> QED
          BY <4>1, <4>2 DEF err
    <3>6. OsWhole(dgram, r.err, r.out, len, avail, message)
          BY <2>8, <2>9, <3>4, <3>5 DEF OsWhole
    <3> QED
        BY <2>1, <2>4, <2>5, <3>2, <3>4, <3>6 DEF OsSameSession
  <2>10. CASE ~(dgram /\ n = len)
    <3> HIDE DEF r
    <3>1. r = [w |-> x, records |-> rest, err |-> "ok", out |-> out]
          BY <1>2, <2>3, <2>6, <2>10
    <3>2. r.w = x /\ r.records = rest /\ r.err = "ok" /\ r.out = out
          BY SMT, <3>1
    <3>3. dgram => Len(message) <= len /\ a = <<>>
          BY <2>3, <2>8, <2>10 DEF a
    <3>4. OsWhole(dgram, r.err, r.out, len, avail, message)
          BY <2>7, <2>8, <3>2, <3>3 DEF OsWhole
    <3> QED
        BY <2>1, <2>4, <2>5, <3>2, <3>3, <3>4
  <2> QED
      BY <2>9, <2>10
<1> QED
    BY <1>3, <1>4

-----------------------------------------------------------------------------
(* OpenSSL: the invariant                                                  *)

\* The states of a backend that can carry a session.
Secured == {"connected", "accepted"}

\* The socket between two calls, in a world w with these sessions
OsSockGood(w, sessions, dgram) ==
    /\ OsBase(w)
    /\ w.sock.ssl => StateOpt(w) \in Secured
    /\ dgram => w.sock.avail = <<>>
    /\ \E id : /\ Holds(w.sock.buffer, sessions, id)
               /\ w.sock.ssl /\ StateOpt(w) = "connected" => id \in {0, w.sock.session}

\* What the last call returned
OsCallGood == OsVerifiesExactly /\ OsTimerBacksOff /\ OsCiphersAllowed /\ OsMessagesWhole

\* The inductive invariant: between two calls the socket is good and the
\* last call kept its promises.
OsInv ==
    /\ osConfig \in OsConfigs /\ osSessions \in SessionSizes /\ osWire \in Seq(OsMessages)
    /\ OsSockGood(os, osSessions, osConfig.dgram)
    /\ OsCallGood

\* It implies what the run checks.
LEMMA OsInvCorrect == OsInv => OpensslCorrect
<1> SUFFICES ASSUME OsInv PROVE OpensslCorrect
    OBVIOUS
<1>1. /\ OsBase(os) /\ osSessions \in SessionSizes /\ OsCallGood
      /\ os.sock.ssl => StateOpt(os) \in Secured
      BY DEF OsInv, OsSockGood
<1>2. PICK id : /\ Holds(os.sock.buffer, osSessions, id)
                /\ os.sock.ssl /\ StateOpt(os) = "connected" => id \in {0, os.sock.session}
      BY DEF OsInv, OsSockGood
<1>3. DOMAIN os.backends = 1 .. 2 /\ os.sock.buffer \in Seq(Nat)
      BY <1>1 DEF OsBase, Worlds, OsRecords
<1>4. OsBackendKept
      BY <1>1, <1>3 DEF OsBackendKept, OsBase, Secured
<1>5. OsBufferIsNewest
  <2> DEFINE buf == os.sock.buffer
             used == IF id = 0 THEN 0 ELSE osSessions[id]
  <2>1. Deserialise(buf) = id
        BY <1>1, <1>2, <1>3, DeserialiseFacts
  <2>2. ASSUME NEW i \in used + 1 .. Len(buf) PROVE buf[i] = 0
    <3>1. used \in Nat /\ Len(buf) \in Nat
          BY SMTT(30), <1>1, <1>2, <1>3 DEF Holds, SessionSizes
    <3>2. (id # 0 => used = osSessions[id]) /\ i \in 1 .. Len(buf) /\ ~(i <= used)
          BY SMT, <3>1
    <3> HIDE DEF used
    <3>3. buf[i] = IF id # 0 /\ i <= osSessions[id] THEN id ELSE 0
          BY <1>2, <3>2 DEF Holds
    <3> QED
        BY <3>2, <3>3
  <2> HIDE DEF buf
  <2> QED
      BY <1>2, <2>1, <2>2 DEF OsBufferIsNewest, buf
<1> QED
    BY <1>1, <1>4, <1>5 DEF OpensslCorrect, OsCallGood

\* A step that leaves the socket good and reports nothing
LEMMA OsQuietStep ==
    ASSUME OsInv, osCall' = OsNoCall, osConfig' = osConfig,
           osSessions' \in SessionSizes, osWire' \in Seq(OsMessages),
           OsSockGood(os', osSessions', osConfig.dgram)
    PROVE  OsInv'
<1>1. osCall'.op = "none"
      BY SMT DEF OsNoCall
<1>2. OsCallGood'
      BY <1>1 DEF OsCallGood, OsVerifiesExactly, OsTimerBacksOff, OsCiphersAllowed,
                  OsMessagesWhole
<1>3. OsSockGood(os, osSessions, osConfig.dgram)'
      BY DEF OsSockGood, OsBase, BackendsHaveOneOwner, StateOpt, Holds
<1> QED
    BY <1>2, <1>3 DEF OsInv

\* How a handshake may end, when the buffer held id before it
OsOutcome(r, peer, id) ==
    LET new == Len(osSessions) + 1
        accepted == LibraryAccepts(Verification(osConfig, os.sock.tlsa), peer)
    IN  /\ OsBase(r.w) /\ r.err \in OsErrors
        /\ r.err # "ok" => /\ ~r.w.sock.ssl /\ r.w.sock.avail = <<>>
                           /\ r.w.sock.buffer = os.sock.buffer
        /\ r.err = "ok" =>
             /\ StateOpt(r.w) \in Secured /\ r.w.sock.avail = os.sock.avail
             /\ \/ /\ id # 0 /\ r.w.sock.session = id
                   /\ r.w.sock.buffer = os.sock.buffer
                \/ /\ r.w.sock.session = new /\ accepted
                   /\ r.w.sock.buffer = IF StateOpt(r.w) = "connected"
                                        THEN NewSessionCb(os.sock.buffer, new, peer.size)
                                        ELSE os.sock.buffer
        /\ r.err = "etimedout" => osConfig.dgram /\ Retransmit(osConfig, peer.answers).blocked
        /\ r.err = "eproto" /\ FixSocketCiphersuites(osConfig).err = "ok" => ~accepted

\* After a handshake the socket is good.
LEMMA OsOutcomeSock ==
    ASSUME OsInv, NEW peer \in osConfig.peers, NEW id,
           Holds(os.sock.buffer, osSessions, id), NEW r, OsOutcome(r, peer, id)
    PROVE  LET full == r.err = "ok" /\ r.w.sock.session = Len(osSessions) + 1
               sessions == IF full THEN Append(osSessions, peer.size) ELSE osSessions
               accepted == LibraryAccepts(Verification(osConfig, os.sock.tlsa), peer)
           IN  /\ sessions \in SessionSizes
               /\ OsSockGood(r.w, sessions, osConfig.dgram)
               /\ full => accepted
<1> DEFINE new == Len(osSessions) + 1
           full == r.err = "ok" /\ r.w.sock.session = new
           more == Append(osSessions, peer.size)
           sessions == IF full THEN more ELSE osSessions
           dgram == osConfig.dgram
           buf == os.sock.buffer
           accepted == LibraryAccepts(Verification(osConfig, os.sock.tlsa), peer)
<1> SUFFICES /\ sessions \in SessionSizes /\ OsSockGood(r.w, sessions, dgram)
             /\ full => accepted
    OBVIOUS
<1>1. /\ osSessions \in SessionSizes /\ buf \in Seq(Nat) /\ peer.size \in Nat \ {0}
      /\ dgram => os.sock.avail = <<>>
      BY OsAssumption DEF OsInv, OsSockGood, OsBase, Worlds, OsRecords
<1>2. id # new /\ new # 0
      BY SMT, <1>1 DEF Holds, SessionSizes
<1>3. OsBase(r.w)
      BY DEF OsOutcome
<1>4. CASE r.err # "ok"
  <2>1. ~r.w.sock.ssl /\ r.w.sock.avail = <<>> /\ r.w.sock.buffer = buf
        BY <1>4 DEF OsOutcome
  <2>2. sessions = osSessions /\ ~full
        BY <1>4
  <2> HIDE DEF sessions, full
  <2> QED
      BY <1>1, <1>3, <2>1, <2>2 DEF OsSockGood
<1>5. CASE r.err = "ok" /\ r.w.sock.session = id /\ r.w.sock.buffer = buf
  <2>1. ~full /\ sessions = osSessions
        BY <1>2, <1>5
  <2>2. StateOpt(r.w) \in Secured /\ r.w.sock.avail = os.sock.avail
        BY <1>5 DEF OsOutcome
  <2> HIDE DEF sessions, full
  <2> QED
      BY <1>1, <1>3, <1>5, <2>1, <2>2 DEF OsSockGood
<1>6. CASE /\ r.err = "ok" /\ r.w.sock.session = new /\ accepted
           /\ r.w.sock.buffer = IF StateOpt(r.w) = "connected"
                                THEN NewSessionCb(buf, new, peer.size) ELSE buf
  <2>1. sessions = more
        BY <1>6
  <2>2. StateOpt(r.w) \in Secured /\ r.w.sock.avail = os.sock.avail
        BY <1>6 DEF OsOutcome
  <2>3. more \in SessionSizes /\ Holds(buf, more, id)
        BY <1>1, HoldsKept
  <2>4. \E held \in {0, new} : Holds(NewSessionCb(buf, new, peer.size), more, held)
        BY <1>1, NewSessionFacts
  <2> HIDE DEF sessions, more, new, buf
  <2>5. \E h : /\ Holds(r.w.sock.buffer, more, h)
               /\ StateOpt(r.w) = "connected" => h \in {0, r.w.sock.session}
    <3>1. CASE StateOpt(r.w) = "connected"
          BY <1>6, <2>4, <3>1
    <3>2. CASE StateOpt(r.w) # "connected"
          BY <1>6, <2>3, <3>2
    <3> QED
        BY <3>1, <3>2
  <2>6. OsSockGood(r.w, sessions, dgram)
        BY <1>1, <1>3, <2>1, <2>2, <2>5 DEF OsSockGood
  <2> QED
      BY <1>6, <2>1, <2>3, <2>6
<1> QED
    BY <1>4, <1>5, <1>6 DEF OsOutcome

\* A handshake that ends so keeps OsInv.
LEMMA OsOutcomeStep ==
    ASSUME OsInv, NEW peer \in osConfig.peers, NEW id,
           Holds(os.sock.buffer, osSessions, id), NEW r, OsOutcome(r, peer, id),
           OsHandshaken(r, peer)
    PROVE  OsInv'
<1> DEFINE full == r.err = "ok" /\ r.w.sock.session = Len(osSessions) + 1
           waited == IF osConfig.dgram THEN Retransmit(osConfig, peer.answers).waited
                     ELSE <<>>
           sessions == IF full THEN Append(osSessions, peer.size) ELSE osSessions
           tlsa == os.sock.tlsa
           err == r.err
           accepted == LibraryAccepts(Verification(osConfig, tlsa), peer)
<1>1. /\ os' = r.w /\ osSessions' = sessions /\ osWire' = <<>> /\ osConfig' = osConfig
      /\ osCall' = [op |-> "handshake", err |-> err, peer |-> peer, full |-> full,
                    tlsa |-> tlsa, waited |-> waited]
      BY DEF OsHandshaken
<1>2. /\ sessions \in SessionSizes /\ OsSockGood(r.w, sessions, osConfig.dgram)
      /\ full => accepted
      BY OsOutcomeSock
<1>3. osConfig \in OsConfigs /\ tlsa \in OsTlsas /\ peer.answers \in Nat
      BY OsAssumption DEF OsInv, OsSockGood, OsBase, Worlds, OsRecords
<1>4. accepted <=> OsPolicy(osConfig, tlsa, peer)
      BY <1>3, VerificationFacts
<1>5. /\ err = "etimedout" => osConfig.dgram /\ Retransmit(osConfig, peer.answers).blocked
      /\ err = "eproto" /\ FixSocketCiphersuites(osConfig).err = "ok" => ~accepted
      BY DEF OsOutcome
<1>6. osConfig.dgram => /\ BacksOff(osConfig, waited)
                        /\ err = "etimedout" => /\ waited # <<>>
                                                /\ waited[Len(waited)] >= osConfig.max_us
      BY <1>3, <1>5, RetransmitFacts
<1> HIDE DEF full, waited, sessions, tlsa, err, accepted
<1>7. /\ osCall'.op = "handshake" /\ osCall'.err = err /\ osCall'.peer = peer
      /\ osCall'.full = full /\ osCall'.tlsa = tlsa /\ osCall'.waited = waited
      BY SMT, <1>1
<1>8. OsVerifiesExactly'
      BY <1>1, <1>2, <1>4, <1>5, <1>7 DEF OsVerifiesExactly
<1>9. OsTimerBacksOff'
      BY <1>1, <1>6, <1>7 DEF OsTimerBacksOff, BacksOff
<1>10. OsCiphersAllowed'
      BY <1>1, CipherFacts DEF OsCiphersAllowed
<1>11. OsMessagesWhole'
      BY <1>7 DEF OsMessagesWhole
<1>12. osWire' \in Seq(OsMessages)
      BY SMT, <1>1
<1>13. OsSockGood(os, osSessions, osConfig.dgram)'
      BY <1>1, <1>2 DEF OsSockGood, OsBase, BackendsHaveOneOwner, StateOpt, Holds
<1>14. osConfig' \in OsConfigs /\ osSessions' \in SessionSizes
      BY <1>1, <1>2, <1>3
<1> QED
    BY <1>8, <1>9, <1>10, <1>11, <1>12, <1>13, <1>14 DEF OsInv, OsCallGood

\* What start_ssl() leaves to the caller that closes on an error
LEMMA OsStartedOutcome ==
    ASSUME OsInv, NEW peer \in osConfig.peers, NEW id,
           Holds(os.sock.buffer, osSessions, id), NEW w, OsBase(w),
           OsSame(w.sock, os.sock), StateOpt(w) \in Secured
    PROVE  LET s == OsStartSsl(w, peer) IN
           /\ OsBase(s.w) /\ s.w.backends = w.backends
           /\ s.w.sock.backend = w.sock.backend /\ s.err \in OsErrors
           /\ s.w.sock.buffer = os.sock.buffer \/ s.err = "ok"
           /\ s.err = "ok" => OsOutcome(s, peer, id)
           /\ \A v : /\ s.err # "ok" /\ OsBase(v) /\ ~v.sock.ssl
                     /\ v.sock.avail = <<>> /\ v.sock.buffer = s.w.sock.buffer
                     => OsOutcome(TlsResult(v, s.err), peer, id)
<1> DEFINE s == OsStartSsl(w, peer)
           new == Len(osSessions) + 1
           accepted == LibraryAccepts(Verification(osConfig, os.sock.tlsa), peer)
           blocked == osConfig.dgram /\ Retransmit(osConfig, peer.answers).blocked
<1>1. /\ osConfig \in OsConfigs /\ osSessions \in SessionSizes
      /\ w.sock.buffer = os.sock.buffer /\ w.sock.tlsa = os.sock.tlsa
      /\ w.sock.avail = os.sock.avail
      BY DEF OsInv, OsSame
<1>2. Holds(w.sock.buffer, osSessions, id)
      BY <1>1
<1>3. /\ OsBase(s.w) /\ s.w.backends = w.backends
      /\ s.w.sock.backend = w.sock.backend /\ s.w.sock.avail = w.sock.avail
      /\ s.err \in OsErrors
      /\ s.err # "ok" => s.w.sock.buffer = w.sock.buffer
      /\ s.err = "ok" =>
           \/ id # 0 /\ s.w.sock.session = id /\ s.w.sock.buffer = w.sock.buffer
           \/ /\ s.w.sock.session = new
              /\ LibraryAccepts(Verification(osConfig, w.sock.tlsa), peer)
              /\ s.w.sock.buffer = IF StateOpt(w) = "connected"
                                   THEN NewSessionCb(w.sock.buffer, new, peer.size)
                                   ELSE w.sock.buffer
      /\ s.err = "etimedout" => blocked
      /\ s.err = "eproto" /\ FixSocketCiphersuites(osConfig).err = "ok" =>
           ~LibraryAccepts(Verification(osConfig, w.sock.tlsa), peer)
      BY <1>1, <1>2, OsStartFacts
<1>4. StateOpt(s.w) = StateOpt(w)
      BY <1>3 DEF StateOpt
<1> HIDE DEF s
<1>5. s.err = "ok" => OsOutcome(s, peer, id)
  <2>1. "ok" # "etimedout" /\ "ok" # "eproto"
        OBVIOUS
  <2> QED
      BY <1>1, <1>3, <1>4, <2>1 DEF OsOutcome
<1>6. ASSUME NEW v, s.err # "ok", OsBase(v), ~v.sock.ssl, v.sock.avail = <<>>,
             v.sock.buffer = s.w.sock.buffer
      PROVE  OsOutcome(TlsResult(v, s.err), peer, id)
  <2> DEFINE r == TlsResult(v, s.err)
             e == s.err
  <2>1. r.w = v /\ r.err = e
    <3>1. r = [w |-> v, err |-> e]
          BY DEF TlsResult
    <3> HIDE DEF e, r
    <3> QED
        BY SMT, <3>1
  <2> HIDE DEF r
  <2>2. OsOutcome(r, peer, id)
        BY <1>1, <1>3, <1>6, <2>1 DEF OsOutcome
  <2> QED
      BY <2>2 DEF r
<1>7. s.w.sock.buffer = os.sock.buffer \/ s.err = "ok"
      BY <1>1, <1>3
<1> QED
    BY <1>3, <1>5, <1>6, <1>7 DEF s

\* A record differs from itself in the backend at most.
LEMMA OsSameRefl == ASSUME NEW s PROVE OsSame(s, s)
    BY DEF OsSame

\* ensure_have_backend_socket leaves the rest of the record as it was.
LEMMA OsEnsureFacts ==
    ASSUME NEW w, OsBase(w)
    PROVE  LET e == EnsureHaveBackendSocket(w) IN
           /\ OsBase(e.w) /\ OsSame(e.w.sock, w.sock)
           /\ e.err = "ok" => e.w.sock.backend \in 1 .. 2
           /\ w.sock.backend # NULLSOCK => e.w = w
<1> DEFINE e == EnsureHaveBackendSocket(w)
           b == e.w.sock.backend
           k == [w.sock EXCEPT !.backend = b]
           x == NewBackend("ssl", "closed")
<1>1. w \in Worlds(OsRecords) /\ BackendsHaveOneOwner(w) /\ w.sock \in OsRecords
      BY DEF OsBase, Worlds
<1>2. /\ e.w \in Worlds(OsRecords) /\ BackendsHaveOneOwner(e.w)
      /\ e.err = "ok" => e.w.sock.backend \in 1 .. 2
      /\ e.w = w \/ e.w.sock = [w.sock EXCEPT !.backend = e.w.sock.backend]
      /\ w.sock.backend # NULLSOCK => e.w = w
      /\ \A d \in 1 .. 2 : \/ e.w.backends[d] = w.backends[d]
                           \/ e.w.backends[d] = NewBackend("ssl", "closed")
      BY <1>1, OsRecordFacts, EnsureFacts
<1> HIDE DEF e
<1>3. b \in Handles
      BY <1>2, OsRecordFacts DEF Worlds, TlsSocks
<1>4. OsSame(k, w.sock)
      BY <1>1, <1>3, OsOtherBackend
<1>5. e.w = w \/ e.w.sock = k
      BY <1>2
<1> HIDE DEF k
<1>6. OsSame(e.w.sock, w.sock)
      BY <1>4, <1>5, OsSameRefl
<1>7. x.state = "closed" /\ x.timeout = 1
  <2>1. "ssl" \in Owners /\ "closed" \in BackendStates
        BY DEF Owners, BackendStates
  <2> QED
      BY <2>1, BackendFacts
<1> HIDE DEF x
<1>8. \A d \in 1 .. 2 : e.w.backends[d] = w.backends[d] \/ e.w.backends[d] = x
      BY <1>2 DEF x
<1>9. "closed" # "bound"
      OBVIOUS
<1>10. OsBase(e.w)
      BY <1>2, <1>7, <1>8, <1>9 DEF OsBase
<1> QED
    BY <1>2, <1>6, <1>10 DEF e

\* connect_ssl keeps OsInv: on a failed handshake the backend is closed.
LEMMA OsConnectStep ==
    ASSUME OsInv, NEW reachable \in BOOLEAN, NEW peer \in osConfig.peers,
           OsConnect(reachable, peer)
    PROVE  OsInv'
<1> DEFINE e == EnsureHaveBackendSocket(os)
           b == e.w.sock.backend
           c == InState(e.w, b, "connected")
           s == OsStartSsl(c, peer)
           closed == TlsResult(OsCloseRaw(s.w), s.err)
           r == IF OsStarted(os) THEN TlsResult(os, "eisconn")
                ELSE IF e.err # "ok" THEN TlsResult(e.w, "ebadf")
                ELSE IF e.w.backends[b].state \notin {"closed", "bound"} \/ ~reachable
                THEN TlsResult(e.w, "econnrefused")
                ELSE IF s.err # "ok" THEN closed
                ELSE s
           early == {"eisconn", "ebadf", "econnrefused"}
<1>1. IF r.err \in early
      THEN os' = r.w /\ osCall' = OsNoCall /\ UNCHANGED <<osConfig, osSessions, osWire>>
      ELSE OsHandshaken(r, peer)
      BY DEF OsConnect, ConnectSsl, InState
<1>2. /\ OsBase(os) /\ OsSockGood(os, osSessions, osConfig.dgram)
      /\ osSessions \in SessionSizes /\ osWire \in Seq(OsMessages)
      BY DEF OsInv, OsSockGood
<1>3. PICK id : /\ Holds(os.sock.buffer, osSessions, id)
                /\ os.sock.ssl /\ StateOpt(os) = "connected" => id \in {0, os.sock.session}
      BY <1>2 DEF OsSockGood
<1>4. /\ OsBase(e.w) /\ OsSame(e.w.sock, os.sock)
      /\ e.err = "ok" => e.w.sock.backend \in 1 .. 2
      /\ os.sock.backend # NULLSOCK => e.w = os
      BY <1>2, OsEnsureFacts
<1>5. ASSUME e.err = "ok"
      PROVE  /\ s.err # "ok" => OsOutcome(closed, peer, id) /\ closed.err = s.err
             /\ s.err = "ok" => OsOutcome(s, peer, id)
             /\ s.err \in OsErrors
  <2>1. /\ e.w \in Worlds(OsRecords) /\ BackendsHaveOneOwner(e.w) /\ b \in 1 .. 2
        BY <1>4, <1>5 DEF OsBase
  <2>2. e.w.backends[b].owner # "none"
    <3>1. DOMAIN e.w.backends = 1 .. 2
          BY <2>1 DEF Worlds
    <3> QED
        BY <2>1, <3>1 DEF BackendsHaveOneOwner
  <2>3. "connected" \in BackendStates /\ "connected" # "free" /\ "connected" # "bound"
        BY DEF BackendStates
  <2> HIDE DEF e, b
  <2>4. /\ c \in Worlds(OsRecords) /\ BackendsHaveOneOwner(c) /\ c.sock = e.w.sock
        /\ c.backends[b].state = "connected"
        /\ \A d \in 1 .. 2 : /\ c.backends[d].owner = e.w.backends[d].owner
                             /\ c.backends[d].timeout = e.w.backends[d].timeout
        /\ \A d \in 1 .. 2 : d # b => c.backends[d] = e.w.backends[d]
        BY SMTT(30), <2>1, <2>2, <2>3, OsRecordFacts, WorldState
  <2> HIDE DEF c
  <2>5. OsBase(c) /\ OsSame(c.sock, os.sock)
        BY <1>4, <2>3, <2>4 DEF OsBase
  <2>6. StateOpt(c) \in Secured
    <3>1. c.sock.backend = b /\ b # NULLSOCK
          BY <2>1, <2>4, BackendFacts DEF b
    <3> QED
        BY <2>4, <3>1 DEF StateOpt, Secured
  <2>7. /\ OsBase(s.w) /\ s.err \in OsErrors
        /\ s.w.sock.buffer = os.sock.buffer \/ s.err = "ok"
        /\ s.err = "ok" => OsOutcome(s, peer, id)
        /\ \A v : /\ s.err # "ok" /\ OsBase(v) /\ ~v.sock.ssl
                  /\ v.sock.avail = <<>> /\ v.sock.buffer = s.w.sock.buffer
                  => OsOutcome(TlsResult(v, s.err), peer, id)
        BY <1>3, <2>5, <2>6, OsStartedOutcome
  <2> HIDE DEF s
  <2> DEFINE z == OsCloseRaw(s.w)
  <2>8. OsBase(z) /\ ~z.sock.ssl /\ z.sock.avail = <<>> /\ z.sock.buffer = s.w.sock.buffer
        BY <2>7, OsCloseRawFacts
  <2> HIDE DEF z
  <2>9. closed = TlsResult(z, s.err)
        BY DEF z
  <2> HIDE DEF closed
  <2>10. closed.err = s.err
        BY SMT, <2>9 DEF TlsResult
  <2> QED
      BY <2>7, <2>8, <2>9, <2>10
<1> HIDE DEF e, b, c, s, closed
<1>6. \/ r = TlsResult(os, "eisconn")
      \/ r = TlsResult(e.w, "ebadf") /\ ~OsStarted(os)
      \/ r = TlsResult(e.w, "econnrefused") /\ ~OsStarted(os)
      \/ e.err = "ok" /\ s.err # "ok" /\ r = closed
      \/ e.err = "ok" /\ s.err = "ok" /\ r = s
      OBVIOUS
<1> HIDE DEF r
<1>7. CASE \E w, err : /\ r = TlsResult(w, err) /\ err \in early
                       /\ OsSockGood(w, osSessions, osConfig.dgram)
  <2>1. PICK w, err : /\ r = TlsResult(w, err) /\ err \in early
                      /\ OsSockGood(w, osSessions, osConfig.dgram)
        BY <1>7
  <2>2. r.w = w /\ r.err = err
        BY SMT, <2>1 DEF TlsResult
  <2>3. /\ os' = w /\ osCall' = OsNoCall
        /\ osConfig' = osConfig /\ osSessions' = osSessions /\ osWire' = osWire
        BY <1>1, <2>1, <2>2
  <2> QED
      BY <1>2, <2>1, <2>3, OsQuietStep
<1>8. CASE r.err \in OsErrors /\ OsOutcome(r, peer, id)
  <2>1. r.err \notin early
        BY <1>8 DEF OsErrors
  <2> QED
      BY <1>1, <1>3, <1>8, <2>1, OsOutcomeStep
<1>9. ASSUME ~OsStarted(os) PROVE OsSockGood(e.w, osSessions, osConfig.dgram)
      BY <1>2, <1>3, <1>4, <1>9 DEF OsSockGood, OsSame, OsStarted
<1>10. "eisconn" \in early /\ "ebadf" \in early /\ "econnrefused" \in early
      OBVIOUS
<1> HIDE DEF early
<1> QED
    BY <1>2, <1>5, <1>6, <1>7, <1>8, <1>9, <1>10

\* Cleaning up the backend of the socket
LEMMA OsCleanupFacts ==
    ASSUME NEW w, OsBase(w)
    PROVE  LET v == CleanupBackend(w) IN
           /\ OsBase(v) /\ OsSame(v.sock, w.sock) /\ v.sock.backend = NULLSOCK
           /\ \A d \in 1 .. 2 : d # w.sock.backend => v.backends[d] = w.backends[d]
<1> DEFINE v == CleanupBackend(w)
           k == [w.sock EXCEPT !.backend = NULLSOCK]
<1>0. w \in Worlds(OsRecords) /\ BackendsHaveOneOwner(w) /\ w.sock \in OsRecords
      BY DEF OsBase, Worlds
<1>1. /\ v \in Worlds(OsRecords) /\ BackendsHaveOneOwner(v)
      /\ v.sock.backend = NULLSOCK /\ (v = w \/ v.sock = k)
      /\ \A d \in 1 .. 2 : d # w.sock.backend => v.backends[d] = w.backends[d]
      BY <1>0, OsRecordFacts, CleanupBackendFacts
<1>2. v = w \/ v.backends[w.sock.backend] = FreeBackend
  <2>1. CASE w.sock.backend = NULLSOCK
        BY <2>1 DEF CleanupBackend
  <2>2. CASE w.sock.backend # NULLSOCK
    <3> DEFINE h == w.sock.backend
               x == FreeBackend
    <3>1. h \in 1 .. 2
          BY <1>0, <2>2, BackendFacts, OsRecordFacts DEF TlsSocks
    <3>2. v = [w EXCEPT !.backends[h] = x, !.sock.backend = NULLSOCK]
          BY <2>2 DEF CleanupBackend
    <3>3. v.backends[h] = x
      <4> HIDE DEF h, x, v
      <4> QED
          BY SMT, <1>0, <3>1, <3>2 DEF Worlds
    <3> QED
        BY <3>3
  <2> QED
      BY <2>1, <2>2
<1>3. OsSame(k, w.sock)
      BY <1>0, BackendFacts, OsOtherBackend
<1> HIDE DEF k, v
<1>4. OsSame(v.sock, w.sock)
      BY <1>1, <1>3, OsSameRefl
<1>5. OsBase(v)
  <2>1. CASE v = w
        BY <2>1
  <2>2. CASE v.backends[w.sock.backend] = FreeBackend
    <3>1. FreeBackend.state # "bound" /\ FreeBackend.owner = "none"
          BY BackendFacts
    <3> QED
        BY <1>1, <2>2, <3>1 DEF OsBase
  <2> QED
      BY <1>2, <2>1, <2>2
<1> QED
    BY <1>1, <1>4, <1>5 DEF v

\* decorate_ssl keeps OsInv: on a failure the caller has its socket back.
LEMMA OsDecorateStep ==
    ASSUME OsInv, NEW b \in DOMAIN os.backends, NEW peer \in osConfig.peers,
           OsDecorate(b, peer)
    PROVE  OsInv'
<1> DEFINE cleaned == CleanupBackend(os)
           taken == [cleaned EXCEPT !.sock.backend = b, !.backends[b].owner = "ssl"]
           start == OsStartSsl(taken, peer)
           s == IF os.backends[b].state \in {"connected", "accepted"}
                THEN start ELSE TlsResult(taken, "ok")
           dropped == [s.w EXCEPT !.sock.backend = NULLSOCK, !.backends[b].owner = "app"]
           closed == TlsResult(OsCloseRaw(dropped), s.err)
           r == IF OsStarted(os) THEN TlsResult(os, "eisconn")
                ELSE IF s.err # "ok" THEN closed
                ELSE s
<1>1. /\ os.backends[b].owner = "app"
      /\ IF r.err = "eisconn" \/ os.backends[b].state = "closed"
         THEN os' = r.w /\ osCall' = OsNoCall /\ UNCHANGED <<osConfig, osSessions, osWire>>
         ELSE OsHandshaken(r, peer)
      BY DEF OsDecorate, DecorateSsl
<1>2. /\ OsBase(os) /\ OsSockGood(os, osSessions, osConfig.dgram)
      /\ osSessions \in SessionSizes /\ osWire \in Seq(OsMessages)
      /\ os \in Worlds(OsRecords) /\ BackendsHaveOneOwner(os) /\ b \in 1 .. 2
      /\ os.sock \in OsRecords
      BY DEF OsInv, OsSockGood, OsBase, Worlds
<1>3. PICK id : /\ Holds(os.sock.buffer, osSessions, id)
                /\ os.sock.ssl /\ StateOpt(os) = "connected" => id \in {0, os.sock.session}
      BY <1>2 DEF OsSockGood
<1>4. /\ os.sock.backend # b /\ os.backends[b].state # "free"
      /\ os.backends[b].state = "closed" \/ os.backends[b].state \in Secured
  <2>1. "app" # "ssl" /\ "app" # "none"
        OBVIOUS
  <2>2. os.backends[b].state # "free" /\ os.sock.backend # b
        BY <1>1, <1>2, <2>1 DEF BackendsHaveOneOwner
  <2>3. os.backends[b].state \in BackendStates /\ os.backends[b].state # "bound"
        BY <1>2 DEF OsBase, Worlds, Backend
  <2> QED
      BY <2>2, <2>3 DEF BackendStates, Secured
<1>5. /\ OsBase(cleaned) /\ OsSame(cleaned.sock, os.sock)
      /\ cleaned.sock.backend = NULLSOCK /\ cleaned.backends[b] = os.backends[b]
      BY <1>2, <1>4, OsCleanupFacts
<1> HIDE DEF cleaned
<1>6. /\ OsBase(taken) /\ OsSame(taken.sock, os.sock) /\ taken.sock.backend = b
      /\ taken.backends[b].state = os.backends[b].state
  <2> DEFINE k == [cleaned.sock EXCEPT !.backend = b]
             owner == "ssl"
             t == GiveTo(cleaned, b, b, owner)
  <2>1. owner \in Owners /\ owner = "ssl" /\ b \in Handles /\ b \in 1 .. 2
        BY <1>2, BackendFacts DEF Owners
  <2>2. /\ cleaned \in Worlds(OsRecords) /\ BackendsHaveOneOwner(cleaned)
        /\ cleaned.backends[b].state # "free" /\ cleaned.sock.backend = NULLSOCK
        BY <1>4, <1>5 DEF OsBase
  <2> HIDE DEF owner
  <2>3. /\ t \in Worlds(OsRecords) /\ BackendsHaveOneOwner(t)
        /\ t.sock = k /\ t.sock.backend = b
        /\ \A d \in 1 .. 2 : /\ t.backends[d].state = cleaned.backends[d].state
                             /\ t.backends[d].timeout = cleaned.backends[d].timeout
        /\ \A d \in 1 .. 2 : d # b => t.backends[d] = cleaned.backends[d]
        BY SMTT(30), <2>1, <2>2, OsRecordFacts, OwnerFacts
  <2>4. OsSame(k, cleaned.sock)
        BY <2>1, <2>2, OsOtherBackend DEF Worlds
  <2>5. taken = t
        BY <2>1 DEF GiveTo
  <2>6. cleaned.backends[b].owner # "none"
        BY <2>1, <2>2 DEF BackendsHaveOneOwner, Worlds
  <2> HIDE DEF k, t, taken
  <2>7. OsBase(t)
        BY <1>5, <2>1, <2>3, <2>6 DEF OsBase
  <2>8. OsSame(t.sock, os.sock)
        BY <1>5, <2>3, <2>4 DEF OsSame
  <2> QED
      BY <1>2, <1>5, <2>3, <2>5, <2>7, <2>8
<1> HIDE DEF taken
<1>7. CASE OsStarted(os)
  <2>1. r = TlsResult(os, "eisconn")
        BY <1>7
  <2> HIDE DEF r
  <2>2. r.w = os /\ r.err = "eisconn"
        BY SMT, <2>1 DEF TlsResult
  <2>3. /\ os' = os /\ osCall' = OsNoCall
        /\ osConfig' = osConfig /\ osSessions' = osSessions /\ osWire' = osWire
        BY <1>1, <2>2
  <2> QED
      BY <1>2, <2>3, OsQuietStep
<1>8. CASE ~OsStarted(os) /\ os.backends[b].state = "closed"
  <2>1. "closed" \notin {"connected", "accepted"}
        OBVIOUS
  <2>2. s = TlsResult(taken, "ok")
        BY <1>8, <2>1
  <2> HIDE DEF s, closed
  <2>3. s.w = taken /\ s.err = "ok"
        BY SMT, <2>2 DEF TlsResult
  <2>4. r = s
        BY <1>8, <2>3
  <2> HIDE DEF r
  <2>5. /\ os' = taken /\ osCall' = OsNoCall
        /\ osConfig' = osConfig /\ osSessions' = osSessions /\ osWire' = osWire
        BY <1>1, <1>8, <2>3, <2>4
  <2>6. OsSockGood(taken, osSessions, osConfig.dgram)
        BY <1>2, <1>3, <1>6, <1>8 DEF OsSockGood, OsSame, OsStarted
  <2> QED
      BY <1>2, <2>5, <2>6, OsQuietStep
<1>9. CASE ~OsStarted(os) /\ os.backends[b].state \in Secured
  <2>1. s = start
        BY <1>9 DEF Secured
  <2>2. StateOpt(taken) \in Secured
        BY <1>2, <1>6, <1>9, BackendFacts DEF StateOpt
  <2>3. /\ OsBase(start.w) /\ start.w.backends = taken.backends
        /\ start.w.sock.backend = taken.sock.backend /\ start.err \in OsErrors
        /\ start.w.sock.buffer = os.sock.buffer \/ start.err = "ok"
        /\ start.err = "ok" => OsOutcome(start, peer, id)
        /\ \A v : /\ start.err # "ok" /\ OsBase(v) /\ ~v.sock.ssl
                  /\ v.sock.avail = <<>> /\ v.sock.buffer = start.w.sock.buffer
                  => OsOutcome(TlsResult(v, start.err), peer, id)
        BY <1>3, <1>6, <2>2, OsStartedOutcome
  <2> HIDE DEF start, s
  <2>4. "eisconn" \notin OsErrors /\ "closed" \notin Secured
        BY DEF OsErrors, Secured
  <2>5. CASE s.err = "ok"
    <3>1. r = start
          BY <1>9, <2>1, <2>5
    <3> HIDE DEF r
    <3>2. OsHandshaken(r, peer)
          BY <1>1, <1>9, <2>3, <2>4, <3>1
    <3> QED
        BY <1>3, <2>1, <2>3, <2>5, <3>1, <3>2, OsOutcomeStep
  <2>6. CASE s.err # "ok"
    <3> DEFINE u == start.w
               owner == "app"
               h == NULLSOCK
               t == GiveTo(u, h, b, owner)
               z == OsCloseRaw(t)
    <3>1. /\ owner \in Owners /\ owner = "app" /\ h \in Handles /\ h = NULLSOCK
          /\ u \in Worlds(OsRecords) /\ BackendsHaveOneOwner(u) /\ b \in 1 .. 2
          /\ u.sock.backend = b /\ u.backends[b].state # "free"
          BY <1>2, <1>4, <1>6, <2>3, BackendFacts DEF Owners, OsBase
    <3>2. dropped = t
          BY <2>1, <3>1 DEF GiveTo
    <3> HIDE DEF owner, h, u
    <3>3. /\ t \in Worlds(OsRecords) /\ BackendsHaveOneOwner(t)
          /\ t.sock = [u.sock EXCEPT !.backend = h]
          /\ \A d \in 1 .. 2 : /\ t.backends[d].state = u.backends[d].state
                               /\ t.backends[d].timeout = u.backends[d].timeout
          /\ \A d \in 1 .. 2 : d # b => t.backends[d] = u.backends[d]
          BY SMT, <3>1, OsRecordFacts, OwnerFacts
    <3>4. OsSame([u.sock EXCEPT !.backend = h], u.sock)
          BY <3>1, OsOtherBackend DEF Worlds
    <3>5. u.backends[b].owner # "none"
          BY <3>1 DEF BackendsHaveOneOwner, Worlds
    <3> HIDE DEF t, dropped
    <3>6. OsBase(u)
          BY <2>3 DEF u
    <3>7. OsBase(t) /\ t.sock.buffer = u.sock.buffer
          BY <3>1, <3>3, <3>4, <3>5, <3>6 DEF OsBase, OsSame
    <3>8. OsBase(z) /\ ~z.sock.ssl /\ z.sock.avail = <<>> /\ z.sock.buffer = u.sock.buffer
          BY <3>7, OsCloseRawFacts
    <3>9. closed = TlsResult(z, start.err)
          BY <2>1, <3>2
    <3> HIDE DEF z, closed
    <3>10. closed.err = start.err
          BY SMT, <3>9 DEF TlsResult
    <3>11. r = closed
          BY <1>9, <2>6
    <3> HIDE DEF r
    <3>12. OsHandshaken(r, peer)
          BY <1>1, <1>9, <2>3, <2>4, <3>10, <3>11
    <3>13. OsOutcome(r, peer, id)
          BY <2>1, <2>3, <2>6, <3>8, <3>9, <3>11 DEF u
    <3> QED
        BY <1>3, <3>12, <3>13, OsOutcomeStep
  <2> QED
      BY <2>5, <2>6
<1> QED
    BY <1>4, <1>7, <1>8, <1>9

\* A new socket of the application keeps OsInv,
LEMMA OsAppSocketStep ==
    ASSUME OsInv, NEW state \in osConfig.appStates, OsAppSocket(state)
    PROVE  OsInv'
<1>1. PICK b \in Unallocated(os) : os' = [os EXCEPT !.backends[b] = NewBackend("app", state)]
      BY DEF OsAppSocket
<1>2. /\ osCall' = OsNoCall
      /\ osConfig' = osConfig /\ osSessions' = osSessions /\ osWire' = osWire
      BY DEF OsAppSocket
<1>3. /\ OsBase(os) /\ os \in Worlds(OsRecords) /\ BackendsHaveOneOwner(os)
      /\ osSessions \in SessionSizes /\ osWire \in Seq(OsMessages)
      /\ b \in 1 .. 2 /\ os.backends[b].state = "free"
      BY DEF OsInv, OsSockGood, OsBase, Unallocated, Worlds
<1>4. state \in BackendStates /\ state # "free" /\ state # "bound"
  <2>1. state \in {"closed", "connected", "accepted"}
        BY OsAssumption DEF OsInv
  <2> QED
      BY <2>1 DEF BackendStates
<1> DEFINE v == [os EXCEPT !.backends[b] = NewBackend("app", state)]
<1>5. /\ v \in Worlds(OsRecords) /\ BackendsHaveOneOwner(v) /\ v.sock = os.sock
      /\ \A d \in 1 .. 2 : \/ d = b /\ v.backends[d] = NewBackend("app", state)
                           \/ d # b /\ v.backends[d] = os.backends[d]
      BY <1>3, <1>4, OsRecordFacts, AppSocketFacts
<1>6. /\ NewBackend("app", state).timeout = 1 /\ NewBackend("app", state).state = state
  <2>1. "app" \in Owners
        BY DEF Owners
  <2> QED
      BY <1>4, <2>1, BackendFacts
<1> HIDE DEF v
<1>7. OsBase(v)
      BY <1>3, <1>4, <1>5, <1>6 DEF OsBase
<1>8. StateOpt(v) = StateOpt(os)
  <2>1. "none" # "ssl"
        OBVIOUS
  <2>2. os.sock.backend # b
        BY <1>3, <2>1 DEF BackendsHaveOneOwner, Worlds
  <2>3. os.sock.backend # NULLSOCK => os.sock.backend \in 1 .. 2
        BY <1>3, BackendFacts, OsRecordFacts DEF Worlds, TlsSocks
  <2> QED
      BY <1>5, <2>2, <2>3 DEF StateOpt
<1>9. OsSockGood(v, osSessions, osConfig.dgram)
      BY <1>5, <1>7, <1>8 DEF OsInv, OsSockGood
<1> QED
    BY <1>1, <1>2, <1>3, <1>9, OsQuietStep DEF v

\* A socket that has been closed
LEMMA OsClosedGood ==
    ASSUME OsInv
    PROVE  OsSockGood(OsCloseRaw(os), osSessions, osConfig.dgram)
<1> DEFINE v == OsCloseRaw(os)
<1>1. PICK id : Holds(os.sock.buffer, osSessions, id)
      BY DEF OsInv, OsSockGood
<1>2. OsBase(v) /\ ~v.sock.ssl /\ v.sock.avail = <<>> /\ v.sock.buffer = os.sock.buffer
      BY OsCloseRawFacts DEF OsInv, OsSockGood
<1> HIDE DEF v
<1>3. OsSockGood(v, osSessions, osConfig.dgram)
      BY <1>1, <1>2 DEF OsSockGood
<1> QED
    BY <1>3 DEF v

\* so does close_ssl,
LEMMA OsCloseStep == ASSUME OsInv, OsClose PROVE OsInv'
<1>1. /\ os' = OsCloseRaw(os) /\ osCall' = OsNoCall /\ osWire' = <<>>
      /\ osConfig' = osConfig /\ osSessions' = osSessions
      BY DEF OsClose
<1>2. osWire' \in Seq(OsMessages)
      BY SMT, <1>1
<1>3. osSessions' \in SessionSizes /\ OsSockGood(os', osSessions', osConfig.dgram)
      BY <1>1, OsClosedGood DEF OsInv
<1> QED
    BY <1>1, <1>2, <1>3, OsQuietStep

\* The record of a new socket, over the application's session buffer.
LEMMA OsNewSockFacts ==
    ASSUME NEW buffer \in Seq(Nat)
    PROVE  LET s == OsNewSock(buffer) IN
           /\ s \in OsRecords /\ s.backend = NULLSOCK /\ s.ssl = FALSE
           /\ s.avail = <<>> /\ s.buffer = buffer
<1>1. {} \in OsTlsas /\ NULLSOCK \in Handles
      BY BackendFacts DEF OsTlsas
<1>2. 0 \in Nat /\ <<>> \in Seq(Int)
      BY SMT
<1>3. OsNewSock(buffer) \in OsRecords
      BY <1>1, <1>2 DEF OsNewSock, OsRecords
<1>4. LET s == OsNewSock(buffer) IN
      s.backend = NULLSOCK /\ s.ssl = FALSE /\ s.avail = <<>> /\ s.buffer = buffer
      BY SMT DEF OsNewSock
<1> QED
    BY <1>3, <1>4

\* cleanup_ssl followed by create_ssl_socket keeps OsInv,
LEMMA OsRecreateStep == ASSUME OsInv, OsRecreate PROVE OsInv'
<1> DEFINE u == OsCloseRaw(os)
           w == CleanupBackend(u)
           n == OsNewSock(w.sock.buffer)
<1>1. /\ os' = [w EXCEPT !.sock = n] /\ osCall' = OsNoCall /\ osWire' = <<>>
      /\ osConfig' = osConfig /\ osSessions' = osSessions
      BY DEF OsRecreate
<1>2. OsBase(u) /\ u.sock.buffer = os.sock.buffer
      BY OsCloseRawFacts DEF OsInv, OsSockGood
<1>3. PICK id : Holds(os.sock.buffer, osSessions, id)
      BY DEF OsInv, OsSockGood
<1> HIDE DEF u
<1>4. OsBase(w) /\ w.sock.backend = NULLSOCK /\ w.sock.buffer = os.sock.buffer
      BY <1>2, OsCleanupFacts DEF OsSame
<1> HIDE DEF w
<1>5. n \in OsRecords /\ n.backend = NULLSOCK /\ n.ssl = FALSE
      /\ n.avail = <<>> /\ n.buffer = os.sock.buffer
  <2>1. w.sock.buffer \in Seq(Nat)
        BY <1>4 DEF OsBase, Worlds, OsRecords
  <2> QED
      BY <1>4, <2>1, OsNewSockFacts
<1> HIDE DEF n
<1>6. OsBase(os') /\ os'.sock = n
      BY <1>1, <1>4, <1>5, OsOtherSock
<1>7. OsSockGood(os', osSessions, osConfig.dgram)
      BY <1>3, <1>5, <1>6 DEF OsSockGood
<1>8. osWire' \in Seq(OsMessages)
      BY SMT, <1>1
<1>9. osSessions' \in SessionSizes
      BY <1>1 DEF OsInv
<1> QED
    BY <1>1, <1>7, <1>8, <1>9, OsQuietStep

\* so do new TLSA records,
LEMMA OsSetTlsaStep ==
    ASSUME OsInv, NEW records \in osConfig.tlsas, OsSetTlsa(records)
    PROVE  OsInv'
<1> DEFINE s == [os.sock EXCEPT !.tlsa = records]
<1>1. /\ osCall' = OsNoCall
      /\ osConfig' = osConfig /\ osSessions' = osSessions /\ osWire' = osWire
      BY DEF OsSetTlsa
<1>2. OsBase(os) /\ os \in Worlds(OsRecords) /\ os.sock \in OsRecords
      BY DEF OsInv, OsSockGood, OsBase, Worlds
<1>3. os' = [os EXCEPT !.sock = s]
  <2>1. os' = TlsResult([os EXCEPT !.sock.tlsa = records], "ok").w
        BY DEF OsSetTlsa, SetDaneTlsaArray
  <2>2. TlsResult([os EXCEPT !.sock.tlsa = records], "ok").w = [os EXCEPT !.sock.tlsa = records]
        BY SMT DEF TlsResult
  <2> QED
      BY <2>1, <2>2
<1>4. records \in OsTlsas
      BY DEF OsInv, OsTlsas
<1>5. s \in OsRecords
      BY <1>2, <1>4 DEF OsRecords
<1>6. /\ s.backend = os.sock.backend /\ s.ssl = os.sock.ssl /\ s.buffer = os.sock.buffer
      /\ s.session = os.sock.session /\ s.avail = os.sock.avail
      BY SMT, <1>2 DEF OsRecords
<1> HIDE DEF s
<1>7. OsBase(os') /\ os'.sock = s /\ os'.backends = os.backends
      BY <1>2, <1>3, <1>5, <1>6, OsOtherSock
<1>8. StateOpt(os') = StateOpt(os)
      BY <1>6, <1>7 DEF StateOpt
<1>9. OsSockGood(os', osSessions, osConfig.dgram)
      BY <1>6, <1>7, <1>8 DEF OsInv, OsSockGood
<1> QED
    BY <1>1, <1>9, OsQuietStep DEF OsInv

\* another session on the same connection: the buffer holds it or zeroes,
LEMMA OsNewTicketStep == ASSUME OsInv, NEW n \in OsSizes, OsNewTicket(n) PROVE OsInv'
<1> DEFINE id == Len(osSessions) + 1
           more == Append(osSessions, n)
           new == NewSessionCb(os.sock.buffer, id, n)
           s == [os.sock EXCEPT !.buffer = new, !.session = id]
<1>1. /\ osCall' = OsNoCall /\ osSessions' = more
      /\ osConfig' = osConfig /\ osWire' = osWire
      BY DEF OsNewTicket
<1>2. /\ OsBase(os) /\ os \in Worlds(OsRecords) /\ os.sock \in OsRecords
      /\ os.sock.buffer \in Seq(Nat) /\ osSessions \in SessionSizes
      BY DEF OsInv, OsSockGood, OsBase, Worlds, OsRecords
<1>3. n \in Nat \ {0}
      BY OsAssumption
<1>4. /\ new \in Seq(Nat) /\ \E held \in {0, id} : Holds(new, more, held)
      BY <1>2, <1>3, NewSessionFacts
<1>5. id \in Nat /\ more \in SessionSizes
      BY SMTT(30), <1>2, <1>3 DEF SessionSizes
<1>6. os' = [os EXCEPT !.sock = s]
  <2> HIDE DEF id
  <2>1. os' = [os EXCEPT !.sock.buffer = NewSessionCb(@, id, n), !.sock.session = id]
        BY DEF OsNewTicket, id
  <2>2. [os EXCEPT !.sock.buffer = NewSessionCb(@, id, n), !.sock.session = id]
            = [os EXCEPT !.sock = s]
        BY <1>2 DEF Worlds
  <2> QED
      BY <2>1, <2>2
<1> HIDE DEF new, id, more
<1>7. s \in OsRecords
      BY <1>2, <1>4, <1>5 DEF OsRecords
<1>8. /\ s.backend = os.sock.backend /\ s.ssl = os.sock.ssl /\ s.buffer = new
      /\ s.session = id /\ s.avail = os.sock.avail
      BY SMT, <1>2 DEF OsRecords
<1> HIDE DEF s
<1>9. OsBase(os') /\ os'.sock = s /\ os'.backends = os.backends
      BY <1>2, <1>6, <1>7, <1>8, OsOtherSock
<1>10. StateOpt(os') = StateOpt(os)
       BY <1>8, <1>9 DEF StateOpt
<1>11. OsSockGood(os', more, osConfig.dgram)
       BY <1>4, <1>8, <1>9, <1>10 DEF OsInv, OsSockGood
<1> QED
    BY <1>1, <1>5, <1>11, OsQuietStep DEF OsInv

\* a record of the peer,
LEMMA OsPeerSendsStep == ASSUME OsInv, NEW n \in OsSizes, OsPeerSends(n) PROVE OsInv'
<1> DEFINE message == [i \in 1 .. n |-> OsLastByte + i]
<1>1. /\ osCall' = OsNoCall /\ osWire' = Append(osWire, message)
      /\ os' = os /\ osConfig' = osConfig /\ osSessions' = osSessions
      BY DEF OsPeerSends
<1>2. osWire \in Seq(OsMessages) /\ os.sock.avail \in Seq(Int)
      BY DEF OsInv, OsSockGood, OsBase, Worlds, OsRecords
<1>3. OsLastByte \in Int
  <2>1. ASSUME osWire # <<>> PROVE OsLastByte \in Int
    <3> DEFINE m == osWire[Len(osWire)]
    <3>1. m \in OsMessages
          BY SMTT(30), <1>2, <2>1
    <3> HIDE DEF m
    <3>2. m[Len(m)] \in Int
          BY SMT, <3>1 DEF OsMessages
    <3> QED
        BY <2>1, <3>2 DEF OsLastByte, m
  <2>2. ASSUME osWire = <<>> PROVE OsLastByte \in Int
        BY SMTT(30), <1>2, <2>2 DEF OsLastByte
  <2> QED
      BY <2>1, <2>2
<1>4. message \in OsMessages
  <2>1. n \in Nat /\ n # 0
        BY OsAssumption
  <2>2. message \in [1 .. n -> Int] /\ message \in Seq(Int) /\ Len(message) = n
    <3> HIDE DEF OsLastByte
    <3> QED
        BY SMTT(30), <1>3, <2>1
  <2> HIDE DEF message
  <2> QED
      BY SMTT(30), <2>1, <2>2 DEF OsMessages
<1> HIDE DEF message
<1>5. osWire' \in Seq(OsMessages)
      BY SMTT(30), <1>1, <1>2, <1>4
<1> QED
    BY <1>1, <1>5, OsQuietStep DEF OsInv

\* receive_ssl,
LEMMA OsReceiveStep == ASSUME OsInv, NEW len \in OsSizes, OsReceive(len) PROVE OsInv'
<1> DEFINE r == OsReceiveSsl(os, osWire, len)
           message == IF osWire = <<>> THEN <<>> ELSE Head(osWire)
           avail == os.sock.avail
<1>1. /\ os.sock.ssl /\ os' = AvsBioRead(r.w, 0) /\ osWire' = r.records
      /\ osCall' = [op |-> "receive", err |-> r.err, out |-> r.out, len |-> len,
                    rest |-> avail, message |-> message]
      /\ osConfig' = osConfig /\ osSessions' = osSessions
      BY DEF OsReceive
<1>2. /\ OsBase(os) /\ osConfig \in OsConfigs /\ osWire \in Seq(OsMessages)
      /\ osConfig.dgram => os.sock.avail = <<>>
      BY DEF OsInv, OsSockGood
<1>3. os.sock.backend # NULLSOCK
  <2>1. StateOpt(os) \in Secured
        BY <1>1 DEF OsInv, OsSockGood
  <2> QED
      BY <2>1 DEF StateOpt, Secured
<1>4. /\ OsBase(r.w) /\ r.w.backends = os.backends
      /\ OsSameSession(r.w.sock, os.sock)
      /\ osConfig.dgram => r.w.sock.avail = <<>>
      /\ r.records \in Seq(OsMessages)
      /\ OsWhole(osConfig.dgram, r.err, r.out, len, avail, message)
      BY <1>2, <1>3, OsReceiveFacts
<1> HIDE DEF r, message, avail
<1>5. os' = r.w
  <2>1. r.w \in Worlds(OsRecords) /\ 0 \in Nat
        BY SMTT(30), <1>4 DEF OsBase
  <2> QED
      BY <1>1, <2>1, BioReadFacts
<1>6. StateOpt(os') = StateOpt(os)
      BY <1>4, <1>5 DEF StateOpt, OsSameSession
<1>7. OsSockGood(os', osSessions, osConfig.dgram)
      BY <1>4, <1>5, <1>6 DEF OsInv, OsSockGood, OsSameSession
<1>8. OsSockGood(os, osSessions, osConfig.dgram)'
      BY <1>1, <1>7 DEF OsSockGood, OsBase, BackendsHaveOneOwner, StateOpt, Holds
<1>9. /\ osCall'.op = "receive" /\ osCall'.err = r.err /\ osCall'.out = r.out
      /\ osCall'.len = len /\ osCall'.rest = avail /\ osCall'.message = message
      BY SMT, <1>1
<1>10. OsMessagesWhole'
       BY <1>1, <1>4, <1>9 DEF OsMessagesWhole, OsWhole
<1>11. OsCallGood'
       BY <1>9, <1>10 DEF OsCallGood, OsVerifiesExactly, OsTimerBacksOff, OsCiphersAllowed
<1> QED
    BY <1>1, <1>4, <1>8, <1>11 DEF OsInv

\* and send_ssl.
LEMMA OsSendStep ==
    ASSUME OsInv, NEW n \in OsSizes, NEW sent \in {0, 1}, OsSend(n, sent)
    PROVE  OsInv'
<1> DEFINE err == IF sent < n THEN "eproto" ELSE "ok"
           all == sent = n
<1>1. /\ sent <= n /\ osCall' = [op |-> "send", err |-> err, all |-> all]
      /\ os' = os /\ osConfig' = osConfig /\ osSessions' = osSessions /\ osWire' = osWire
      BY DEF OsSend
<1>2. n \in Nat
      BY OsAssumption
<1>3. err = "ok" <=> all
      BY SMT, <1>1, <1>2
<1> HIDE DEF err, all
<1>4. osCall'.op = "send" /\ osCall'.err = err /\ osCall'.all = all
      BY SMT, <1>1
<1>5. OsMessagesWhole'
      BY <1>3, <1>4 DEF OsMessagesWhole
<1>6. OsCallGood'
      BY <1>4, <1>5 DEF OsCallGood, OsVerifiesExactly, OsTimerBacksOff, OsCiphersAllowed
<1>7. OsSockGood(os, osSessions, osConfig.dgram)'
      BY <1>1 DEF OsInv, OsSockGood, OsBase, BackendsHaveOneOwner, StateOpt, Holds
<1> QED
    BY <1>1, <1>6, <1>7 DEF OsInv

\* OsInv holds at first,
LEMMA OsInitInv == OsInit => OsInv
<1> SUFFICES ASSUME NEW c \in OsConfigs, OsStart(c) PROVE OsInv
    BY DEF OsInit
<1> DEFINE buffer == OsZeroes(c.bufsize)
           n == OsNewSock(buffer)
           free == [b \in 1 .. 2 |-> FreeBackend]
<1>1. /\ osConfig = c /\ osSessions = <<>> /\ osWire = <<>> /\ osCall = OsNoCall
      /\ os = [sock |-> n, backends |-> free]
      BY DEF OsStart
<1>2. /\ buffer \in Seq(Nat) /\ \A i \in 1 .. Len(buffer) : buffer[i] = 0
  <2>1. c.bufsize \in Nat
        BY OsAssumption
  <2> QED
      BY SMT, <2>1 DEF OsZeroes
<1> HIDE DEF buffer
<1>3. /\ n \in OsRecords /\ n.backend = NULLSOCK /\ n.ssl = FALSE
      /\ n.avail = <<>> /\ n.buffer = buffer
      BY <1>2, OsNewSockFacts
<1> HIDE DEF n
<1>4. /\ FreeBackend \in Backend /\ FreeBackend.state = "free" /\ FreeBackend.owner = "none"
      BY BackendFacts
<1>5. /\ os.sock = n /\ os.backends = free
      /\ os \in [sock : OsRecords, backends : [1 .. 2 -> Backend]]
  <2>1. os.sock = n /\ os.backends = free
        BY SMTT(30), <1>1
  <2>2. free \in [1 .. 2 -> Backend]
        BY <1>4
  <2> HIDE DEF free
  <2> QED
      BY <1>1, <1>3, <2>1, <2>2
<1>6. \A b \in 1 .. 2 : os.backends[b] = FreeBackend
      BY <1>5
<1>7. OsBase(os)
  <2>1. os \in Worlds(OsRecords)
        BY <1>5 DEF Worlds
  <2>2. "none" # "ssl" /\ "free" # "bound"
        OBVIOUS
  <2>3. \A b \in 1 .. 2 : b # NULLSOCK
        BY BackendFacts
  <2>4. BackendsHaveOneOwner(os)
    <3>1. DOMAIN os.backends = 1 .. 2
          BY <1>5
    <3> QED
        BY <1>3, <1>4, <1>5, <1>6, <2>2, <2>3, <3>1 DEF BackendsHaveOneOwner
  <2> QED
      BY <1>4, <1>6, <2>1, <2>2, <2>4 DEF OsBase
<1>8. osSessions \in SessionSizes /\ osWire \in Seq(OsMessages) /\ Len(osSessions) = 0
      BY SMTT(30), <1>1 DEF SessionSizes
<1>9. Holds(buffer, osSessions, 0)
      BY SMTT(30), <1>2, <1>8 DEF Holds
<1>10. OsSockGood(os, osSessions, osConfig.dgram)
       BY <1>3, <1>5, <1>7, <1>9 DEF OsSockGood
<1>11. osCall.op = "none"
       BY SMT, <1>1 DEF OsNoCall
<1>12. OsCallGood
       BY <1>11 DEF OsCallGood, OsVerifiesExactly, OsTimerBacksOff, OsCiphersAllowed,
                    OsMessagesWhole
<1> QED
    BY <1>1, <1>8, <1>10, <1>12 DEF OsInv

\* and every step keeps it.
LEMMA OsInvKept == OsInv /\ [OsNext]_osVars => OsInv'
<1> SUFFICES ASSUME OsInv, [OsNext]_osVars PROVE OsInv'
    OBVIOUS
<1>1. CASE OsNext
  <2>1. DOMAIN os.backends = 1 .. 2
        BY DEF OsInv, OsSockGood, OsBase, Worlds
  <2> QED
      BY <1>1, <2>1, OsConnectStep, OsDecorateStep, OsAppSocketStep, OsCloseStep,
         OsRecreateStep, OsSetTlsaStep, OsNewTicketStep, OsPeerSendsStep, OsReceiveStep,
         OsSendStep
         DEF OsNext
<1>2. CASE UNCHANGED osVars
  <2>1. /\ os' = os /\ osConfig' = osConfig /\ osSessions' = osSessions
        /\ osWire' = osWire /\ osCall' = osCall
        BY <1>2 DEF osVars
  <2>2. OsSockGood(os, osSessions, osConfig.dgram)'
        BY <2>1 DEF OsInv, OsSockGood, OsBase, BackendsHaveOneOwner, StateOpt, Holds
  <2>3. OsVerifiesExactly'
        BY <2>1 DEF OsInv, OsCallGood, OsVerifiesExactly
  <2>4. OsTimerBacksOff'
        BY <2>1 DEF OsInv, OsCallGood, OsTimerBacksOff
  <2>5. OsCiphersAllowed'
        BY <2>1 DEF OsInv, OsCallGood, OsCiphersAllowed
  <2>6. OsMessagesWhole'
        BY <2>1 DEF OsInv, OsCallGood, OsMessagesWhole
  <2> QED
      BY <2>1, <2>2, <2>3, <2>4, <2>5, <2>6 DEF OsInv, OsCallGood
<1> QED
    BY <1>1, <1>2

\* OpensslCorrect: through any sequence of connections, refusals, tickets,
\* records and reconnections, the backend socket has one owner and its own
\* timeout, a peer is accepted exactly by the policy, retransmissions back off
\* to the maximum without overflow, only enabled ciphers are offered, the
\* session buffer holds the newest session or zeroes, and messages come whole.
THEOREM OpensslAlwaysCorrect == OsSpec => []OpensslCorrect
<1> QED
    BY OsInitInv, OsInvKept, OsInvCorrect, PTL DEF OsSpec

=============================================================================
