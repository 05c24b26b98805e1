-------------------------- MODULE PosixSocketProofs --------------------------
EXTENDS PosixSocket, TLAPS

(***************************************************************************)
(* Proofs about PosixSocket: what holds of the sockets of avs_net_impl.c   *)
(* for any number of sockets, descriptors, hosts and addresses.            *)
(*                                                                         *)
(* StateMatchesKernel speaks of the time between calls.  To get there the  *)
(* invariant IInv says of every socket what stays true during a call       *)
(* (Truthful, Settled), names the one exception (the socket connect_net is *)
(* opening, Exempt) and keeps, for each kind of call, what its next step   *)
(* needs (ConnectInv, SendInv, AcceptInv).  A handler may take any         *)
(* descriptor away at any wait, so nothing in it says that a descriptor is *)
(* there.                                                                  *)
(***************************************************************************)

(* A descriptor belongs to one object: DescriptorsOwnedOnce by halves.       *)
Owned(S, k) ==
    /\ \A s \in Sockets : S[s] # None /\ S[s].socket # None => k[S[s].socket] # None
    /\ \A s, t \in Sockets :
        S[s] # None /\ S[t] # None /\ s # t /\ S[s].socket # None =>
            S[s].socket # S[t].socket
    /\ \A d \in Fds : k[d] # None => \E s \in Sockets : S[s] # None /\ S[s].socket = d

(* A socket with a peer says so, at any time.                                *)
Truthful(x, k) ==
    /\ x.state \in {"CONNECTED", "ACCEPTED"} =>
        /\ x.socket # None /\ x.remote # None /\ k[x.socket].peer = x.remote
    /\ x.state = "ACCEPTED" => k[x.socket].bound

(* What else StateMatchesKernel says of a socket.                            *)
Settled(x, k) ==
    /\ x.socket # None => x.state # "CLOSED"
    /\ x.socket # None /\ x.state = "BOUND" =>
        /\ k[x.socket].bound /\ k[x.socket].listening = (x.type = "TCP")
        /\ x.type = "TCP" => k[x.socket].peer = None

(* connect_net holds a descriptor it made itself.                            *)
OwnDescriptor(c) ==
    c.pc \in {"connecting", "sending"} /\ c.op = "connect" /\ ~c.opened

(* The one socket that Settled does not hold of: that of a connect_net in    *)
(* progress whose descriptor is not yet the peer of anything.                *)
Exempt(c, s) == c # Idle /\ OwnDescriptor(c) /\ s = c.s

(* The walk of an accept has a family left that can hold the IPv4 address of *)
(* its peer.                                                                 *)
PeerLeft(c, x) == c.mode = "ONLY" /\ RequestedFamily(x.configuration, "BLOCKED") = {"INET4"}

(* The state names no peer.                                                  *)
Unconnected(x) == x.state \notin {"CONNECTED", "ACCEPTED"}

(* A connect_net between two waits: connect_impl has its host, a descriptor  *)
(* that was there before the walk is that of a UDP socket, and while an      *)
(* address is being tried it is one of those that are left.                  *)
ConnectInv(c, S, k) ==
    /\ c.pc \in {"next", "connecting", "sending"}
    /\ c.server = None /\ c.host # None
    /\ Unconnected(S[c.s])
    /\ c.pc = "next" /\ S[c.s].socket # None => S[c.s].type = "UDP"
    /\ c.pc # "next" => c.left > 0
    /\ c.pc # "next" /\ c.opened => S[c.s].type = "UDP"

(* A send_net or send_to_net between two waits: the bytes still to be sent   *)
(* fit under the bound, and no datagram has been sent in part.               *)
SendInv(c, S, k, tk) ==
    /\ c.op = "send" => c.pc = "sending"
    /\ c.op = "send_to" => /\ c.pc \in {"next", "sending_to"} /\ c.sent = 0
                           /\ c.pc = "sending_to" => c.left > 0
    /\ c.sent <= c.length /\ tk[c.s] + c.length - c.sent <= MaxBytes
    /\ S[c.s].type = "UDP" => c.sent = 0

(* An accept_net between two waits, of the new socket and the server.  Until *)
(* the wait for a client ends the new socket has no descriptor.  Afterwards  *)
(* the descriptor and the state have been swapped: the server has none, and  *)
(* the new one is BOUND to the address the server had and names the peer.    *)
(* The peer has one address in one family, so the walk tries the swapped     *)
(* descriptor, and never one it would have to make itself: once an address   *)
(* is left to try, or a family that can have one, the descriptor is there    *)
(* unless a handler closed it during the only attempt.                       *)
AcceptOf(c, new, server, k) ==
    /\ c.pc \in {"accepting", "peeking", "next", "connecting"}
    /\ new.type = server.type
    /\ new.type = (IF c.pc = "accepting" THEN "TCP" ELSE "UDP")
    /\ Unconnected(new) /\ Unconnected(server)
    /\ c.pc \in {"accepting", "peeking"} =>
        /\ new.socket = None
        /\ server.socket # None => server.state = "BOUND"
    /\ c.pc \in {"next", "connecting"} =>
        /\ server.socket = None /\ c.host # None /\ c.left \in {0, 1}
        /\ new.socket # None => new.state = "BOUND" /\ new.remote = c.host
        /\ c.left = 1 => ~PeerLeft(c, new)
    /\ c.pc = "next" /\ (c.left = 1 \/ PeerLeft(c, new)) => new.socket # None
    /\ c.pc = "connecting" =>
        /\ c.left = 1 /\ c.opened
        /\ new.socket # None => k[new.socket].peer = c.host

(* AcceptOf, of the two sockets of the call.                                 *)
AcceptInv(c, S, k) ==
    /\ c.server # None /\ c.server # c.s /\ S[c.server] # None
    /\ AcceptOf(c, S[c.s], S[c.server], k)

(* What is known of the call in progress.                                    *)
CallInv(c, S, k, tk) ==
    c # Idle =>
        /\ S[c.s] # None
        /\ c.op = "connect" => ConnectInv(c, S, k)
        /\ c.op \in {"send", "send_to"} => SendInv(c, S, k, tk)
        /\ c.op = "accept" => AcceptInv(c, S, k)
        /\ c.op = "receive" => c.pc = "receiving"

(* What is known of every socket object: Truthful always, Settled unless it  *)
(* is exempt, and its count of bytes.                                        *)
SocketInv(c, S, k, tk) ==
    \A s \in Sockets : S[s] # None =>
        /\ Truthful(S[s], k)
        /\ ~Exempt(c, s) => Settled(S[s], k)
        /\ S[s].bytes_sent >= tk[s]
        /\ S[s].type = "UDP" => S[s].bytes_sent = tk[s]

(* The types of sock and kern.                                               *)
Objects == [Sockets -> NetSocket \cup {None}]
Kernels == [Fds -> KernelSocket \cup {None}]

(* The inductive invariant.  It is written with the state as parameters so   *)
(* that a step can establish it of values that are not yet sock and kern.    *)
IInv ==
    /\ sock \in Objects /\ kern \in Kernels /\ taken \in [Sockets -> 0..MaxBytes]
    /\ call \in Calls \cup {Idle}
    /\ Owned(sock, kern)
    /\ SocketInv(call, sock, kern, taken)
    /\ CallInv(call, sock, kern, taken)

\* Zenon proves most steps; those with arithmetic or sequences name SMT.
USE ZenonT(120)
-----------------------------------------------------------------------------
(* The operators.                                                          *)

(* get_requested_family gives families, and not IPv4 both as the requested   *)
(* family and as the other one.                                              *)
LEMMA FamilyFacts ==
    ASSUME NEW c \in Configs
    PROVE  /\ \A m \in {"ONLY", "BLOCKED"} : RequestedFamily(c, m) \subseteq Families
           /\ RequestedFamily(c, "ONLY") = {"INET4"} =>
                RequestedFamily(c, "BLOCKED") # {"INET4"}
BY SocketAssumption DEF RequestedFamily, Families, Other

(* How many addresses resolve_addrinfo_for_socket finds: none without a      *)
(* host, and at most one, in the family IPv4, for the peer of an accept.     *)
LEMMA ResolveFacts ==
    ASSUME NEW x, NEW server, NEW host, NEW mode,
           NEW n \in Resolve(x, server, host, mode)
    PROVE  /\ n \in 0..MaxAddresses
           /\ n > 0 => host # None
           /\ server # None /\ n > 0 =>
                n = 1 /\ RequestedFamily(x.configuration, mode) = {"INET4"}
BY SMT, SocketAssumption DEF Resolve

(* What close_net_raw leaves of a socket object.                             *)
LEMMA ClosedFacts ==
    ASSUME NEW x \in NetSocket
    PROVE  /\ Closed(x) \in NetSocket /\ Closed(x) # None
           /\ Closed(x).socket = None /\ Closed(x).type = x.type
           /\ Closed(x).configuration = x.configuration
           /\ Closed(x).bytes_sent = x.bytes_sent
           /\ Closed(x).state = IF Open(x) THEN "CLOSED" ELSE x.state
BY NoneAssumption DEF Closed, NetSocket, States, Open

(* A new system socket has no peer.                                          *)
LEMMA NewSocketFacts ==
    ASSUME NEW f \in Families
    PROVE  /\ NewSocket(f) \in KernelSocket /\ NewSocket(f) # None
           /\ NewSocket(f).peer = None
<1>1. NewSocket(f) \in KernelSocket
      BY DEF NewSocket, KernelSocket
<1> QED BY <1>1, NoneAssumption DEF NewSocket

-----------------------------------------------------------------------------
(* Who owns a descriptor, step by step.                                    *)

(* The same descriptors are free in both kernel tables.                      *)
SameFree(k, k2) == \A d \in Fds : k2[d] = None <=> k[d] = None

(* The object changes and keeps its descriptor.                              *)
LEMMA KeepOwned ==
    ASSUME NEW S \in Objects, NEW k \in Kernels, Owned(S, k),
           NEW s \in Sockets, S[s] # None,
           NEW y \in NetSocket, y.socket = S[s].socket,
           NEW k2, SameFree(k, k2)
    PROVE  Owned([S EXCEPT ![s] = y], k2)
<1>1. y # None
      BY NoneAssumption
<1> DEFINE T == [S EXCEPT ![s] = y]
<1>2. /\ T[s] = y /\ \A t \in Sockets \ {s} : T[t] = S[t]
      BY DEF Objects
<1>3. \A t \in Sockets : /\ T[t] # None <=> S[t] # None
                         /\ S[t] # None => T[t].socket = S[t].socket
                         /\ S[t] # None => S[t].socket \in Fds \cup {None}
      BY <1>1, <1>2 DEF Objects, NetSocket
<1> SUFFICES Owned(T, k2) OBVIOUS
<1> HIDE DEF T
<1> QED BY SMT, <1>3 DEF Owned, SameFree

(* The object changes and keeps its descriptor, the kernel does not change.  *)
LEMMA SameOwned ==
    ASSUME NEW S \in Objects, NEW k \in Kernels, Owned(S, k),
           NEW s \in Sockets, S[s] # None,
           NEW y \in NetSocket, y.socket = S[s].socket
    PROVE  Owned([S EXCEPT ![s] = y], k)
<1>1. SameFree(k, k)
      BY DEF SameFree
<1> QED BY <1>1, KeepOwned

(* The object gives up its descriptor, and the kernel takes it back.         *)
LEMMA ReleaseOwned ==
    ASSUME NEW S \in Objects, NEW k \in Kernels, Owned(S, k),
           NEW s \in Sockets, S[s] # None,
           NEW y \in NetSocket \cup {None}, y # None => y.socket = None
    PROVE  Owned([S EXCEPT ![s] = y], KernelClose(k, S[s].socket))
<1> DEFINE T == [S EXCEPT ![s] = y]
           k2 == KernelClose(k, S[s].socket)
<1>1. /\ T[s] = y /\ \A t \in Sockets \ {s} : T[t] = S[t]
      BY DEF Objects
<1>2. S[s].socket \in Fds \cup {None}
      BY DEF Objects, NetSocket
<1>3. \A d \in Fds : k2[d] = IF d = S[s].socket THEN None ELSE k[d]
      BY <1>2, SocketAssumption DEF KernelClose, Kernels
<1>4. \A t \in Sockets : S[t] # None => S[t].socket \in Fds \cup {None}
      BY DEF Objects, NetSocket
<1> SUFFICES Owned(T, k2) OBVIOUS
<1> HIDE DEF T, k2
<1> QED BY SMT, <1>1, <1>2, <1>3, <1>4 DEF Owned

(* The object takes a descriptor that was free.                              *)
LEMMA TakeOwned ==
    ASSUME NEW S \in Objects, NEW k \in Kernels, Owned(S, k),
           NEW s \in Sockets, S[s] # None, S[s].socket = None,
           NEW d \in Fds, k[d] = None,
           NEW y \in NetSocket, y.socket = d,
           NEW z \in KernelSocket
    PROVE  Owned([S EXCEPT ![s] = y], [k EXCEPT ![d] = z])
<1>1. y # None /\ z # None /\ d # None
      BY NoneAssumption, SocketAssumption
<1> DEFINE T == [S EXCEPT ![s] = y]
           k2 == [k EXCEPT ![d] = z]
<1>2. /\ T[s] = y /\ \A t \in Sockets \ {s} : T[t] = S[t]
      BY DEF Objects
<1>3. k2[d] = z /\ \A e \in Fds \ {d} : k2[e] = k[e]
      BY DEF Kernels
<1>4. \A t \in Sockets : S[t] # None => S[t].socket \in Fds \cup {None}
      BY DEF Objects, NetSocket
<1> SUFFICES Owned(T, k2) OBVIOUS
<1> HIDE DEF T, k2
<1>5. \A t \in Sockets \ {s} : S[t] # None => S[t].socket # d
      BY <1>1, <1>4 DEF Owned
<1>6. \A t \in Sockets : T[t] # None /\ T[t].socket # None => k2[T[t].socket] # None
      BY SMT, <1>1, <1>2, <1>3, <1>4, <1>5 DEF Owned
<1>7. \A t, u \in Sockets :
          T[t] # None /\ T[u] # None /\ t # u /\ T[t].socket # None =>
              T[t].socket # T[u].socket
      BY SMT, <1>1, <1>2, <1>5 DEF Owned
<1>8. ASSUME NEW e \in Fds, k2[e] # None
      PROVE  \E t \in Sockets : T[t] # None /\ T[t].socket = e
  <2>1. CASE e = d
        BY <1>1, <1>2, <2>1
  <2>2. CASE e # d
    <3>1. PICK t \in Sockets : S[t] # None /\ S[t].socket = e
          BY <1>3, <1>8, <2>2 DEF Owned
    <3>2. t # s
          BY <3>1, SocketAssumption
    <3> QED BY <1>2, <3>1, <3>2
  <2> QED BY <2>1, <2>2
<1> QED BY <1>6, <1>7, <1>8 DEF Owned

(* Two objects swap descriptors and states.                                  *)
SameButFd(y, x) ==
    /\ y.type = x.type /\ y.configuration = x.configuration
    /\ y.remote = x.remote /\ y.bytes_sent = x.bytes_sent

(* swap_fd_and_state: what it swaps and what it leaves alone.                *)
LEMMA SwapFacts ==
    ASSUME NEW S \in Objects, NEW a \in Sockets, NEW b \in Sockets, a # b,
           S[a] # None, S[b] # None,
           NEW T, T = SwapFdAndState(S, a, b)
    PROVE  /\ T \in Objects /\ T[a] \in NetSocket /\ T[b] \in NetSocket
           /\ T[a].socket = S[b].socket /\ T[a].state = S[b].state
           /\ T[b].socket = S[a].socket /\ T[b].state = S[a].state
           /\ SameButFd(T[a], S[a]) /\ SameButFd(T[b], S[b])
           /\ \A t \in Sockets \ {a, b} : T[t] = S[t]
<1> DEFINE x == [S[a] EXCEPT !.socket = S[b].socket, !.state = S[b].state]
           y == [S[b] EXCEPT !.socket = S[a].socket, !.state = S[a].state]
<1>1. S[a] \in NetSocket /\ S[b] \in NetSocket
      BY DEF Objects
<1>2. /\ x \in NetSocket /\ x.socket = S[b].socket /\ x.state = S[b].state
      /\ SameButFd(x, S[a])
      BY <1>1 DEF NetSocket, SameButFd
<1>3. /\ y \in NetSocket /\ y.socket = S[a].socket /\ y.state = S[a].state
      /\ SameButFd(y, S[b])
      BY <1>1 DEF NetSocket, SameButFd
<1>4. T = [[S EXCEPT ![a] = x] EXCEPT ![b] = y]
      BY DEF SwapFdAndState, Objects
<1> HIDE DEF x, y
<1>5. T \in Objects /\ T[a] = x /\ T[b] = y /\ \A t \in Sockets \ {a, b} : T[t] = S[t]
      BY <1>2, <1>3, <1>4 DEF Objects
<1> QED BY <1>2, <1>3, <1>5

(* Swapping descriptors between two objects keeps every one owned once.      *)
LEMMA SwapOwned ==
    ASSUME NEW S \in Objects, NEW k \in Kernels, Owned(S, k),
           NEW a \in Sockets, NEW b \in Sockets, a # b,
           S[a] # None, S[b] # None
    PROVE  Owned(SwapFdAndState(S, a, b), k)
<1> DEFINE T == SwapFdAndState(S, a, b)
<1>1. /\ T[a] # None /\ T[b] # None
      /\ T[a].socket = S[b].socket /\ T[b].socket = S[a].socket
      /\ \A t \in Sockets \ {a, b} : T[t] = S[t]
      BY SMT, SwapFacts, NoneAssumption
<1> SUFFICES Owned(T, k) OBVIOUS
<1> HIDE DEF T
<1> QED BY SMT, <1>1 DEF Owned

-----------------------------------------------------------------------------
(* What bind_net leaves of a socket without a descriptor.                   *)

(* A system socket as create_listening_socket leaves it.                     *)
ListensOn(z, x) == z.bound /\ z.listening = (x.type = "TCP") /\ z.peer = None

(* A result of bind_net on a socket without a descriptor: it succeeded on a  *)
(* descriptor that was free, or there is no descriptor still.                *)
BindResult(r, x, k) ==
    /\ r.x \in NetSocket /\ r.x.type = x.type /\ r.x.bytes_sent = x.bytes_sent
    /\ r.x.configuration = x.configuration
    /\ ~r.ok => /\ r.k = k /\ r.x.socket = None
                /\ r.x.state \in {x.state, "BOUND", "CLOSED"}
    /\ r.ok => /\ r.x.state = "BOUND"
               /\ r.x.socket \in FreeFds(k)
               /\ \E z \in KernelSocket :
                   r.k = [k EXCEPT ![r.x.socket] = z] /\ ListensOn(z, x)

(* One try_bind keeps to BindResult.                                         *)
LEMMA TryBindFacts ==
    ASSUME NEW x \in NetSocket, x.socket = None, NEW k \in Kernels,
           NEW f \in Families, NEW resolvable, NEW r \in TryBind(x, k, f, resolvable)
    PROVE  BindResult(r, x, k)
<1> DEFINE y == [x EXCEPT !.state = "BOUND"]
           c == [Closed(y) EXCEPT !.state = "CLOSED"]
           z == [NewSocket(f) EXCEPT !.bound = TRUE, !.listening = y.type = "TCP"]
<1>1. /\ y \in NetSocket /\ y.socket = None /\ y.type = x.type /\ y.state = "BOUND"
      /\ y.configuration = x.configuration /\ y.bytes_sent = x.bytes_sent
      BY DEF NetSocket, States
<1>2. /\ Closed(y) \in NetSocket /\ Closed(y).socket = None
      /\ Closed(y).type = x.type /\ Closed(y).state = "BOUND"
      /\ Closed(y).configuration = x.configuration
      /\ Closed(y).bytes_sent = x.bytes_sent
  <2> HIDE DEF y
  <2> QED BY <1>1, ClosedFacts DEF Open
<1>3. /\ c \in NetSocket /\ c.socket = None /\ c.type = x.type /\ c.state = "CLOSED"
      /\ c.configuration = x.configuration /\ c.bytes_sent = x.bytes_sent
  <2> HIDE DEF y
  <2> QED BY <1>2 DEF NetSocket, States
<1>4. z \in KernelSocket /\ ListensOn(z, x)
  <2> HIDE DEF y
  <2> QED BY <1>1 DEF NewSocket, KernelSocket, ListensOn
<1>5. \/ r = [x |-> x, k |-> k, ok |-> FALSE]
      \/ r = [x |-> Closed(y), k |-> k, ok |-> FALSE]
      \/ r = [x |-> c, k |-> k, ok |-> FALSE]
      \/ \E d \in FreeFds(k) :
            r = [x |-> [y EXCEPT !.socket = d], k |-> [k EXCEPT ![d] = z], ok |-> TRUE]
      BY DEF TryBind, CreateListeningSocket
<1>6. CASE \E d \in FreeFds(k) :
             r = [x |-> [y EXCEPT !.socket = d], k |-> [k EXCEPT ![d] = z], ok |-> TRUE]
  <2> HIDE DEF y, z
  <2>1. PICK d \in FreeFds(k) :
            r = [x |-> [y EXCEPT !.socket = d], k |-> [k EXCEPT ![d] = z], ok |-> TRUE]
        BY <1>6
  <2> DEFINE w == [y EXCEPT !.socket = d]
  <2>2. d \in Fds
        BY DEF FreeFds
  <2>3. /\ w \in NetSocket /\ w.type = x.type /\ w.bytes_sent = x.bytes_sent
        /\ w.configuration = x.configuration /\ w.state = "BOUND" /\ w.socket = d
        BY <1>1, <2>2 DEF NetSocket
  <2>4. r.x = w /\ r.ok /\ r.k = [k EXCEPT ![d] = z]
        BY <2>1
  <2> HIDE DEF w
  <2> QED BY <1>4, <2>3, <2>4 DEF BindResult
<1> HIDE DEF y, c
<1>7. CASE r = [x |-> x, k |-> k, ok |-> FALSE]
      BY <1>7 DEF BindResult
<1>8. CASE r = [x |-> Closed(y), k |-> k, ok |-> FALSE]
      BY <1>2, <1>8 DEF BindResult
<1>9. CASE r = [x |-> c, k |-> k, ok |-> FALSE]
      BY <1>3, <1>9 DEF BindResult
<1> QED BY <1>5, <1>6, <1>7, <1>8, <1>9

(* bind_net, one try_bind after the other, keeps to BindResult.              *)
LEMMA BindFacts ==
    ASSUME NEW x \in NetSocket, x.socket = None, NEW k \in Kernels,
           NEW resolvable, NEW r \in BindNet(x, k, resolvable)
    PROVE  BindResult(r, x, k)
<1>1. x.configuration \in Configs
      BY DEF NetSocket
<1>2. \A m \in {"ONLY", "BLOCKED"} :
          RequestedFamily(x.configuration, m) \subseteq Families
      BY <1>1, FamilyFacts
<1>3. ASSUME NEW q, BindResult(q, x, k), ~q.ok,
             NEW f \in RequestedFamily(x.configuration, "BLOCKED"),
             NEW p \in TryBind(q.x, q.k, f, resolvable)
      PROVE  BindResult(p, x, k)
  <2>1. q.x \in NetSocket /\ q.x.socket = None /\ q.k = k
        BY <1>3 DEF BindResult
  <2>2. BindResult(p, q.x, k)
        BY <1>2, <2>1, TryBindFacts
  <2> QED BY <1>3, <2>2 DEF BindResult, ListensOn
<1>4. ASSUME NEW f \in RequestedFamily(x.configuration, "ONLY"),
             NEW q \in TryBind(x, k, f, resolvable)
      PROVE  BindResult(q, x, k)
      BY <1>2, TryBindFacts
<1> DEFINE try(q, mode) == UNION {TryBind(q.x, q.k, f, resolvable) :
                                    f \in RequestedFamily(x.configuration, mode)}
           first == try([x |-> x, k |-> k], "ONLY")
<1>5. \A q \in first : BindResult(q, x, k)
      BY <1>4
<1>6. r \in first \/ \E q \in first : ~q.ok /\ (r = q \/ r \in try(q, "BLOCKED"))
      BY DEF BindNet
<1> QED BY <1>3, <1>5, <1>6

-----------------------------------------------------------------------------
(* A step that changes one socket, and the kernel under it.                 *)

(* k2 differs from k where the socket is, and where nothing was.             *)
Under(S, s, k, k2) ==
    \A e \in Fds : \/ k2[e] = k[e]
                   \/ k[e] = None
                   \/ S[s] # None /\ S[s].socket = e

(* bytes_sent against the bytes the kernel took.                             *)
CountsBytes(x, n) == x.bytes_sent >= n /\ (x.type = "UDP" => x.bytes_sent = n)

(* The other sockets are exempt as they were, and have sent what they had.   *)
Others(s, c, tk, c2, tk2) ==
    \A t \in Sockets \ {s} : tk2[t] = tk[t] /\ (Exempt(c, t) => Exempt(c2, t))

(* What the socket that changes must be.                                     *)
Good(s, y, k2, c2, tk2) ==
    y # None => /\ Truthful(y, k2)
                /\ Exempt(c2, s) \/ Settled(y, k2)
                /\ CountsBytes(y, tk2[s])

(* A socket whose descriptor is not that of the socket that changes has the  *)
(* same system socket as before.                                             *)
LEMMA Elsewhere ==
    ASSUME NEW S \in Objects, NEW k \in Kernels, Owned(S, k),
           NEW s \in Sockets, NEW t \in Sockets \ {s}, S[t] # None,
           NEW k2, Under(S, s, k, k2)
    PROVE  /\ Truthful(S[t], k) => Truthful(S[t], k2)
           /\ Settled(S[t], k) => Settled(S[t], k2)
<1>1. S[t].socket \in Fds \cup {None}
      BY DEF Objects, NetSocket
<1>2. S[t].socket # None => k2[S[t].socket] = k[S[t].socket]
      BY <1>1, SocketAssumption DEF Under, Owned
<1> QED BY <1>2 DEF Truthful, Settled

(* SocketInv survives a step on one socket that leaves that one Good.        *)
LEMMA OneSocket ==
    ASSUME NEW S \in Objects, NEW k \in Kernels, NEW c, NEW tk,
           Owned(S, k), SocketInv(c, S, k, tk),
           NEW s \in Sockets, NEW y, NEW T, T = [S EXCEPT ![s] = y],
           NEW k2, Under(S, s, k, k2),
           NEW c2, NEW tk2,
           Others(s, c, tk, c2, tk2), Good(s, y, k2, c2, tk2)
    PROVE  SocketInv(c2, T, k2, tk2)
<1> SUFFICES ASSUME NEW t \in Sockets, T[t] # None
             PROVE  /\ Truthful(T[t], k2)
                    /\ ~Exempt(c2, t) => Settled(T[t], k2)
                    /\ CountsBytes(T[t], tk2[t])
    BY DEF SocketInv, CountsBytes
<1>1. T[s] = y
      BY DEF Objects
<1>2. CASE t = s
      BY <1>1, <1>2 DEF Good
<1>3. CASE t # s
  <2>1. T[t] = S[t] /\ t \in Sockets \ {s} /\ S[t] # None
        BY <1>3 DEF Objects
  <2>2. /\ Truthful(S[t], k) /\ CountsBytes(S[t], tk[t])
        /\ ~Exempt(c, t) => Settled(S[t], k)
        BY <2>1 DEF SocketInv, CountsBytes
  <2>3. Truthful(S[t], k2) /\ (Settled(S[t], k) => Settled(S[t], k2))
        BY <2>1, <2>2, Elsewhere
  <2> QED BY <2>1, <2>2, <2>3 DEF Others
<1> QED BY <1>2, <1>3

(* A step that only changes the call.                                        *)
LEMMA OnlyCall ==
    ASSUME NEW S, NEW k, NEW c, NEW tk, SocketInv(c, S, k, tk),
           NEW c2, \A t \in Sockets : Exempt(c, t) => Exempt(c2, t)
    PROVE  SocketInv(c2, S, k, tk)
BY DEF SocketInv

(* Between calls no socket is exempt.                                        *)
LEMMA IdleExempt == \A t : ~Exempt(Idle, t)
BY DEF Exempt

(* close_net_raw.                                                            *)
LEMMA CloseUnder ==
    ASSUME NEW S \in Objects, NEW k \in Kernels, NEW s \in Sockets, S[s] # None
    PROVE  /\ Under(S, s, k, KernelClose(k, S[s].socket))
           /\ KernelClose(k, S[s].socket) \in Kernels
<1>1. S[s].socket \in Fds \cup {None}
      BY DEF Objects, NetSocket
<1> QED BY <1>1 DEF Under, KernelClose, Kernels

(* A closed socket is consistent whatever the kernel holds.                  *)
LEMMA ClosedInv ==
    ASSUME NEW x \in NetSocket, NEW k, Truthful(x, k), NEW k2
    PROVE  Truthful(Closed(x), k2) /\ Settled(Closed(x), k2) /\ Unconnected(Closed(x))
BY ClosedFacts DEF Truthful, Settled, Unconnected, Open

(* close_net_raw keeps descriptors owned once and every socket consistent.   *)
LEMMA CloseRawInv ==
    ASSUME NEW S \in Objects, NEW k \in Kernels, NEW c, NEW tk,
           Owned(S, k), SocketInv(c, S, k, tk),
           NEW s \in Sockets, S[s] # None,
           NEW T, T = [S EXCEPT ![s] = Closed(S[s])],
           NEW c2, \A t \in Sockets \ {s} : Exempt(c, t) => Exempt(c2, t)
    PROVE  /\ T \in Objects
           /\ Owned(T, KernelClose(k, S[s].socket))
           /\ SocketInv(c2, T, KernelClose(k, S[s].socket), tk)
<1> DEFINE y == Closed(S[s])
           k2 == KernelClose(k, S[s].socket)
<1>1. S[s] \in NetSocket
      BY DEF Objects
<1>2. /\ y \in NetSocket /\ y.socket = None
      /\ y.type = S[s].type /\ y.bytes_sent = S[s].bytes_sent
      BY <1>1, ClosedFacts
<1>3. Truthful(S[s], k) /\ CountsBytes(S[s], tk[s])
      BY DEF SocketInv, CountsBytes
<1>4. Truthful(y, k2) /\ Settled(y, k2)
      BY <1>1, <1>3, ClosedInv
<1>5. CountsBytes(y, tk[s])
      BY <1>2, <1>3 DEF CountsBytes
<1>6. Under(S, s, k, k2)
      BY CloseUnder
<1> HIDE DEF y, k2
<1>7. T = [S EXCEPT ![s] = y]
      BY DEF y
<1>8. SocketInv(c2, T, k2, tk)
  <2>1. Good(s, y, k2, c2, tk) /\ Others(s, c, tk, c2, tk)
        BY <1>4, <1>5 DEF Good, Others
  <2> QED BY <1>6, <1>7, <2>1, OneSocket
<1>9. T \in Objects
      BY <1>2, <1>7 DEF Objects
<1>10. Owned(T, k2)
  <2>1. Owned([S EXCEPT ![s] = y], KernelClose(k, S[s].socket))
        BY <1>2, ReleaseOwned
  <2> QED BY <1>7, <2>1 DEF k2
<1> QED BY <1>8, <1>9, <1>10 DEF k2

-----------------------------------------------------------------------------
(* The operations that begin and end between calls.                         *)

(* IInv, conjunct by conjunct.                                               *)
LEMMA Basics ==
    ASSUME IInv
    PROVE  /\ sock \in Objects /\ kern \in Kernels /\ taken \in [Sockets -> 0..MaxBytes]
           /\ Owned(sock, kern) /\ SocketInv(call, sock, kern, taken)
           /\ CallInv(call, sock, kern, taken)
           /\ call \in Calls \cup {Idle}
           /\ \A s \in Sockets : sock[s] # None => sock[s] \in NetSocket
BY DEF IInv, Objects

(* There is nothing to know of the call between calls.                       *)
LEMMA IdleCall == \A S, k, tk : CallInv(Idle, S, k, tk)
BY DEF CallInv

(* create_net_socket: a new object owns nothing and has sent nothing.        *)
LEMMA CreateStep ==
    ASSUME IInv, NEW s \in Sockets, Create(s)
    PROVE  IInv'
<1>0. call = Idle /\ sock[s] = None /\ UNCHANGED <<kern, call>>
      BY DEF Create
<1>1. PICK y \in NetSocket :
          /\ sock' = [sock EXCEPT ![s] = y] /\ taken' = [taken EXCEPT ![s] = 0]
          /\ y.socket = None /\ y.state = "CLOSED" /\ y.bytes_sent = 0
  <2>1. PICK t \in Types, c \in Configs :
            sock' = [sock EXCEPT ![s] =
                [type |-> t, configuration |-> c, socket |-> None, state |-> "CLOSED",
                 remote |-> None, bytes_sent |-> 0]]
        BY DEF Create
  <2> DEFINE y == [type |-> t, configuration |-> c, socket |-> None,
                   state |-> "CLOSED", remote |-> None, bytes_sent |-> 0]
  <2>2. y \in NetSocket /\ y.socket = None /\ y.state = "CLOSED" /\ y.bytes_sent = 0
        BY DEF NetSocket, States
  <2> HIDE DEF y
  <2> QED BY <2>1, <2>2 DEF Create, y
<1>2. sock' \in Objects /\ taken' \in [Sockets -> 0..MaxBytes] /\ taken'[s] = 0
      BY SMT, <1>1, Basics, SocketAssumption DEF Objects
<1>3. Owned(sock', kern)
  <2>1. y # None /\ sock'[s] = y /\ \A t \in Sockets \ {s} : sock'[t] = sock[t]
        BY <1>1, Basics, NoneAssumption DEF Objects
  <2>2. Owned(sock, kern)
        BY Basics
  <2> QED BY SMT, <1>0, <1>1, <2>1, <2>2 DEF Owned
<1>4. SocketInv(Idle, sock', kern, taken')
  <2>1. Truthful(y, kern) /\ Settled(y, kern) /\ CountsBytes(y, taken'[s])
        BY SMT, <1>1, <1>2 DEF Truthful, Settled, CountsBytes
  <2>2. Under(sock, s, kern, kern)
        BY DEF Under
  <2>3. Good(s, y, kern, Idle, taken') /\ Others(s, Idle, taken, Idle, taken')
        BY <1>1, <2>1, Basics DEF Good, Others
  <2> QED BY <1>0, <1>1, <2>2, <2>3, Basics, OneSocket
<1> QED BY <1>0, <1>2, <1>3, <1>4, Basics, IdleCall DEF IInv

(* close_net.                                                                *)
LEMMA CloseStep ==
    ASSUME IInv, NEW s \in Sockets, Close(s)
    PROVE  IInv'
<1>1. /\ call = Idle /\ sock[s] # None /\ UNCHANGED <<call, taken>>
      /\ sock' = [sock EXCEPT ![s] = Closed(sock[s])]
      /\ kern' = KernelClose(kern, sock[s].socket)
      BY Basics DEF Close, CloseRaw, Live, Objects
<1>2. sock' \in Objects /\ Owned(sock', kern') /\ SocketInv(Idle, sock', kern', taken)
      BY <1>1, Basics, CloseRawInv
<1>3. kern' \in Kernels
      BY <1>1, Basics, CloseUnder
<1> QED BY <1>1, <1>2, <1>3, Basics, IdleCall DEF IInv

(* cleanup_net: the object goes and its descriptor with it.                  *)
LEMMA CleanupStep ==
    ASSUME IInv, NEW s \in Sockets, Cleanup(s)
    PROVE  IInv'
<1>1. /\ call = Idle /\ sock[s] # None /\ UNCHANGED call
      /\ sock' = [sock EXCEPT ![s] = None]
      /\ kern' = KernelClose(kern, sock[s].socket)
      /\ taken' = [taken EXCEPT ![s] = 0]
      BY DEF Cleanup, Live
<1>2. sock' \in Objects /\ taken' \in [Sockets -> 0..MaxBytes]
      BY SMT, <1>1, Basics, SocketAssumption DEF Objects
<1>3. kern' \in Kernels /\ Under(sock, s, kern, kern')
      BY <1>1, Basics, CloseUnder
<1>4. Owned(sock', kern')
      BY <1>1, Basics, ReleaseOwned
<1>5. Good(s, None, kern', Idle, taken') /\ Others(s, Idle, taken, Idle, taken')
      BY <1>1, Basics DEF Good, Others
<1>6. SocketInv(Idle, sock', kern', taken')
  <2>1. /\ sock \in Objects /\ kern \in Kernels /\ Owned(sock, kern)
        /\ SocketInv(Idle, sock, kern, taken)
        BY <1>1, Basics
  <2> DEFINE y == None
  <2>2. sock' = [sock EXCEPT ![s] = y] /\ Good(s, y, kern', Idle, taken')
        BY <1>1, <1>5
  <2> HIDE DEF y
  <2> QED BY <1>3, <1>5, <2>1, <2>2, OneSocket
<1> QED BY <1>1, <1>2, <1>3, <1>4, <1>6, IdleCall DEF IInv

(* shutdown_net: SHUTDOWN says nothing of the descriptor, so it is always    *)
(* true.                                                                     *)
LEMMA ShutdownStep ==
    ASSUME IInv, NEW s \in Sockets, Shutdown(s)
    PROVE  IInv'
<1> DEFINE y == [sock[s] EXCEPT !.state = "SHUTDOWN"]
<1>1. /\ call = Idle /\ sock[s] # None /\ UNCHANGED <<kern, call, taken>>
      /\ sock' = [sock EXCEPT ![s] = y]
      BY DEF Shutdown, Live
<1>2. /\ y \in NetSocket /\ y.socket = sock[s].socket /\ y.state = "SHUTDOWN"
      /\ y.type = sock[s].type /\ y.bytes_sent = sock[s].bytes_sent
      BY <1>1, Basics DEF NetSocket, States
<1> HIDE DEF y
<1>3. sock' \in Objects
      BY <1>1, <1>2, Basics DEF Objects
<1>4. Owned(sock', kern)
  <2>1. Owned([sock EXCEPT ![s] = y], kern)
        BY <1>1, <1>2, Basics, SameOwned
  <2> QED BY <1>1, <2>1
<1>5. Truthful(y, kern) /\ Settled(y, kern) /\ CountsBytes(y, taken[s])
      BY <1>1, <1>2, Basics DEF Truthful, Settled, SocketInv, CountsBytes
<1>6. Under(sock, s, kern, kern)
      BY DEF Under
<1>7. SocketInv(Idle, sock', kern, taken)
  <2>1. Good(s, y, kern, Idle, taken) /\ Others(s, Idle, taken, Idle, taken)
        BY <1>5 DEF Good, Others
  <2> QED BY <1>1, <1>6, <2>1, Basics, OneSocket
<1> QED BY <1>1, <1>3, <1>4, <1>7, Basics, IdleCall DEF IInv

(* A socket that bind_net has been called on, and the kernel under it.       *)
LEMMA BoundInv ==
    ASSUME NEW S \in Objects, NEW k \in Kernels, NEW c, NEW tk,
           Owned(S, k), SocketInv(c, S, k, tk),
           NEW s \in Sockets, S[s] # None, S[s].socket = None,
           NEW resolvable, NEW r \in BindNet(S[s], k, resolvable),
           NEW T, T = [S EXCEPT ![s] = r.x]
    PROVE  /\ T \in Objects /\ r.k \in Kernels
           /\ Owned(T, r.k)
           /\ SocketInv(c, T, r.k, tk)
           /\ Under(S, s, k, r.k)
<1>1. S[s] \in NetSocket
      BY DEF Objects
<1>2. BindResult(r, S[s], k)
      BY <1>1, BindFacts
<1>3. T \in Objects /\ r.x \in NetSocket
      BY <1>2 DEF BindResult, Objects
<1>4. Truthful(S[s], k) /\ CountsBytes(S[s], tk[s])
      BY DEF SocketInv, CountsBytes
<1>5. CountsBytes(r.x, tk[s])
      BY <1>2, <1>4 DEF BindResult, CountsBytes
<1>6. CASE ~r.ok
  <2>1. /\ r.k = k /\ r.x.socket = None /\ r.x.state \in {S[s].state, "BOUND", "CLOSED"}
        BY <1>2, <1>6 DEF BindResult
  <2>2. Truthful(r.x, k) /\ Settled(r.x, k)
        BY <1>4, <2>1 DEF Truthful, Settled
  <2>3. Owned([S EXCEPT ![s] = r.x], k)
        BY <1>3, <2>1, SameOwned
  <2>4. Under(S, s, k, k)
        BY DEF Under
  <2>5. Good(s, r.x, k, c, tk) /\ Others(s, c, tk, c, tk)
        BY <1>5, <2>2 DEF Good, Others
  <2>6. SocketInv(c, T, k, tk)
        BY <2>4, <2>5, OneSocket
  <2> QED BY <1>3, <2>1, <2>3, <2>4, <2>6
<1>7. CASE r.ok
  <2> DEFINE d == r.x.socket
  <2>1. r.x.state = "BOUND" /\ d \in Fds /\ k[d] = None /\ d # None
        BY <1>2, <1>7, SocketAssumption DEF BindResult, FreeFds
  <2>2. PICK z \in KernelSocket : r.k = [k EXCEPT ![d] = z] /\ ListensOn(z, S[s])
        BY <1>2, <1>7 DEF BindResult
  <2>3. r.k \in Kernels /\ r.k[d] = z /\ Under(S, s, k, r.k)
        BY <2>1, <2>2 DEF Kernels, Under
  <2>4. Truthful(r.x, r.k) /\ Settled(r.x, r.k)
        BY <1>2, <2>1, <2>2, <2>3 DEF Truthful, Settled, ListensOn, BindResult
  <2>5. Owned([S EXCEPT ![s] = r.x], [k EXCEPT ![d] = z])
        BY <1>3, <2>1, TakeOwned
  <2>6. Good(s, r.x, r.k, c, tk) /\ Others(s, c, tk, c, tk)
        BY <1>5, <2>4 DEF Good, Others
  <2>7. SocketInv(c, T, r.k, tk)
        BY <2>3, <2>6, OneSocket
  <2> QED BY <1>3, <2>2, <2>3, <2>5, <2>7
<1> QED BY <1>6, <1>7

(* bind_net.                                                                 *)
LEMMA BindStep ==
    ASSUME IInv, NEW s \in Sockets, Bind(s)
    PROVE  IInv'
<1>1. PICK r \in BindNet(sock[s], kern, Families) :
          sock' = [sock EXCEPT ![s] = r.x] /\ kern' = r.k
      BY DEF Bind
<1>2. call = Idle /\ sock[s] # None /\ sock[s].socket = None /\ UNCHANGED <<call, taken>>
      BY DEF Bind, Live, Open
<1>3. /\ sock' \in Objects /\ kern' \in Kernels /\ Owned(sock', kern')
      /\ SocketInv(Idle, sock', kern', taken)
      BY <1>1, <1>2, Basics, BoundInv
<1> QED BY <1>2, <1>3, Basics, IdleCall DEF IInv

-----------------------------------------------------------------------------
(* The operations that begin a call, and the steps that only change it.     *)

(* A step that only changes the call keeps IInv when it keeps CallInv and    *)
(* exempts no less.                                                          *)
LEMMA OnlyCallStep ==
    ASSUME IInv, UNCHANGED <<sock, kern, taken>>,
           call' \in Calls \cup {Idle},
           \A t \in Sockets : Exempt(call, t) => Exempt(call', t),
           CallInv(call', sock, kern, taken)
    PROVE  IInv'
BY OnlyCall DEF IInv

(* Idle is no call in progress.                                              *)
LEMMA IdleNotCall == Idle \notin Calls
BY DEF Idle, Calls

(* The call record as an operation begins with it.                           *)
LEMMA WaitingFacts ==
    ASSUME NEW op \in {"connect", "send", "send_to", "receive", "accept"},
           NEW s \in Sockets
    PROVE  /\ Waiting(op, s) \in Calls
           /\ Waiting(op, s).op = op /\ Waiting(op, s).s = s
           /\ Waiting(op, s).server = None /\ Waiting(op, s).pc = "next"
           /\ Waiting(op, s).mode = "ONLY" /\ Waiting(op, s).sent = 0
BY SMT, SocketAssumption DEF Waiting, Calls

(* connect_net begins.                                                       *)
LEMMA ConnectStep ==
    ASSUME IInv, NEW s \in Sockets, NEW h \in Hosts, Connect(s, h)
    PROVE  IInv'
<1>1. PICK n \in Resolve(sock[s], None, h, "ONLY") :
          call' = [Waiting("connect", s) EXCEPT !.host = h, !.left = n]
      BY DEF Connect
<1>2. /\ call = Idle /\ sock[s] # None /\ UNCHANGED <<sock, kern, taken>>
      /\ sock[s].socket # None => sock[s].type = "UDP" /\ sock[s].state = "BOUND"
      BY DEF Connect, Live, Open
<1>3. n \in 0..MaxAddresses /\ h # None
      BY ResolveFacts, SocketAssumption
<1>4. /\ call' \in Calls /\ call'.op = "connect" /\ call'.s = s /\ call'.pc = "next"
      /\ call'.server = None /\ call'.host = h
  <2> DEFINE w == Waiting("connect", s)
  <2>1. w \in Calls /\ w.op = "connect" /\ w.s = s /\ w.pc = "next" /\ w.server = None
        BY SMT, WaitingFacts
  <2> HIDE DEF w
  <2>2. call' = [w EXCEPT !.host = h, !.left = n]
        BY <1>1 DEF w
  <2> QED BY <1>3, <2>1, <2>2 DEF Calls
<1>5. Unconnected(sock[s])
      BY <1>2, Basics DEF SocketInv, Truthful, Unconnected
<1>6. CallInv(call', sock, kern, taken)
      BY <1>2, <1>3, <1>4, <1>5 DEF CallInv, ConnectInv
<1>7. \A t \in Sockets : Exempt(call, t) => Exempt(call', t)
      BY <1>2, IdleExempt
<1> QED BY <1>2, <1>4, <1>6, <1>7, OnlyCallStep

(* send_net begins.                                                          *)
LEMMA SendStep ==
    ASSUME IInv, NEW s \in Sockets, Send(s)
    PROVE  IInv'
<1>1. PICK n \in 0..(MaxBytes - taken[s]) :
          call' = [Waiting("send", s) EXCEPT !.pc = "sending", !.length = n]
      BY DEF Send
<1>2. call = Idle /\ sock[s] # None /\ UNCHANGED <<sock, kern, taken>>
      BY DEF Send, Live
<1>3. n \in 0..MaxBytes /\ taken[s] \in Nat /\ taken[s] + n <= MaxBytes
      BY SMT, Basics, SocketAssumption
<1>4. /\ call' \in Calls /\ call'.op = "send" /\ call'.s = s /\ call'.pc = "sending"
      /\ call'.length = n /\ call'.sent = 0
  <2> DEFINE w == Waiting("send", s)
  <2>1. w \in Calls /\ w.op = "send" /\ w.s = s /\ w.sent = 0
        BY SMT, WaitingFacts
  <2> HIDE DEF w
  <2>2. call' = [w EXCEPT !.pc = "sending", !.length = n]
        BY <1>1 DEF w
  <2> QED BY <1>3, <2>1, <2>2 DEF Calls
<1>5. CallInv(call', sock, kern, taken)
      BY SMT, <1>2, <1>3, <1>4 DEF CallInv, SendInv
<1>6. \A t \in Sockets : Exempt(call, t) => Exempt(call', t)
      BY <1>2, IdleExempt
<1> QED BY <1>2, <1>4, <1>5, <1>6, OnlyCallStep

(* send_to_net begins.                                                       *)
LEMMA SendToStep ==
    ASSUME IInv, NEW s \in Sockets, NEW h \in Hosts, SendTo(s, h)
    PROVE  IInv'
<1>1. PICK n \in Resolve(sock[s], None, h, "ONLY"), len \in 0..(MaxBytes - taken[s]) :
          call' = [Waiting("send_to", s) EXCEPT !.host = h, !.left = n, !.length = len]
      BY DEF SendTo
<1>2. call = Idle /\ sock[s] # None /\ UNCHANGED <<sock, kern, taken>>
      BY DEF SendTo, Live
<1>3. /\ n \in 0..MaxAddresses
      /\ len \in 0..MaxBytes /\ taken[s] \in Nat /\ taken[s] + len <= MaxBytes
      BY SMT, Basics, ResolveFacts, SocketAssumption
<1>4. /\ call' \in Calls /\ call'.op = "send_to" /\ call'.s = s /\ call'.pc = "next"
      /\ call'.length = len /\ call'.sent = 0
  <2> DEFINE w == Waiting("send_to", s)
  <2>1. w \in Calls /\ w.op = "send_to" /\ w.s = s /\ w.sent = 0 /\ w.pc = "next"
        BY SMT, WaitingFacts
  <2> HIDE DEF w
  <2>2. call' = [w EXCEPT !.host = h, !.left = n, !.length = len]
        BY <1>1 DEF w
  <2> QED BY <1>3, <2>1, <2>2 DEF Calls
<1>5. CallInv(call', sock, kern, taken)
      BY SMT, <1>2, <1>3, <1>4 DEF CallInv, SendInv
<1>6. \A t \in Sockets : Exempt(call, t) => Exempt(call', t)
      BY <1>2, IdleExempt
<1> QED BY <1>2, <1>4, <1>5, <1>6, OnlyCallStep

(* receive_net begins.                                                       *)
LEMMA ReceiveStep ==
    ASSUME IInv, NEW s \in Sockets, Receive(s)
    PROVE  IInv'
<1> DEFINE w == Waiting("receive", s)
<1>1. /\ call = Idle /\ sock[s] # None /\ UNCHANGED <<sock, kern, taken>>
      /\ call' = [w EXCEPT !.pc = "receiving"]
      BY DEF Receive, Live
<1>2. w \in Calls /\ w.op = "receive" /\ w.s = s
      BY WaitingFacts
<1> HIDE DEF w
<1>3. call' \in Calls /\ call'.op = "receive" /\ call'.s = s /\ call'.pc = "receiving"
      BY <1>1, <1>2 DEF Calls
<1>4. CallInv(call', sock, kern, taken)
      BY <1>1, <1>3 DEF CallInv
<1>5. \A t \in Sockets : Exempt(call, t) => Exempt(call', t)
      BY <1>1, IdleExempt
<1> QED BY <1>1, <1>3, <1>4, <1>5, OnlyCallStep

(* accept_net begins: both sockets are there, and of one type.               *)
LEMMA AcceptStep ==
    ASSUME IInv, NEW server \in Sockets, NEW new \in Sockets \ {server},
           Accept(server, new)
    PROVE  IInv'
<1> DEFINE w == Waiting("accept", new)
           p == IF sock[server].type = "UDP" THEN "peeking" ELSE "accepting"
<1>1. /\ call = Idle /\ sock[server] # None /\ sock[new] # None
      /\ UNCHANGED <<sock, kern, taken>>
      /\ sock[new].type = sock[server].type /\ sock[new].socket = None
      /\ sock[server].state = "BOUND"
      /\ call' = [w EXCEPT !.server = server, !.pc = p]
      BY DEF Accept, Live, Open
<1>2. w \in Calls /\ w.op = "accept" /\ w.s = new
      BY WaitingFacts
<1>3. p \in {"peeking", "accepting"} /\ (p = "peeking" <=> sock[server].type = "UDP")
      OBVIOUS
<1> HIDE DEF w, p
<1>4. /\ call' \in Calls /\ call'.op = "accept" /\ call'.s = new
      /\ call'.server = server /\ call'.pc = p
      BY <1>1, <1>2, <1>3 DEF Calls
<1>5. Unconnected(sock[new]) /\ Unconnected(sock[server])
      BY <1>1, Basics DEF SocketInv, Truthful, Unconnected
<1>6. sock[server].type \in {"TCP", "UDP"} /\ server # None
      BY <1>1, Basics, SocketAssumption DEF NetSocket, Types
<1>7. AcceptInv(call', sock, kern)
      BY <1>1, <1>3, <1>4, <1>5, <1>6 DEF AcceptInv, AcceptOf
<1>8. CallInv(call', sock, kern, taken)
      BY <1>1, <1>4, <1>7 DEF CallInv
<1>9. \A t \in Sockets : Exempt(call, t) => Exempt(call', t)
      BY <1>1, IdleExempt
<1> QED BY <1>1, <1>4, <1>8, <1>9, OnlyCallStep

(* What IInv says of a call in progress.                                     *)
LEMMA InCall ==
    ASSUME IInv, call.pc # "none"
    PROVE  /\ call \in Calls /\ call # Idle /\ call.s \in Sockets
           /\ sock[call.s] # None /\ sock[call.s] \in NetSocket
           /\ call.op \in {"connect", "send", "send_to", "receive", "accept"}
           /\ call.op = "connect" => ConnectInv(call, sock, kern)
           /\ call.op \in {"send", "send_to"} => SendInv(call, sock, kern, taken)
           /\ call.op = "accept" => AcceptInv(call, sock, kern)
           /\ call.op = "receive" => call.pc = "receiving"
<1>1. call \in Calls /\ call # Idle
      BY SMT, Basics DEF Idle
<1>2. call.s \in Sockets /\ call.op \in {"connect", "send", "send_to", "receive", "accept"}
      BY <1>1 DEF Calls
<1>3. CallInv(call, sock, kern, taken)
      BY Basics
<1> QED BY <1>1, <1>2, <1>3, Basics DEF CallInv

(* A call returns and leaves everything as it is.                            *)
LEMMA ReturnStep ==
    ASSUME IInv, Return, call.pc = "next" \/ call.op # "connect"
    PROVE  IInv'
<1>1. call' = Idle /\ UNCHANGED <<sock, kern, taken>>
      BY DEF Return
<1>2. \A t \in Sockets : Exempt(call, t) => Exempt(call', t)
      BY DEF Exempt, OwnDescriptor
<1> QED BY <1>1, <1>2, OnlyCallStep, IdleCall

(* send_to_net takes the next address.                                       *)
LEMMA SendToNextStep ==
    ASSUME IInv, SendToNext
    PROVE  IInv'
<1>1. /\ call.pc = "next" /\ call.op = "send_to" /\ call.left > 0
      /\ call' = [call EXCEPT !.pc = "sending_to"] /\ UNCHANGED <<sock, kern, taken>>
      BY DEF SendToNext
<1>2. /\ call \in Calls /\ sock[call.s] # None /\ SendInv(call, sock, kern, taken)
      BY <1>1, InCall
<1>3. /\ call' \in Calls /\ call'.pc = "sending_to" /\ call'.op = "send_to"
      /\ call'.s = call.s /\ call'.left = call.left /\ call'.length = call.length
      /\ call'.sent = call.sent
      BY <1>1, <1>2 DEF Calls
<1>4. CallInv(call', sock, kern, taken)
      BY <1>1, <1>2, <1>3 DEF CallInv, SendInv
<1>5. \A t \in Sockets : Exempt(call, t) => Exempt(call', t)
      BY <1>1 DEF Exempt, OwnDescriptor
<1> QED BY <1>1, <1>3, <1>4, <1>5, OnlyCallStep

(* The walk turns to the other family.  For an accept this is where PeerLeft *)
(* matters: an address that turns up in the second family was not tried in   *)
(* the first.                                                                *)
LEMMA OtherFamilyStep ==
    ASSUME IInv, OtherFamily
    PROVE  IInv'
<1>1. PICK n \in Resolve(sock[call.s], call.server, call.host, "BLOCKED") :
          call' = [call EXCEPT !.mode = "BLOCKED",
                               !.left = IF call.op = "send_to" /\ n > 0 THEN 1 ELSE n]
      BY DEF OtherFamily, Me
<1>2. /\ call.pc = "next" /\ call.left = 0 /\ call.mode = "ONLY"
      /\ UNCHANGED <<sock, kern, taken>>
      BY DEF OtherFamily
<1>3. call \in Calls /\ call # Idle /\ call.s \in Sockets /\ sock[call.s] # None
      BY <1>2, InCall
<1> DEFINE m == IF call.op = "send_to" /\ n > 0 THEN 1 ELSE n
<1>4. n \in 0..MaxAddresses /\ m \in 0..MaxAddresses
      BY SMT, ResolveFacts, SocketAssumption
<1>5. call.op # "send_to" => m = n
      OBVIOUS
<1>6. call' = [call EXCEPT !.mode = "BLOCKED", !.left = m]
      BY <1>1
<1> HIDE DEF m
<1>7. /\ call' \in Calls /\ call'.pc = "next" /\ call'.op = call.op /\ call'.s = call.s
      /\ call'.server = call.server /\ call'.host = call.host /\ call'.left = m
      /\ call'.mode = "BLOCKED" /\ call'.length = call.length /\ call'.sent = call.sent
      BY <1>2, <1>3, <1>4, <1>6 DEF Calls
<1>8. \A t \in Sockets : Exempt(call, t) => Exempt(call', t)
      BY <1>2 DEF Exempt, OwnDescriptor
<1>9. CASE call.op = "connect"
  <2>1. ConnectInv(call, sock, kern)
        BY <1>2, <1>9, InCall
  <2>2. ConnectInv(call', sock, kern)
        BY <1>2, <1>7, <2>1 DEF ConnectInv
  <2>3. CallInv(call', sock, kern, taken)
        BY <1>3, <1>7, <1>9, <2>2 DEF CallInv
  <2> QED BY <1>2, <1>7, <1>8, <2>3, OnlyCallStep
<1>10. CASE call.op \in {"send", "send_to"}
  <2>1. SendInv(call, sock, kern, taken)
        BY <1>2, <1>10, InCall
  <2>2. SendInv(call', sock, kern, taken)
        BY <1>2, <1>7, <2>1 DEF SendInv
  <2>3. CallInv(call', sock, kern, taken)
        BY <1>3, <1>7, <1>10, <2>2 DEF CallInv
  <2> QED BY <1>2, <1>7, <1>8, <2>3, OnlyCallStep
<1>11. CASE call.op = "accept"
  <2>1. AcceptInv(call, sock, kern)
        BY <1>2, <1>11, InCall
  <2>2. /\ n \in {0, 1}
        /\ n = 1 => RequestedFamily(sock[call.s].configuration, "BLOCKED") = {"INET4"}
    <3>1. call.server # None
          BY <2>1 DEF AcceptInv, AcceptOf
    <3> QED BY SMT, <1>4, <3>1, ResolveFacts, SocketAssumption
  <2>3. ~PeerLeft(call', sock[call.s])
        BY <1>7 DEF PeerLeft
  <2>4. n = 1 => PeerLeft(call, sock[call.s])
        BY <1>2, <2>2 DEF PeerLeft
  <2>5. AcceptInv(call', sock, kern)
        BY <1>2, <1>5, <1>7, <1>11, <2>1, <2>2, <2>3, <2>4 DEF AcceptInv, AcceptOf
  <2>6. CallInv(call', sock, kern, taken)
        BY <1>3, <1>7, <1>11, <2>5 DEF CallInv
  <2> QED BY <1>2, <1>7, <1>8, <2>6, OnlyCallStep
<1> QED BY <1>2, <1>9, <1>10, <1>11, InCall

(* A step that changes one socket, and what has to be shown of it.           *)
LEMMA OneSocketStep ==
    ASSUME IInv, NEW s \in Sockets, NEW y, sock' = [sock EXCEPT ![s] = y],
           Under(sock, s, kern, kern'),
           Others(s, call, taken, call', taken'), Good(s, y, kern', call', taken')
    PROVE  SocketInv(call', sock', kern', taken')
BY Basics, OneSocket

-----------------------------------------------------------------------------
(* The walk over the addresses.                                             *)

(* The loop goes on, nothing else happens: the socket is not exempt.         *)
LEMMA NextAddressFacts ==
    ASSUME call \in Calls, call.left > 0
    PROVE  /\ NextAddress \in Calls /\ NextAddress.pc = "next"
           /\ NextAddress.op = call.op /\ NextAddress.s = call.s
           /\ NextAddress.server = call.server /\ NextAddress.host = call.host
           /\ NextAddress.mode = call.mode /\ NextAddress.left = call.left - 1
           /\ NextAddress.length = call.length /\ NextAddress.sent = call.sent
<1>1. call.left \in 0..MaxAddresses
      BY DEF Calls
<1>2. call.left - 1 \in 0..MaxAddresses
      BY SMT, <1>1, SocketAssumption
<1> QED BY <1>2 DEF NextAddress, Calls

(* The walk goes on to the next address, nothing else happens.               *)
LEMMA NextAddressStep ==
    ASSUME IInv, call.pc \in {"next", "connecting", "sending", "sending_to"},
           call.left > 0, call' = NextAddress, UNCHANGED <<sock, kern, taken>>,
           call.pc = "sending" => call.op = "connect",
           \A t \in Sockets : ~Exempt(call, t)
    PROVE  IInv'
<1>1. /\ call \in Calls /\ call # Idle /\ call.s \in Sockets /\ sock[call.s] # None
      BY InCall
<1>2. /\ call' \in Calls /\ call'.pc = "next" /\ call'.op = call.op
      /\ call'.s = call.s /\ call'.server = call.server /\ call'.host = call.host
      /\ call'.mode = call.mode /\ call'.left = call.left - 1
      /\ call'.length = call.length /\ call'.sent = call.sent
      BY <1>1, NextAddressFacts
<1>3. \A t \in Sockets : Exempt(call, t) => Exempt(call', t)
      OBVIOUS
<1>4. CASE call.op = "connect"
  <2>1. ConnectInv(call, sock, kern)
        BY <1>4, InCall
  <2>2. call.pc # "next" => call.opened
        BY <1>1, <1>4, <2>1 DEF Exempt, OwnDescriptor, ConnectInv
  <2>3. ConnectInv(call', sock, kern)
        BY <1>2, <1>4, <2>1, <2>2 DEF ConnectInv
  <2>4. CallInv(call', sock, kern, taken)
        BY <1>1, <1>2, <1>4, <2>3 DEF CallInv
  <2> QED BY <1>2, <1>3, <2>4, OnlyCallStep
<1>5. CASE call.op \in {"send", "send_to"}
  <2>1. SendInv(call, sock, kern, taken)
        BY <1>5, InCall
  <2>2. SendInv(call', sock, kern, taken)
        BY <1>2, <1>5, <2>1 DEF SendInv
  <2>3. CallInv(call', sock, kern, taken)
        BY <1>1, <1>2, <1>5, <2>2 DEF CallInv
  <2> QED BY <1>2, <1>3, <2>3, OnlyCallStep
<1>6. CASE call.op = "accept"
  <2>1. AcceptInv(call, sock, kern)
        BY <1>6, InCall
  <2>2. call.pc \in {"next", "connecting"} /\ call.left = 1
        BY SMT, <1>6, <2>1 DEF AcceptInv, AcceptOf
  <2>3. ~PeerLeft(call', sock[call.s]) /\ call'.left = 0
        BY SMT, <1>2, <2>1, <2>2 DEF AcceptInv, AcceptOf, PeerLeft
  <2>4. AcceptInv(call', sock, kern)
        BY SMT, <1>2, <1>6, <2>1, <2>2, <2>3 DEF AcceptInv, AcceptOf
  <2>5. CallInv(call', sock, kern, taken)
        BY <1>1, <1>2, <1>6, <2>4 DEF CallInv
  <2> QED BY <1>2, <1>3, <2>5, OnlyCallStep
<1> QED BY <1>4, <1>5, <1>6, InCall

(* try_connect fails: a descriptor it made itself is closed, and the one     *)
(* that was there before is kept.                                            *)
LEMMA AddressFailedStep ==
    ASSUME IInv, AddressFailed, call.pc \in {"connecting", "sending"},
           call.op \in {"connect", "accept"}
    PROVE  IInv'
<1>0. call \in Calls /\ call # Idle /\ call.s \in Sockets /\ sock[call.s] # None
      BY InCall
<1>1. call.left > 0 /\ call.opened \in BOOLEAN
      BY SMT, <1>0, InCall DEF ConnectInv, AcceptInv, AcceptOf, Calls
<1>2. CASE call.opened
  <2>1. call' = NextAddress /\ UNCHANGED <<sock, kern, taken>>
        BY <1>2 DEF AddressFailed
  <2>2. \A t \in Sockets : ~Exempt(call, t)
        BY <1>2 DEF Exempt, OwnDescriptor
  <2>3. call.pc = "sending" => call.op = "connect"
        BY InCall DEF AcceptInv, AcceptOf
  <2> QED BY <1>1, <2>1, <2>2, <2>3, NextAddressStep
<1>3. CASE ~call.opened
  <2> DEFINE s == call.s
             y == [sock[s] EXCEPT !.socket = None]
  <2>1. call.op = "connect" /\ ConnectInv(call, sock, kern)
        BY <1>3, InCall DEF AcceptInv, AcceptOf
  <2>2. /\ call' = NextAddress /\ UNCHANGED taken
        /\ sock' = [sock EXCEPT ![s] = y]
        /\ kern' = KernelClose(kern, sock[s].socket)
        BY <1>3 DEF AddressFailed, Me
  <2>3. /\ y \in NetSocket /\ y.socket = None /\ y.type = sock[s].type
        /\ y.state = sock[s].state /\ y.bytes_sent = sock[s].bytes_sent
        BY <1>0, Basics DEF NetSocket
  <2> HIDE DEF y
  <2>4. /\ call' \in Calls /\ call'.pc = "next" /\ call'.op = "connect"
        /\ call'.s = call.s /\ call'.server = call.server /\ call'.host = call.host
        BY <1>0, <1>1, <2>1, <2>2, NextAddressFacts
  <2>5. sock' \in Objects /\ kern' \in Kernels /\ Under(sock, s, kern, kern')
        BY <1>0, <2>2, <2>3, Basics, CloseUnder DEF Objects
  <2>6. Owned(sock', kern')
    <3>1. Owned([sock EXCEPT ![s] = y], KernelClose(kern, sock[s].socket))
          BY <1>0, <2>3, Basics, ReleaseOwned
    <3> QED BY <2>2, <3>1
  <2>7. Good(s, y, kern', call', taken)
    <3>1. Unconnected(y)
          BY <2>1, <2>3 DEF ConnectInv, Unconnected
    <3>2. CountsBytes(y, taken[s])
          BY <1>0, <2>3, Basics DEF SocketInv, CountsBytes
    <3> QED BY <2>3, <3>1, <3>2 DEF Good, Truthful, Settled, Unconnected
  <2>8. Others(s, call, taken, call', taken)
        BY DEF Others, Exempt
  <2>9. SocketInv(call', sock', kern', taken)
        BY <1>0, <2>2, <2>5, <2>7, <2>8, OneSocketStep
  <2>10. sock'[s] = y /\ y # None
        BY <1>0, <2>2, <2>3, Basics, NoneAssumption DEF Objects
  <2>11. CallInv(call', sock', kern', taken)
        BY <2>1, <2>3, <2>4, <2>10 DEF CallInv, ConnectInv, Unconnected
  <2> QED BY <2>2, <2>4, <2>5, <2>6, <2>9, <2>11, Basics DEF IInv
<1> QED BY <1>1, <1>2, <1>3

(* try_connect on the next address, up to the wait: the descriptor is the    *)
(* one the socket has or a free one, which makes the socket exempt.          *)
LEMMA TryConnectStep ==
    ASSUME IInv, TryConnect
    PROVE  IInv'
<1>0. /\ call.pc = "next" /\ call.op \in {"connect", "accept"} /\ call.left > 0
      /\ UNCHANGED taken
      BY DEF TryConnect
<1>1. call \in Calls /\ call # Idle /\ call.s \in Sockets /\ sock[call.s] # None
      BY <1>0, InCall
<1>2. CASE call' = NextAddress /\ UNCHANGED <<sock, kern>>
  <2>1. \A t \in Sockets : ~Exempt(call, t)
        BY <1>0 DEF Exempt, OwnDescriptor
  <2> QED BY <1>0, <1>2, <2>1, NextAddressStep
<1>3. CASE ~(call' = NextAddress /\ UNCHANGED <<sock, kern>>)
  <2> DEFINE s == call.s
             x == sock[s]
  <2>1. PICK d \in IF Open(x) THEN {x.socket} ELSE FreeFds(kern),
             f \in RequestedFamily(x.configuration, call.mode) :
            LET k == IF Open(x) THEN kern ELSE [kern EXCEPT ![d] = NewSocket(f)] IN
            /\ sock' = [sock EXCEPT ![s].socket = d]
            /\ kern' = IF x.type = "UDP" THEN [k EXCEPT ![d].peer = call.host] ELSE k
            /\ call' = [call EXCEPT !.pc = "connecting", !.opened = Open(x)]
        BY <1>3 DEF TryConnect, Me
  <2> DEFINE y == [x EXCEPT !.socket = d]
  <2>2. /\ x \in NetSocket /\ x.configuration \in Configs /\ x # None
        /\ call.mode \in {"ONLY", "BLOCKED"} /\ call.host \in Hosts \cup {None}
        BY <1>1, Basics DEF NetSocket, Calls
  <2>3. f \in Families /\ d \in Fds
        BY <2>2, FamilyFacts DEF NetSocket, FreeFds, Open
  <2>4. /\ y \in NetSocket /\ y.socket = d /\ y.type = x.type /\ y.state = x.state
        /\ y.bytes_sent = x.bytes_sent /\ y.remote = x.remote
        /\ y.configuration = x.configuration /\ sock' = [sock EXCEPT ![s] = y]
        BY <2>1, <2>2, <2>3 DEF NetSocket
  <2>5. /\ call' \in Calls /\ call'.pc = "connecting" /\ call'.opened = Open(x)
        /\ call'.op = call.op /\ call'.s = s /\ call'.server = call.server
        /\ call'.host = call.host /\ call'.left = call.left /\ call'.mode = call.mode
        BY <1>1, <2>1 DEF Calls, Open
  <2>6. Unconnected(x) /\ (call.op = "connect" => call.host # None)
        BY <1>0, InCall DEF ConnectInv, AcceptInv, AcceptOf
  <2>7. CountsBytes(y, taken[s]) /\ Truthful(y, kern')
    <3>1. CountsBytes(x, taken[s])
          BY <1>1, Basics DEF SocketInv, CountsBytes
    <3> QED BY <2>4, <2>6, <3>1 DEF CountsBytes, Truthful, Unconnected
  <2>8. Others(s, call, taken, call', taken)
        BY DEF Others, Exempt
  <2> HIDE DEF y
  <2>9. /\ sock' \in Objects /\ sock'[s] = y /\ y # None
        /\ \A t \in Sockets \ {s} : sock'[t] = sock[t]
        BY <1>1, <2>4, Basics, NoneAssumption DEF Objects
  <2>10. CASE Open(x)
    <3>1. d = x.socket /\ kern[d] # None /\ d # None
          BY <1>1, <2>1, <2>10, Basics DEF Open, Owned
    <3>2. kern[d] \in KernelSocket
          BY <2>3, <3>1, Basics DEF Kernels
    <3>3. PICK z \in KernelSocket :
              /\ kern' = [kern EXCEPT ![d] = z]
              /\ z.bound = kern[d].bound /\ z.listening = kern[d].listening
              /\ x.type # "UDP" => z = kern[d]
              /\ x.type = "UDP" => z.peer = call.host
      <4>1. CASE x.type = "UDP"
        <5> DEFINE z == [kern[d] EXCEPT !.peer = call.host]
        <5>1. /\ z \in KernelSocket /\ z.bound = kern[d].bound
              /\ z.listening = kern[d].listening /\ z.peer = call.host
              BY <2>2, <3>2 DEF KernelSocket
        <5>2. kern' = [kern EXCEPT ![d] = z]
              BY <2>1, <2>10, <4>1
        <5> QED BY <4>1, <5>1, <5>2
      <4>2. CASE x.type # "UDP"
        <5>1. kern' = [kern EXCEPT ![d] = kern[d]]
              BY <2>1, <2>3, <2>10, <4>2, Basics DEF Kernels
        <5> QED BY <3>2, <4>2, <5>1
      <4> QED BY <4>1, <4>2
    <3>4. kern' \in Kernels /\ kern'[d] = z /\ Under(sock, s, kern, kern')
          BY <1>1, <2>3, <3>1, <3>3, Basics DEF Kernels, Under
    <3>5. Owned(sock', kern')
      <4>1. SameFree(kern, kern')
            BY <2>3, <3>1, <3>3, Basics, NoneAssumption DEF Kernels, SameFree
      <4>2. Owned([sock EXCEPT ![s] = y], kern')
            BY <1>1, <2>4, <3>1, <4>1, Basics, KeepOwned
      <4> QED BY <2>4, <4>2
    <3>6. Settled(x, kern)
          BY <1>0, <1>1, Basics DEF SocketInv, Exempt, OwnDescriptor
    <3>7. Settled(y, kern')
          BY SMT, <2>4, <3>1, <3>3, <3>4, <3>6 DEF Settled
    <3>8. Good(s, y, kern', call', taken)
          BY <2>7, <3>7 DEF Good
    <3>9. SocketInv(call', sock', kern', taken)
          BY <1>0, <1>1, <2>4, <2>8, <3>4, <3>8, OneSocketStep
    <3>10. CASE call.op = "connect"
      <4>1. ConnectInv(call, sock, kern)
            BY <1>0, <3>10, InCall
      <4>2. ConnectInv(call', sock', kern')
            BY SMT, <1>0, <2>4, <2>5, <2>6, <2>9, <2>10, <4>1
            DEF ConnectInv, Unconnected, Open
      <4>3. CallInv(call', sock', kern', taken)
            BY <2>5, <2>9, <3>10, <4>2 DEF CallInv
      <4> QED BY <1>0, <2>5, <2>9, <3>4, <3>5, <3>9, <4>3, Basics DEF IInv
    <3>11. CASE call.op = "accept"
      <4>1. AcceptInv(call, sock, kern)
            BY <1>0, <3>11, InCall
      <4>2. call.server \in Sockets \ {s} /\ call.left = 1
            BY SMT, <1>0, <1>1, <4>1 DEF AcceptInv, AcceptOf, Calls
      <4>3. /\ x.type = "UDP" /\ kern'[y.socket].peer = call.host
            BY <1>0, <2>4, <3>3, <3>4, <4>1 DEF AcceptInv, AcceptOf
      <4>4. PeerLeft(call', y) <=> PeerLeft(call, x)
            BY <2>4, <2>5 DEF PeerLeft
      <4>5. AcceptInv(call', sock', kern')
        <5>1. /\ sock'[call'.s] = y /\ sock'[call'.server] = sock[call.server]
              /\ y.socket = x.socket /\ y.socket # None
              BY <2>4, <2>5, <2>9, <3>1, <4>2
        <5>2. /\ call'.pc = "connecting" /\ call'.opened /\ call'.left = 1
              /\ call'.server = call.server /\ call'.s = call.s
              BY <2>5, <2>10, <4>2
        <5>3. /\ sock[call.server] # None /\ x.type = sock[call.server].type
              /\ Unconnected(sock[call.server]) /\ sock[call.server].socket = None
              /\ x.state = "BOUND" /\ x.remote = call.host /\ call.host # None
              /\ ~PeerLeft(call, x) /\ call.server # None /\ call.server # call.s
              BY <1>0, <3>1, <4>1, <4>2 DEF AcceptInv, AcceptOf
        <5> HIDE DEF x, s
        <5> QED BY <2>4, <2>5, <4>3, <4>4, <5>1, <5>2, <5>3 DEF AcceptInv, AcceptOf, Unconnected
      <4>6. CallInv(call', sock', kern', taken)
            BY <2>5, <2>9, <3>11, <4>5 DEF CallInv
      <4> QED BY <1>0, <2>5, <2>9, <3>4, <3>5, <3>9, <4>6, Basics DEF IInv
    <3> QED BY <1>0, <3>10, <3>11
  <2>11. CASE ~Open(x)
    <3>1. d \in FreeFds(kern) /\ kern[d] = None /\ x.socket = None
          BY <2>1, <2>11 DEF FreeFds, Open
    <3>2. call.op = "connect" /\ ConnectInv(call, sock, kern)
          BY SMT, <1>0, <3>1, InCall DEF AcceptInv, AcceptOf
    <3>3. PICK z \in KernelSocket : kern' = [kern EXCEPT ![d] = z]
      <4>1. NewSocket(f) \in KernelSocket
            BY <2>3, NewSocketFacts
      <4>2. CASE x.type = "UDP"
        <5> DEFINE z == [NewSocket(f) EXCEPT !.peer = call.host]
        <5>1. z \in KernelSocket
              BY <2>2, <4>1 DEF KernelSocket
        <5>2. kern' = [kern EXCEPT ![d] = z]
              BY <2>1, <2>3, <2>11, <4>2, Basics DEF Kernels
        <5> QED BY <5>1, <5>2
      <4>3. CASE x.type # "UDP"
            BY <2>1, <2>11, <4>1, <4>3
      <4> QED BY <4>2, <4>3
    <3>4. kern' \in Kernels /\ Under(sock, s, kern, kern')
          BY <2>3, <3>1, <3>3, Basics DEF Kernels, Under
    <3>5. Owned(sock', kern')
      <4>1. Owned([sock EXCEPT ![s] = y], [kern EXCEPT ![d] = z])
            BY <1>1, <2>3, <2>4, <3>1, Basics, TakeOwned
      <4> QED BY <2>4, <3>3, <4>1
    <3>6. Exempt(call', s)
          BY <2>5, <2>11, <3>2, IdleNotCall DEF Exempt, OwnDescriptor
    <3>7. Good(s, y, kern', call', taken)
          BY <2>7, <3>6 DEF Good
    <3>8. SocketInv(call', sock', kern', taken)
          BY <1>0, <1>1, <2>4, <2>8, <3>4, <3>7, OneSocketStep
    <3>9. ConnectInv(call', sock', kern')
          BY <1>0, <2>4, <2>5, <2>6, <2>9, <2>11, <3>2 DEF ConnectInv, Unconnected
    <3>10. CallInv(call', sock', kern', taken)
          BY <2>5, <2>9, <3>2, <3>9 DEF CallInv
    <3> QED BY <1>0, <2>5, <2>9, <3>4, <3>5, <3>8, <3>10, Basics DEF IInv
  <2> QED BY <2>10, <2>11
<1> QED BY <1>2, <1>3

(* try_connect_open_socket succeeds in connect_net.                          *)
LEMMA ConnectedStep ==
    ASSUME IInv, call.pc \in {"connecting", "sending"}, call.op = "connect",
           Open(Me), Connected
    PROVE  IInv'
<1> DEFINE s == call.s
           x == sock[s]
           d == x.socket
           y == [x EXCEPT !.state = "CONNECTED", !.remote = call.host]
           z == [kern[d] EXCEPT !.peer = call.host]
<1>0. /\ call \in Calls /\ call # Idle /\ s \in Sockets /\ x # None /\ x \in NetSocket
      /\ ConnectInv(call, sock, kern)
      BY InCall
<1>1. call.host \in Hosts /\ call.host # None
      BY <1>0 DEF ConnectInv, Calls
<1>2. d \in Fds /\ d # None /\ kern[d] # None /\ kern[d] \in KernelSocket
  <2>1. d \in Fds /\ d # None
        BY <1>0 DEF NetSocket, Open, Me
  <2>2. kern[d] # None
        BY <1>0, <2>1, Basics DEF Owned
  <2> QED BY <2>1, <2>2, Basics DEF Kernels
<1>3. z \in KernelSocket /\ z.peer = call.host
      BY <1>1, <1>2 DEF KernelSocket
<1>4. /\ y \in NetSocket /\ y.socket = d /\ y.type = x.type /\ y.remote = call.host
      /\ y.bytes_sent = x.bytes_sent /\ y.state = "CONNECTED"
      BY <1>0, <1>1 DEF NetSocket, States
<1>5. /\ call' = Idle /\ UNCHANGED taken
      /\ sock' = [sock EXCEPT ![s] = y] /\ kern' = [kern EXCEPT ![d] = z]
  <2>1. sock' = [sock EXCEPT ![s].state = "CONNECTED", ![s].remote = call.host]
        BY DEF Connected
  <2>2. sock' = [sock EXCEPT ![s] = y]
        BY <1>0, <2>1, Basics DEF Objects, NetSocket
  <2> QED BY <2>2 DEF Connected, Me
<1> HIDE DEF y, z
<1>6. /\ kern' \in Kernels /\ kern'[d] = z /\ Under(sock, s, kern, kern')
      /\ SameFree(kern, kern')
      BY <1>0, <1>2, <1>3, <1>5, Basics, NoneAssumption DEF Kernels, Under, SameFree
<1>7. sock' \in Objects
      BY <1>0, <1>4, <1>5, Basics DEF Objects
<1>8. Owned(sock', kern')
  <2>1. Owned([sock EXCEPT ![s] = y], kern')
        BY <1>0, <1>4, <1>6, Basics, KeepOwned
  <2> QED BY <1>5, <2>1
<1>9. Good(s, y, kern', call', taken)
  <2>1. CountsBytes(x, taken[s])
        BY <1>0, Basics DEF SocketInv, CountsBytes
  <2>2. CountsBytes(y, taken[s])
        BY <1>4, <2>1 DEF CountsBytes
  <2>3. Truthful(y, kern') /\ Settled(y, kern')
        BY <1>1, <1>2, <1>3, <1>4, <1>6 DEF Truthful, Settled
  <2> QED BY <2>2, <2>3 DEF Good
<1>10. Others(s, call, taken, call', taken)
      BY DEF Others, Exempt
<1>11. SocketInv(call', sock', kern', taken)
      BY <1>0, <1>5, <1>6, <1>9, <1>10, OneSocketStep
<1> QED BY <1>5, <1>6, <1>7, <1>8, <1>11, Basics, IdleCall DEF IInv

(* A round of send_net: the bytes the kernel takes are counted.              *)
LEMMA SendRoundStep ==
    ASSUME IInv, SendRound
    PROVE  IInv'
<1>0. /\ call.pc = "sending" /\ call \in Calls /\ call # Idle /\ call.s \in Sockets
      /\ sock[call.s] # None /\ sock[call.s] \in NetSocket
      /\ call.op \in {"connect", "send"}
      BY InCall DEF SendRound, AcceptInv, AcceptOf, SendInv
<1>1. CASE IF call.op = "connect" THEN AddressFailed ELSE Return
      BY <1>0, <1>1, AddressFailedStep, ReturnStep
<1>2. CASE call.op = "connect" /\ Open(Me) /\ Connected
      BY <1>0, <1>2, ConnectedStep
<1>3. ASSUME call.op = "send",
             NEW k \in IF Me.type = "UDP" THEN {call.length} ELSE 0..(call.length - call.sent),
             taken' = [taken EXCEPT ![call.s] = @ + k],
             sock' = IF call.length # 0 /\ k = 0 THEN sock
                     ELSE [sock EXCEPT ![call.s] = Count(k)],
             call' = IF \/ Me.type = "UDP" \/ call.sent + k = call.length
                        \/ call.length # 0 /\ k = 0
                     THEN Idle ELSE [call EXCEPT !.sent = @ + k],
             UNCHANGED kern
      PROVE  IInv'
  <2> DEFINE s == call.s
             x == sock[s]
             c == [call EXCEPT !.sent = @ + k]
             y == IF call.length # 0 /\ k = 0 THEN x ELSE Count(k)
  <2>1. /\ call.sent \in Nat /\ call.length \in 0..MaxBytes /\ call.sent <= call.length
        /\ taken[s] \in Nat /\ taken[s] + call.length - call.sent <= MaxBytes
        /\ x.type = "UDP" => call.sent = 0
        /\ x.bytes_sent \in Nat
    <3>1. SendInv(call, sock, kern, taken)
          BY <1>0, <1>3, InCall
    <3>2. call.sent \in Nat /\ call.length \in 0..MaxBytes /\ x.bytes_sent \in Nat
          BY SMT, <1>0, SocketAssumption DEF Calls, NetSocket
    <3>3. taken[s] \in Nat
          BY SMT, <1>0, Basics, SocketAssumption
    <3> QED BY <3>1, <3>2, <3>3 DEF SendInv
  <2>2. k \in Nat /\ call.sent + k <= call.length
    <3>1. CASE x.type = "UDP"
          BY SMT, <2>1, <3>1 DEF Me
    <3>2. CASE x.type # "UDP"
      <4>1. k \in 0..(call.length - call.sent)
            BY <3>2 DEF Me
      <4> QED BY SMT, <2>1, <4>1
    <3> QED BY <3>1, <3>2
  <2>3. /\ taken' \in [Sockets -> 0..MaxBytes] /\ taken'[s] = taken[s] + k
        /\ \A t \in Sockets \ {s} : taken'[t] = taken[t]
    <3>1. taken[s] + k \in 0..MaxBytes
          BY SMT, <2>1, <2>2, SocketAssumption
    <3> QED BY <1>0, <1>3, <3>1, Basics
  <2>4. /\ y \in NetSocket /\ y.socket = x.socket /\ y.type = x.type
        /\ y.state = x.state /\ y.remote = x.remote
        /\ y.bytes_sent >= taken[s] + k
        /\ x.type = "UDP" => y.bytes_sent = taken[s] + k
    <3>1. CountsBytes(x, taken[s])
          BY <1>0, Basics DEF SocketInv, CountsBytes
    <3>2. CASE call.length # 0 /\ k = 0
          BY SMT, <1>0, <2>1, <3>1, <3>2 DEF CountsBytes
    <3>3. CASE ~(call.length # 0 /\ k = 0)
      <4>1. y = [x EXCEPT !.bytes_sent = @ + call.sent + k]
            BY <3>3 DEF Count, Me
      <4> HIDE DEF y
      <4>2. /\ y \in NetSocket /\ y.socket = x.socket /\ y.type = x.type
            /\ y.state = x.state /\ y.remote = x.remote
            /\ y.bytes_sent = x.bytes_sent + call.sent + k
            BY SMT, <1>0, <2>1, <2>2, <4>1 DEF NetSocket
      <4> QED BY SMT, <2>1, <2>2, <3>1, <4>2 DEF CountsBytes
    <3> QED BY <3>2, <3>3
  <2>5. sock' = [sock EXCEPT ![s] = y]
        BY <1>0, <1>3, Basics DEF Objects
  <2> HIDE DEF y
  <2>6. /\ sock' \in Objects /\ sock'[s] = y /\ y # None
        BY <1>0, <2>4, <2>5, Basics, NoneAssumption DEF Objects
  <2>7. Owned(sock', kern')
    <3>1. Owned([sock EXCEPT ![s] = y], kern)
          BY <1>0, <2>4, Basics, SameOwned
    <3> QED BY <1>3, <2>5, <3>1
  <2>8. \A t : ~Exempt(call, t)
        BY <1>3 DEF Exempt, OwnDescriptor
  <2>9. Good(s, y, kern', call', taken')
    <3>1. Truthful(x, kern) /\ Settled(x, kern)
          BY <1>0, <2>8, Basics DEF SocketInv
    <3>2. Truthful(y, kern) /\ Settled(y, kern)
          BY <2>4, <3>1 DEF Truthful, Settled
    <3> QED BY <1>3, <2>3, <2>4, <3>2 DEF Good, CountsBytes
  <2>10. Others(s, call, taken, call', taken') /\ Under(sock, s, kern, kern')
        BY <1>3, <2>3, <2>8 DEF Others, Under
  <2>11. SocketInv(call', sock', kern', taken')
        BY <1>0, <2>5, <2>9, <2>10, OneSocketStep
  <2>12. CASE call' = Idle
        BY SMT, <1>3, <2>3, <2>6, <2>7, <2>11, <2>12, Basics, IdleCall DEF IInv
  <2>13. CASE call' # Idle
    <3>1. call' = c /\ x.type # "UDP"
          BY <1>3, <2>13 DEF Me
    <3>2. /\ call' \in Calls /\ call'.pc = "sending" /\ call'.op = "send"
          /\ call'.s = s /\ call'.length = call.length /\ call'.sent = call.sent + k
      <4>1. call.sent + k \in 0..MaxBytes
            BY SMT, <2>1, <2>2, SocketAssumption
      <4> QED BY <1>0, <1>3, <3>1, <4>1 DEF Calls
    <3>3. SendInv(call', sock', kern', taken')
          BY SMT, <2>1, <2>2, <2>3, <2>4, <2>6, <3>1, <3>2 DEF SendInv
    <3>4. CallInv(call', sock', kern', taken')
          BY <2>6, <3>2, <3>3 DEF CallInv
    <3> QED BY <1>3, <2>3, <2>6, <2>7, <2>11, <3>2, <3>4, Basics DEF IInv
  <2> QED BY <2>12, <2>13
<1> QED BY <1>1, <1>2, <1>3 DEF SendRound

(* A round of send_to_net.                                                   *)
LEMMA SendToRoundStep ==
    ASSUME IInv, SendToRound
    PROVE  IInv'
<1>0. /\ call.pc = "sending_to" /\ call \in Calls /\ call # Idle /\ call.s \in Sockets
      /\ sock[call.s] # None /\ sock[call.s] \in NetSocket
      /\ call.op = "send_to" /\ SendInv(call, sock, kern, taken)
      BY InCall DEF SendToRound, AcceptInv, AcceptOf, SendInv, ConnectInv
<1>1. \A t : ~Exempt(call, t)
      BY <1>0 DEF Exempt, OwnDescriptor
<1>2. CASE Return
      BY <1>0, <1>2, ReturnStep
<1>3. CASE call' = NextAddress /\ UNCHANGED <<sock, kern, taken>>
  <2>1. call.left > 0
        BY <1>0 DEF SendInv
  <2> QED BY <1>0, <1>1, <1>3, <2>1, NextAddressStep
<1>4. ASSUME NEW k \in 0..call.length, Me.type = "UDP",
             taken' = [taken EXCEPT ![call.s] = @ + k],
             sock' = [sock EXCEPT ![call.s].bytes_sent = @ + k],
             call' = Idle, UNCHANGED kern
      PROVE  IInv'
  <2> DEFINE s == call.s
             x == sock[s]
             y == [x EXCEPT !.bytes_sent = @ + k]
  <2>1. /\ call.length \in 0..MaxBytes /\ call.sent = 0
        /\ taken[s] \in Nat /\ taken[s] + call.length <= MaxBytes
        /\ x.bytes_sent = taken[s]
    <3>1. call.length \in 0..MaxBytes
          BY <1>0 DEF Calls
    <3>2. taken[s] \in Nat /\ call.sent = 0
          BY SMT, <1>0, Basics, SocketAssumption DEF SendInv
    <3>3. x.bytes_sent = taken[s]
          BY <1>0, <1>4, Basics DEF SocketInv, Me
    <3> QED BY SMT, <1>0, <3>1, <3>2, <3>3, SocketAssumption DEF SendInv
  <2>2. k \in Nat /\ taken[s] + k \in 0..MaxBytes
        BY SMT, <2>1, SocketAssumption
  <2>3. /\ taken' \in [Sockets -> 0..MaxBytes] /\ taken'[s] = taken[s] + k
        /\ \A t \in Sockets \ {s} : taken'[t] = taken[t]
        BY <1>0, <1>4, <2>2, Basics
  <2>4. /\ y \in NetSocket /\ y.socket = x.socket /\ y.type = x.type
        /\ y.state = x.state /\ y.remote = x.remote
        /\ y.bytes_sent = taken[s] + k
        BY SMT, <1>0, <2>1, <2>2 DEF NetSocket
  <2>5. sock' = [sock EXCEPT ![s] = y]
        BY <1>4
  <2> HIDE DEF y
  <2>6. sock' \in Objects
        BY <1>0, <2>4, <2>5, Basics DEF Objects
  <2>7. Owned(sock', kern')
    <3>1. Owned([sock EXCEPT ![s] = y], kern)
          BY <1>0, <2>4, Basics, SameOwned
    <3> QED BY <1>4, <2>5, <3>1
  <2>8. Good(s, y, kern', call', taken')
    <3>1. Truthful(x, kern) /\ Settled(x, kern)
          BY <1>0, <1>1, Basics DEF SocketInv
    <3>2. Truthful(y, kern) /\ Settled(y, kern)
          BY <2>4, <3>1 DEF Truthful, Settled
    <3>3. CountsBytes(y, taken'[s])
          BY SMT, <2>2, <2>3, <2>4 DEF CountsBytes
    <3> QED BY <1>4, <3>2, <3>3 DEF Good
  <2>9. Others(s, call, taken, call', taken') /\ Under(sock, s, kern, kern')
        BY <1>1, <1>4, <2>3 DEF Others, Under
  <2>10. SocketInv(call', sock', kern', taken')
        BY <1>0, <2>5, <2>8, <2>9, OneSocketStep
  <2> QED BY <1>4, <2>3, <2>6, <2>7, <2>10, Basics, IdleCall DEF IInv
<1> QED BY <1>2, <1>3, <1>4 DEF SendToRound

-----------------------------------------------------------------------------
(* A socket is closed under a call, or by it.                               *)

(* CloseRaw as an action.                                                    *)
LEMMA CloseRawFacts ==
    ASSUME IInv, NEW s \in Sockets, sock[s] # None, CloseRaw(s)
    PROVE  /\ sock' = [sock EXCEPT ![s] = Closed(sock[s])]
           /\ kern' = KernelClose(kern, sock[s].socket)
           /\ sock' \in Objects /\ kern' \in Kernels /\ Owned(sock', kern')
           /\ sock'[s] = Closed(sock[s]) /\ sock'[s] # None
           /\ \A t \in Sockets \ {s} : sock'[t] = sock[t]
<1>1. /\ sock' = [sock EXCEPT ![s] = Closed(sock[s])]
      /\ kern' = KernelClose(kern, sock[s].socket)
      BY DEF CloseRaw
<1>2. Closed(sock[s]) \in NetSocket /\ Closed(sock[s]) # None
      BY Basics, ClosedFacts
<1>3. \A t \in Sockets \ {s} : Exempt(call, t) => Exempt(call, t)
      OBVIOUS
<1>4. sock' \in Objects /\ Owned(sock', kern')
      BY <1>1, Basics, CloseRawInv
<1>5. kern' \in Kernels
      BY <1>1, Basics, CloseUnder
<1> QED BY <1>1, <1>2, <1>4, <1>5, Basics DEF Objects

(* A signal handler closes a socket under a call: whatever the call knows of *)
(* that socket is said only of one with a descriptor.                        *)
LEMMA HandlerClosesStep ==
    ASSUME IInv, NEW s \in Sockets, HandlerCloses(s)
    PROVE  IInv'
<1>0. /\ call.pc \notin {"none", "next"} /\ sock[s] # None /\ CloseRaw(s)
      /\ UNCHANGED <<call, taken>>
      BY DEF HandlerCloses, Blocked, Live
<1>1. /\ sock' \in Objects /\ kern' \in Kernels /\ Owned(sock', kern')
      /\ sock'[s] = Closed(sock[s]) /\ sock'[s] # None
      /\ \A t \in Sockets \ {s} : sock'[t] = sock[t]
      BY <1>0, CloseRawFacts
<1>2. SocketInv(call, sock', kern', taken)
      BY SMT, <1>0, CloseRawFacts, Basics, CloseRawInv
<1>3. /\ call \in Calls /\ call # Idle /\ call.s \in Sockets /\ sock[call.s] # None
      BY <1>0, InCall
<1>4. ASSUME NEW t \in Sockets, sock[t] # None
      PROVE  /\ sock'[t] # None /\ sock'[t].type = sock[t].type
             /\ sock'[t].configuration = sock[t].configuration
             /\ Unconnected(sock[t]) => Unconnected(sock'[t])
             /\ \/ sock'[t].socket = None
                \/ sock'[t] = sock[t] /\ kern'[sock[t].socket] = kern[sock[t].socket]
  <2>1. CASE t = s
    <3>1. sock[s] \in NetSocket
          BY <1>0, Basics
    <3> QED BY <1>1, <2>1, <3>1, ClosedFacts DEF Unconnected
  <2>2. CASE t # s
    <3>1. sock'[t] = sock[t]
          BY <1>1, <2>2
    <3>2. sock[t].socket \in Fds \cup {None} /\ sock[s].socket \in Fds \cup {None}
          BY <1>0, <1>4, Basics DEF NetSocket
    <3>3. sock[t].socket # None => sock[t].socket # sock[s].socket
          BY <1>0, <1>4, <2>2, Basics DEF Owned
    <3>4. kern' = KernelClose(kern, sock[s].socket)
          BY <1>0 DEF CloseRaw
    <3>5. sock[t].socket # None => kern'[sock[t].socket] = kern[sock[t].socket]
          BY <3>2, <3>3, <3>4, Basics DEF KernelClose, Kernels
    <3> QED BY <1>4, <3>1, <3>5
  <2> QED BY <2>1, <2>2
<1>5. /\ sock'[call.s] # None /\ sock'[call.s].type = sock[call.s].type
      /\ Unconnected(sock[call.s]) => Unconnected(sock'[call.s])
      BY <1>3, <1>4
<1>6. CASE call.op = "connect"
  <2>1. ConnectInv(call, sock, kern)
        BY <1>0, <1>6, InCall
  <2>2. ConnectInv(call, sock', kern')
        BY <1>0, <1>5, <2>1 DEF ConnectInv
  <2>3. CallInv(call, sock', kern', taken)
        BY <1>5, <1>6, <2>2 DEF CallInv
  <2> QED BY <1>0, <1>1, <1>2, <2>3, Basics DEF IInv
<1>7. CASE call.op \in {"send", "send_to", "receive"}
  <2>1. /\ call.op # "receive" => SendInv(call, sock, kern, taken)
        /\ call.op = "receive" => call.pc = "receiving"
        BY <1>0, <1>7, InCall
  <2>2. call.op # "receive" => SendInv(call, sock', kern', taken)
        BY <1>0, <1>5, <2>1 DEF SendInv
  <2>3. CallInv(call, sock', kern', taken)
        BY <1>5, <1>7, <2>1, <2>2 DEF CallInv
  <2> QED BY <1>0, <1>1, <1>2, <2>3, Basics DEF IInv
<1>8. CASE call.op = "accept"
  <2>1. AcceptInv(call, sock, kern)
        BY <1>0, <1>8, InCall
  <2>2. call.server \in Sockets /\ sock[call.server] # None
        BY <1>3, <2>1 DEF AcceptInv, AcceptOf, Calls
  <2> DEFINE new == sock[call.s]
             server == sock[call.server]
             new2 == sock'[call.s]
             server2 == sock'[call.server]
  <2>3. /\ new2 # None /\ new2.type = new.type /\ new2.configuration = new.configuration
        /\ Unconnected(new) => Unconnected(new2)
        /\ \/ new2.socket = None
           \/ new2 = new /\ kern'[new.socket] = kern[new.socket]
        BY <1>3, <1>4
  <2>4. /\ server2 # None /\ server2.type = server.type
        /\ Unconnected(server) => Unconnected(server2)
        /\ server2.socket = None \/ server2 = server
        BY <1>4, <2>2
  <2>5. PeerLeft(call, new2) <=> PeerLeft(call, new)
        BY <2>3 DEF PeerLeft
  <2> HIDE DEF new, server, new2, server2
  <2>6. AcceptInv(call, sock', kern')
    <3>1. AcceptOf(call, new, server, kern)
          BY <2>1 DEF AcceptInv, new, server
    <3>2. AcceptOf(call, new2, server2, kern')
          BY <1>0, <2>3, <2>4, <2>5, <3>1 DEF AcceptOf
    <3> QED BY <2>1, <2>4, <3>2 DEF AcceptInv, new2, server2
  <2>7. CallInv(call, sock', kern', taken)
        BY <1>5, <1>8, <2>6 DEF CallInv
  <2> QED BY <1>0, <1>1, <1>2, <2>7, Basics DEF IInv
<1> QED BY <1>0, <1>6, <1>7, <1>8, InCall

-----------------------------------------------------------------------------
(* accept_net.                                                              *)

(* How accept_net leaves the server and the new socket.                      *)
Left(c, S, k) ==
    /\ S[c.server].socket # None =>
        /\ S[c.server].state = "BOUND" /\ k[S[c.server].socket].bound
        /\ c.pc # "peeking" => k[S[c.server].socket].peer = None
    /\ S[c.s].socket # None => S[c.s].state = "ACCEPTED"

(* BindAgain, from sockets that are consistent in themselves.                *)
LEMMA BindAgainStep ==
    ASSUME IInv, call \in Calls, call.server \in Sockets, call.server # call.s,
           NEW S \in Objects, NEW k \in Kernels, Owned(S, k),
           SocketInv(Idle, S, k, taken),
           S[call.server] # None, S[call.s] # None, S[call.server].socket = None,
           NEW connected \in BOOLEAN,
           connected => S[call.s].state = "CONNECTED" /\ k[S[call.s].socket].bound,
           BindAgain(S, k, connected)
    PROVE  IInv' /\ Left(call, sock', kern') /\ call' = Idle
<1> DEFINE server == call.server
           new == call.s
<1>1. PICK r \in BindNet(S[server], k, {"INET4"}) :
          IF r.ok /\ connected
          THEN /\ sock' = [S EXCEPT ![server] = r.x, ![new].state = "ACCEPTED"]
               /\ kern' = r.k
          ELSE /\ sock' = [S EXCEPT ![server] = IF r.ok THEN r.x ELSE Closed(r.x),
                                    ![new] = Closed(@)]
               /\ kern' = KernelClose(r.k, S[new].socket)
      BY DEF BindAgain
<1>2. call' = Idle /\ UNCHANGED taken
      BY DEF BindAgain
<1>3. new \in Sockets /\ S[server] \in NetSocket /\ S[new] \in NetSocket
      BY DEF Calls, Objects
<1>4. BindResult(r, S[server], k)
      BY <1>3, BindFacts
<1> DEFINE T == [S EXCEPT ![server] = r.x]
<1>5. /\ T \in Objects /\ r.k \in Kernels /\ Owned(T, r.k)
      /\ SocketInv(Idle, T, r.k, taken) /\ Under(S, server, k, r.k)
      BY <1>3, BoundInv
<1>6. T[server] = r.x /\ T[new] = S[new] /\ r.x \in NetSocket
      BY <1>3, <1>4 DEF Objects, BindResult
<1>7. S[new].socket \in Fds \cup {None} /\ r.x.socket \in Fds \cup {None}
      BY <1>3, <1>4 DEF NetSocket, BindResult
<1>8. S[new].socket # None => r.k[S[new].socket] = k[S[new].socket]
      BY <1>3, <1>5, <1>7 DEF Under, Owned
<1>9. r.ok => r.x.state = "BOUND" /\ r.k[r.x.socket].bound /\ r.k[r.x.socket].peer = None
  <2>1. ASSUME r.ok PROVE /\ r.x.state = "BOUND" /\ r.k[r.x.socket].bound
                          /\ r.k[r.x.socket].peer = None
    <3>1. r.x.state = "BOUND" /\ r.x.socket \in Fds
          BY <1>4, <2>1 DEF BindResult, FreeFds
    <3>2. PICK z \in KernelSocket :
              r.k = [k EXCEPT ![r.x.socket] = z] /\ ListensOn(z, S[server])
          BY <1>4, <2>1 DEF BindResult
    <3> QED BY <3>1, <3>2 DEF Kernels, ListensOn
  <2> QED BY <2>1
<1>10. ~r.ok => r.x.socket = None
      BY <1>4 DEF BindResult
<1> HIDE DEF T
<1>11. CASE r.ok /\ connected
  <2> DEFINE y == [S[new] EXCEPT !.state = "ACCEPTED"]
  <2>1. /\ y \in NetSocket /\ y.socket = S[new].socket /\ y.type = S[new].type
        /\ y.state = "ACCEPTED" /\ y.remote = S[new].remote
        /\ y.bytes_sent = S[new].bytes_sent
        BY <1>3 DEF NetSocket, States
  <2>2. sock' = [T EXCEPT ![new] = y]
        BY <1>1, <1>3, <1>11 DEF T, Objects
  <2> HIDE DEF y
  <2>3. sock' \in Objects /\ sock'[new] = y /\ sock'[server] = r.x
        BY <1>3, <1>5, <1>6, <2>1, <2>2 DEF Objects
  <2>4. kern' = r.k
        BY <1>1, <1>11
  <2>5. Owned([T EXCEPT ![new] = y], r.k)
        BY <1>3, <1>5, <1>6, <2>1, SameOwned
  <2>6. Truthful(S[new], r.k) /\ CountsBytes(S[new], taken[new])
        BY <1>3, <1>5, <1>6 DEF SocketInv, CountsBytes
  <2>7. Truthful(y, r.k) /\ Settled(y, r.k)
        BY <1>8, <1>11, <2>1, <2>6 DEF Truthful, Settled
  <2>8. Good(new, y, r.k, Idle, taken)
        BY <2>1, <2>6, <2>7 DEF Good, CountsBytes
  <2>9. Others(new, Idle, taken, Idle, taken) /\ Under(T, new, r.k, r.k)
        BY DEF Others, Under
  <2>10. SocketInv(Idle, sock', r.k, taken)
        BY <1>3, <1>5, <2>2, <2>8, <2>9, OneSocket
  <2>11. IInv'
        BY <1>2, <1>5, <2>2, <2>3, <2>4, <2>5, <2>10, Basics, IdleCall DEF IInv
  <2>12. Left(call, sock', kern')
        BY <1>9, <1>11, <2>1, <2>3, <2>4 DEF Left
  <2> QED BY <1>2, <2>11, <2>12
<1>12. CASE ~(r.ok /\ connected)
  <2> DEFINE v == IF r.ok THEN r.x ELSE Closed(r.x)
             U == [T EXCEPT ![server] = v]
  <2>1. /\ sock' = [S EXCEPT ![server] = v, ![new] = Closed(@)]
        /\ kern' = KernelClose(r.k, S[new].socket)
        BY <1>1, <1>12
  <2>2. v \in NetSocket /\ v.socket = r.x.socket /\ (r.ok => v.state = r.x.state)
        BY <1>6, <1>10, ClosedFacts
  <2>3. U \in Objects /\ Owned(U, r.k) /\ SocketInv(Idle, U, r.k, taken)
    <3>1. CASE r.ok
      <4>1. U = T
            BY <1>5, <1>6, <3>1 DEF Objects
      <4> QED BY <1>5, <4>1
    <3>2. CASE ~r.ok
      <4>1. U = [T EXCEPT ![server] = Closed(T[server])] /\ T[server] # None
            BY <1>6, <3>2, NoneAssumption
      <4>2. KernelClose(r.k, T[server].socket) = r.k
            BY <1>6, <1>10, <3>2 DEF KernelClose
      <4> HIDE DEF U, v
      <4>3. /\ U \in Objects
            /\ Owned(U, KernelClose(r.k, T[server].socket))
            /\ SocketInv(Idle, U, KernelClose(r.k, T[server].socket), taken)
            BY <1>5, <4>1, CloseRawInv
      <4> QED BY <4>2, <4>3
    <3> QED BY <3>1, <3>2
  <2>4. U[new] = S[new] /\ U[server] = v
        BY <1>3, <1>5, <1>6 DEF Objects
  <2>5. sock' = [U EXCEPT ![new] = Closed(U[new])]
        BY <1>3, <1>5, <2>1, <2>4 DEF U, T, Objects
  <2> HIDE DEF U, v
  <2>6. /\ sock' \in Objects /\ Owned(sock', kern') /\ SocketInv(Idle, sock', kern', taken)
        BY <1>3, <1>5, <2>1, <2>3, <2>4, <2>5, CloseRawInv
  <2>7. kern' \in Kernels
        BY <1>3, <1>5, <1>6, <2>1, CloseUnder
  <2>8. IInv'
        BY <1>2, <2>6, <2>7, Basics, IdleCall DEF IInv
  <2>9. sock'[new].socket = None /\ sock'[server] = v
        BY <1>3, <2>3, <2>4, <2>5, ClosedFacts DEF Objects
  <2>10. v.socket # None => kern'[v.socket] = r.k[v.socket]
    <3>1. v.socket # None => v.socket # S[new].socket
          BY SMT, <1>3, <2>2, <2>3, <2>4, NoneAssumption DEF Owned
    <3> QED BY <1>5, <1>7, <2>1, <2>2, <3>1 DEF KernelClose, Kernels
  <2>11. Left(call, sock', kern')
        BY <1>9, <1>10, <2>2, <2>9, <2>10 DEF Left
  <2> QED BY <1>2, <2>8, <2>11
<1> QED BY <1>11, <1>12

(* Two unconnected sockets of one type swap descriptors and states.          *)
LEMMA SwapInv ==
    ASSUME NEW S \in Objects, NEW k \in Kernels, Owned(S, k),
           SocketInv(Idle, S, k, taken),
           NEW a \in Sockets, NEW b \in Sockets, a # b,
           S[a] # None, S[b] # None, S[a].type = S[b].type,
           Unconnected(S[a]), Unconnected(S[b]),
           NEW T, T = SwapFdAndState(S, a, b)
    PROVE  SocketInv(Idle, T, k, taken)
<1>1. /\ T[a] \in NetSocket /\ T[b] \in NetSocket
      /\ T[a].socket = S[b].socket /\ T[a].state = S[b].state
      /\ T[b].socket = S[a].socket /\ T[b].state = S[a].state
      /\ SameButFd(T[a], S[a]) /\ SameButFd(T[b], S[b])
      /\ \A t \in Sockets \ {a, b} : T[t] = S[t]
      BY SMT, SwapFacts
<1>2. \A t \in Sockets : S[t] # None => /\ Truthful(S[t], k) /\ Settled(S[t], k)
                                        /\ CountsBytes(S[t], taken[t])
      BY IdleExempt DEF SocketInv, CountsBytes
<1>3. Truthful(T[a], k) /\ Truthful(T[b], k)
      BY <1>1 DEF Truthful, Unconnected
<1>4. Settled(T[a], k) /\ Settled(T[b], k)
      BY SMT, <1>1, <1>2 DEF Settled, SameButFd
<1>5. CountsBytes(T[a], taken[a]) /\ CountsBytes(T[b], taken[b])
      BY <1>1, <1>2 DEF CountsBytes, SameButFd
<1> SUFFICES ASSUME NEW t \in Sockets, T[t] # None
             PROVE  Truthful(T[t], k) /\ Settled(T[t], k) /\ CountsBytes(T[t], taken[t])
    BY DEF SocketInv, CountsBytes
<1> QED BY <1>1, <1>2, <1>3, <1>4, <1>5

(* What an accept between its waits has of the two sockets.                  *)
LEMMA InAccept ==
    ASSUME IInv, call.pc # "none", call.op = "accept"
    PROVE  /\ call \in Calls /\ call # Idle
           /\ call.s \in Sockets /\ call.server \in Sockets /\ call.server # call.s
           /\ sock[call.s] # None /\ sock[call.server] # None
           /\ sock[call.s] \in NetSocket /\ sock[call.server] \in NetSocket
           /\ AcceptOf(call, sock[call.s], sock[call.server], kern)
           /\ SocketInv(Idle, sock, kern, taken)
<1>1. call \in Calls /\ call # Idle /\ call.s \in Sockets /\ sock[call.s] # None
      /\ AcceptInv(call, sock, kern)
      BY InCall
<1>2. call.server \in Sockets
      BY <1>1 DEF AcceptInv, Calls
<1>3. \A t \in Sockets : Exempt(call, t) => Exempt(Idle, t)
      BY DEF Exempt, OwnDescriptor
<1>4. SocketInv(Idle, sock, kern, taken)
      BY <1>3, Basics, OnlyCall
<1> QED BY <1>1, <1>2, <1>4, Basics DEF AcceptInv

(* connect_impl failed in accept_udp: the descriptor goes back, is closed,   *)
(* and the server is bound again.                                            *)
LEMMA RollBackStep ==
    ASSUME IInv, call.pc = "next", call.op = "accept", RollBack
    PROVE  IInv' /\ Left(call, sock', kern')
<1> DEFINE server == call.server
           new == call.s
           back == SwapFdAndState(sock, server, new)
           S == [back EXCEPT ![server] = Closed(@)]
           k == KernelClose(kern, back[server].socket)
<1>1. /\ call \in Calls /\ new \in Sockets /\ server \in Sockets /\ server # new
      /\ sock[new] # None /\ sock[server] # None
      /\ sock[new] \in NetSocket /\ sock[server] \in NetSocket
      /\ AcceptOf(call, sock[new], sock[server], kern)
      /\ SocketInv(Idle, sock, kern, taken)
      BY InAccept
<1>2. /\ back \in Objects /\ back[server] \in NetSocket /\ back[new] \in NetSocket
      /\ back[new].socket = sock[server].socket
      BY SMT, <1>1, Basics, SwapFacts
<1>3. Owned(back, kern)
      BY <1>1, Basics, SwapOwned
<1>4. SocketInv(Idle, back, kern, taken)
      BY <1>1, Basics, SwapInv DEF AcceptOf
<1>5. BindAgain(S, k, FALSE)
      BY DEF RollBack
<1> HIDE DEF back
<1>6. S = [back EXCEPT ![server] = Closed(back[server])] /\ back[server] # None
      BY <1>2, NoneAssumption
<1> HIDE DEF S
<1>7. S \in Objects /\ Owned(S, k) /\ SocketInv(Idle, S, k, taken)
      BY <1>1, <1>2, <1>3, <1>4, <1>6, Basics, CloseRawInv
<1>8. k \in Kernels
      BY <1>1, <1>2, <1>6, Basics, CloseUnder
<1>9. /\ S[server] = Closed(back[server]) /\ S[new] = back[new]
      BY <1>1, <1>2, <1>6 DEF Objects
<1>10. S[server] # None /\ S[server].socket = None /\ S[new] # None
      BY <1>2, <1>9, ClosedFacts, NoneAssumption
<1> HIDE DEF k
<1> QED BY <1>1, <1>5, <1>7, <1>8, <1>10, BindAgainStep

(* The walk is over and no address was usable.                               *)
LEMMA GiveUpStep ==
    ASSUME IInv, GiveUp
    PROVE  IInv' /\ (call.op = "accept" => Left(call, sock', kern'))
<1>1. call.pc = "next"
      BY DEF GiveUp
<1>2. CASE call.op = "accept"
      BY <1>1, <1>2, RollBackStep DEF GiveUp
<1>3. CASE call.op # "accept"
  <2>1. Return
        BY <1>3 DEF GiveUp, Return
  <2> QED BY <1>1, <1>3, <2>1, ReturnStep
<1> QED BY <1>2, <1>3

(* The wait of connect_with_timeout ends; for an accept that succeeds the    *)
(* server is bound again.                                                    *)
LEMMA ConnectWaitEndsStep ==
    ASSUME IInv, ConnectWaitEnds
    PROVE  IInv' /\ (call.op = "accept" /\ call' = Idle => Left(call, sock', kern'))
<1>0. /\ call.pc = "connecting" /\ call \in Calls /\ call # Idle /\ call.s \in Sockets
      /\ sock[call.s] # None /\ sock[call.s] \in NetSocket
      /\ call.op \in {"connect", "accept"}
      BY InCall DEF ConnectWaitEnds, SendInv
<1>1. CASE AddressFailed
  <2>1. call' # Idle
    <3>1. call.left > 0
          BY SMT, <1>0, InCall, InAccept DEF ConnectInv, AcceptOf
    <3>2. NextAddress \in Calls
          BY <1>0, <3>1, NextAddressFacts
    <3> QED BY <1>1, <3>2, IdleNotCall DEF AddressFailed
  <2> QED BY <1>0, <1>1, <2>1, AddressFailedStep
<1>2. CASE Open(Me) /\ Me.type # "UDP" /\ call' = [call EXCEPT !.pc = "sending"]
           /\ UNCHANGED <<sock, kern, taken>>
  <2>1. call.op = "connect" /\ ConnectInv(call, sock, kern)
        BY <1>0, <1>2, InCall, InAccept DEF AcceptOf, Me
  <2>2. /\ call' \in Calls /\ call'.pc = "sending" /\ call'.op = call.op
        /\ call'.s = call.s /\ call'.server = call.server /\ call'.host = call.host
        /\ call'.left = call.left /\ call'.opened = call.opened
        BY <1>0, <1>2 DEF Calls
  <2>3. ConnectInv(call', sock, kern)
        BY <1>0, <2>1, <2>2 DEF ConnectInv
  <2>4. CallInv(call', sock, kern, taken)
        BY <1>0, <2>1, <2>2, <2>3 DEF CallInv
  <2>5. \A t \in Sockets : Exempt(call, t) => Exempt(call', t)
        BY <2>2, IdleNotCall DEF Exempt, OwnDescriptor
  <2> QED BY <1>2, <2>1, <2>2, <2>4, <2>5, OnlyCallStep
<1>3. CASE Open(Me) /\ Me.type = "UDP" /\ Connected
  <2>1. CASE call.op = "connect"
        BY <1>0, <1>3, <2>1, ConnectedStep
  <2>2. CASE call.op = "accept"
    <3> DEFINE new == call.s
               y == [sock[new] EXCEPT !.state = "CONNECTED"]
               S == [sock EXCEPT ![new] = y]
    <3>1. /\ new \in Sockets /\ call.server \in Sockets /\ call.server # new
          /\ sock[call.server] # None
          /\ AcceptOf(call, sock[new], sock[call.server], kern)
          /\ SocketInv(Idle, sock, kern, taken)
          BY <1>0, <2>2, InAccept
    <3>2. BindAgain(S, kern, TRUE)
          BY <1>3, <2>2 DEF Connected
    <3>3. /\ y \in NetSocket /\ y.socket = sock[new].socket /\ y.type = sock[new].type
          /\ y.bytes_sent = sock[new].bytes_sent /\ y.remote = sock[new].remote
          /\ y.state = "CONNECTED"
          BY <1>0 DEF NetSocket, States
    <3> HIDE DEF y
    <3>4. S \in Objects /\ S[new] = y /\ S[call.server] = sock[call.server] /\ y # None
          BY <3>1, <3>3, Basics, NoneAssumption DEF Objects
    <3>5. Owned(S, kern)
          BY <1>0, <3>3, Basics, SameOwned
    <3>6. /\ sock[new].socket # None /\ kern[sock[new].socket].peer = call.host
          /\ sock[new].remote = call.host /\ call.host # None
          /\ sock[new].state = "BOUND" /\ sock[call.server].socket = None
          BY <1>0, <1>3, <3>1 DEF AcceptOf, Open, Me
    <3>7. Settled(sock[new], kern) /\ CountsBytes(sock[new], taken[new])
          BY <1>0, <3>1, IdleExempt DEF SocketInv, CountsBytes
    <3>8. kern[sock[new].socket].bound
          BY <3>6, <3>7 DEF Settled
    <3>9. Truthful(y, kern) /\ Settled(y, kern) /\ CountsBytes(y, taken[new])
          BY <3>3, <3>6, <3>7 DEF Truthful, Settled, CountsBytes
    <3>10. /\ Good(new, y, kern, Idle, taken)
           /\ Others(new, Idle, taken, Idle, taken) /\ Under(sock, new, kern, kern)
          BY <3>9 DEF Good, Others, Under
    <3>11. SocketInv(Idle, S, kern, taken)
          BY <1>0, <3>1, <3>10, Basics, OneSocket
    <3> HIDE DEF S
    <3> QED BY <1>0, <3>1, <3>2, <3>3, <3>4, <3>5, <3>6, <3>8, <3>11, Basics, BindAgainStep
  <2> QED BY <1>0, <2>1, <2>2
<1> QED BY <1>1, <1>2, <1>3 DEF ConnectWaitEnds

(* accept_net fails before it has touched the server.                        *)
LEMMA AcceptFailsStep ==
    ASSUME IInv, call.pc \in {"accepting", "peeking"}, call.op = "accept", AcceptFails
    PROVE  IInv' /\ sock'[call.s].socket = None /\ kern' = kern
           /\ sock'[call.server] = sock[call.server]
<1>0. /\ call.s \in Sockets /\ sock[call.s] # None /\ sock[call.s] \in NetSocket
      /\ call.server \in Sockets /\ call.server # call.s
      /\ AcceptOf(call, sock[call.s], sock[call.server], kern)
      /\ SocketInv(Idle, sock, kern, taken)
      BY InAccept
<1>1. CloseRaw(call.s) /\ call' = Idle /\ UNCHANGED taken
      BY DEF AcceptFails
<1>2. /\ sock' = [sock EXCEPT ![call.s] = Closed(sock[call.s])]
      /\ kern' = KernelClose(kern, sock[call.s].socket)
      /\ sock' \in Objects /\ kern' \in Kernels /\ Owned(sock', kern')
      /\ sock'[call.s] = Closed(sock[call.s])
      /\ \A t \in Sockets \ {call.s} : sock'[t] = sock[t]
      BY <1>0, <1>1, CloseRawFacts
<1>3. SocketInv(Idle, sock', kern', taken)
      BY <1>0, <1>2, Basics, CloseRawInv
<1>4. IInv'
      BY <1>1, <1>2, <1>3, Basics, IdleCall DEF IInv
<1>5. kern' = kern
      BY <1>0, <1>2 DEF AcceptOf, KernelClose
<1> QED BY <1>0, <1>2, <1>4, <1>5, ClosedFacts

(* The server of an accept that has not touched it.                          *)
LEMMA ServerListens ==
    ASSUME IInv, call.pc \in {"accepting", "peeking"}, call.op = "accept",
           sock[call.server].socket # None
    PROVE  /\ sock[call.server].state = "BOUND"
           /\ kern[sock[call.server].socket].bound
           /\ call.pc = "accepting" => kern[sock[call.server].socket].peer = None
<1>1. /\ AcceptOf(call, sock[call.s], sock[call.server], kern)
      /\ Settled(sock[call.server], kern)
      BY InAccept, IdleExempt DEF SocketInv
<1> QED BY <1>1 DEF AcceptOf, Settled

(* A new socket without a descriptor gets y, and the server stays as it is.  *)
LEMMA AcceptWaitEndsStep ==
    ASSUME IInv, AcceptWaitEnds
    PROVE  IInv' /\ Left(call, sock', kern') /\ call.op = "accept"
<1> DEFINE new == call.s
           server == call.server
           x == sock[new]
<1>0. /\ call.pc = "accepting" /\ call.op = "accept"
      BY InCall DEF AcceptWaitEnds, ConnectInv, SendInv
<1>1. /\ call \in Calls /\ new \in Sockets /\ server \in Sockets /\ server # new
      /\ x # None /\ sock[server] # None /\ x \in NetSocket /\ sock[server] \in NetSocket
      /\ AcceptOf(call, x, sock[server], kern)
      /\ SocketInv(Idle, sock, kern, taken)
      BY <1>0, InAccept
<1>2. x.socket = None /\ Truthful(x, kern) /\ CountsBytes(x, taken[new])
      BY <1>0, <1>1 DEF AcceptOf, SocketInv, CountsBytes
<1>3. CASE AcceptFails
  <2>1. /\ IInv' /\ sock'[new].socket = None /\ kern' = kern
        /\ sock'[server] = sock[server]
        BY <1>0, <1>3, AcceptFailsStep
  <2>2. Left(call, sock', kern')
        BY <1>0, <2>1, ServerListens DEF Left
  <2> QED BY <1>0, <2>1, <2>2
<1>4. CASE /\ sock' = [sock EXCEPT ![new] = [Closed(@) EXCEPT !.state = "CLOSED"]]
           /\ call' = Idle /\ UNCHANGED <<kern, taken>>
  <2> DEFINE y == [Closed(x) EXCEPT !.state = "CLOSED"]
  <2>1. /\ Closed(x) \in NetSocket /\ Closed(x).socket = None
        /\ Closed(x).type = x.type /\ Closed(x).bytes_sent = x.bytes_sent
        BY <1>1, ClosedFacts
  <2>2. /\ y \in NetSocket /\ y.socket = None /\ y.type = x.type
        /\ y.state = "CLOSED" /\ y.bytes_sent = x.bytes_sent
        BY <2>1 DEF NetSocket, States
  <2>3. sock' = [sock EXCEPT ![new] = y]
        BY <1>4
  <2> HIDE DEF y
  <2>4. sock' \in Objects /\ sock'[new] = y /\ sock'[server] = sock[server]
        BY <1>1, <2>2, <2>3, Basics DEF Objects
  <2>5. Owned([sock EXCEPT ![new] = y], kern)
        BY <1>1, <1>2, <2>2, Basics, SameOwned
  <2>6. /\ Good(new, y, kern, Idle, taken)
        /\ Others(new, Idle, taken, Idle, taken) /\ Under(sock, new, kern, kern)
        BY <1>2, <2>2 DEF Good, Others, Under, Truthful, Settled, CountsBytes
  <2>7. SocketInv(Idle, sock', kern, taken)
        BY <1>1, <2>3, <2>6, Basics, OneSocket
  <2>8. IInv'
        BY <1>4, <2>3, <2>4, <2>5, <2>7, Basics, IdleCall DEF IInv
  <2>9. Left(call, sock', kern')
        BY <1>0, <1>4, <2>2, <2>4, ServerListens DEF Left
  <2> QED BY <1>0, <2>8, <2>9
<1>5. ASSUME NEW d \in FreeFds(kern), NEW h \in Hosts, sock[server].socket # None,
             kern' = [kern EXCEPT ![d] =
                        [NewSocket(kern[sock[server].socket].family) EXCEPT
                             !.bound = TRUE, !.peer = h]],
             sock' = [sock EXCEPT ![new].socket = d, ![new].remote = h,
                                  ![new].state = "ACCEPTED"],
             call' = Idle, UNCHANGED taken
      PROVE  IInv' /\ Left(call, sock', kern')
  <2> DEFINE f == kern[sock[server].socket].family
             z == [NewSocket(f) EXCEPT !.bound = TRUE, !.peer = h]
             y == [x EXCEPT !.socket = d, !.remote = h, !.state = "ACCEPTED"]
  <2>1. d \in Fds /\ kern[d] = None /\ d # None /\ h # None
        BY SocketAssumption DEF FreeFds
  <2>2. sock[server].socket \in Fds /\ kern[sock[server].socket] # None
        BY <1>1, <1>5, Basics DEF NetSocket, Owned
  <2>3. f \in Families
        BY <2>2, Basics DEF Kernels, KernelSocket
  <2> HIDE DEF f
  <2>4. z \in KernelSocket /\ z.bound /\ z.peer = h
        BY <2>3 DEF NewSocket, KernelSocket
  <2>5. kern' = [kern EXCEPT ![d] = z]
        BY <1>5 DEF f
  <2> HIDE DEF z
  <2>6. /\ y \in NetSocket /\ y.socket = d /\ y.type = x.type /\ y.remote = h
        /\ y.state = "ACCEPTED" /\ y.bytes_sent = x.bytes_sent
        BY <1>1, <2>1 DEF NetSocket, States
  <2>7. sock' = [sock EXCEPT ![new] = y]
        BY <1>1, <1>5, Basics DEF Objects
  <2> HIDE DEF y
  <2>8. sock' \in Objects /\ sock'[new] = y /\ sock'[server] = sock[server]
        BY <1>1, <2>6, <2>7, Basics DEF Objects
  <2>9. /\ kern' \in Kernels /\ kern'[d] = z /\ Under(sock, new, kern, kern')
        /\ kern'[sock[server].socket] = kern[sock[server].socket]
        BY <2>1, <2>2, <2>4, <2>5, Basics DEF Kernels, Under
  <2>10. Owned([sock EXCEPT ![new] = y], [kern EXCEPT ![d] = z])
        BY <1>1, <1>2, <2>1, <2>4, <2>6, Basics, TakeOwned
  <2>11. /\ Good(new, y, kern', Idle, taken) /\ Others(new, Idle, taken, Idle, taken)
        BY <1>2, <2>1, <2>4, <2>6, <2>9
        DEF Good, Others, Truthful, Settled, CountsBytes
  <2>12. SocketInv(Idle, sock', kern', taken)
        BY <1>1, <2>7, <2>9, <2>11, Basics, OneSocket
  <2>13. IInv'
        BY <1>5, <2>5, <2>7, <2>8, <2>9, <2>10, <2>12, Basics, IdleCall DEF IInv
  <2>14. Left(call, sock', kern')
        BY <1>0, <2>6, <2>8, <2>9, ServerListens DEF Left
  <2> QED BY <2>13, <2>14
<1> QED BY <1>0, <1>3, <1>4, <1>5 DEF AcceptWaitEnds, Open

(* The wait of accept_udp ends: a failure leaves the server alone, and       *)
(* otherwise the descriptor moves to the new socket and the walk begins.     *)
LEMMA PeekWaitEndsStep ==
    ASSUME IInv, PeekWaitEnds
    PROVE  IInv' /\ (call' = Idle => Left(call, sock', kern')) /\ call.op = "accept"
<1> DEFINE new == call.s
           server == call.server
           x == sock[new]
<1>0. /\ call.pc = "peeking" /\ call.op = "accept"
      BY InCall DEF PeekWaitEnds, ConnectInv, SendInv
<1>1. /\ call \in Calls /\ new \in Sockets /\ server \in Sockets /\ server # new
      /\ x # None /\ sock[server] # None /\ x \in NetSocket /\ sock[server] \in NetSocket
      /\ AcceptOf(call, x, sock[server], kern)
      /\ SocketInv(Idle, sock, kern, taken)
      BY <1>0, InAccept
<1>2. CASE AcceptFails
  <2>1. /\ IInv' /\ sock'[new].socket = None /\ kern' = kern
        /\ sock'[server] = sock[server]
        BY <1>0, <1>2, AcceptFailsStep
  <2>2. Left(call, sock', kern')
        BY <1>0, <2>1, ServerListens DEF Left
  <2> QED BY <1>0, <2>1, <2>2
<1>3. ASSUME NEW h \in Hosts, sock[server].socket # None, sock' = Peeked(h),
             NEW n \in Resolve(sock'[new], server, h, "ONLY"),
             call' = [call EXCEPT !.pc = "next", !.host = h, !.left = n],
             UNCHANGED <<kern, taken>>
      PROVE  IInv' /\ call' # Idle
  <2> DEFINE y == [x EXCEPT !.remote = h]
             S == [sock EXCEPT ![new] = y]
  <2>1. /\ y \in NetSocket /\ y.socket = x.socket /\ y.state = x.state
        /\ y.type = x.type /\ y.bytes_sent = x.bytes_sent /\ y.remote = h
        /\ y.configuration = x.configuration
        BY <1>1 DEF NetSocket
  <2> HIDE DEF y
  <2>2. S \in Objects /\ S[new] = y /\ S[server] = sock[server] /\ y # None
        BY <1>1, <2>1, Basics, NoneAssumption DEF Objects
  <2>3. Owned(S, kern)
        BY <1>1, <2>1, Basics, SameOwned
  <2>4. /\ x.socket = None /\ x.type = sock[server].type /\ x.type = "UDP"
        /\ Unconnected(x) /\ Unconnected(sock[server]) /\ sock[server].state = "BOUND"
        BY <1>0, <1>1, <1>3 DEF AcceptOf
  <2>5. /\ Good(new, y, kern, Idle, taken)
        /\ Others(new, Idle, taken, Idle, taken) /\ Under(sock, new, kern, kern)
    <3>1. CountsBytes(x, taken[new])
          BY <1>1 DEF SocketInv, CountsBytes
    <3> QED BY <2>1, <2>4, <3>1
            DEF Good, Others, Under, Truthful, Settled, CountsBytes, Unconnected
  <2>6. SocketInv(Idle, S, kern, taken)
        BY <1>1, <2>5, Basics, OneSocket
  <2>7. sock' = SwapFdAndState(S, server, new)
        BY <1>3 DEF Peeked, y
  <2> HIDE DEF S
  <2>8. /\ sock' \in Objects /\ sock'[server] \in NetSocket /\ sock'[new] \in NetSocket
        /\ sock'[server].socket = None /\ sock'[server].state = x.state
        /\ sock'[new].socket = sock[server].socket /\ sock'[new].state = "BOUND"
        /\ SameButFd(sock'[server], sock[server]) /\ SameButFd(sock'[new], y)
        BY SMT, <1>1, <2>1, <2>2, <2>4, <2>7, SwapFacts
  <2>9. Owned(sock', kern)
        BY <1>1, <2>2, <2>3, <2>7, Basics, SwapOwned
  <2>10. Unconnected(y)
        BY <2>1, <2>4 DEF Unconnected
  <2>11. SocketInv(Idle, sock', kern, taken)
        BY <1>1, <2>1, <2>2, <2>3, <2>4, <2>6, <2>7, <2>10, Basics, SwapInv
  <2>12. /\ n \in {0, 1} /\ n \in 0..MaxAddresses
         /\ n = 1 => RequestedFamily(sock'[new].configuration, "ONLY") = {"INET4"}
    <3>1. server # None
          BY <1>1, SocketAssumption
    <3> QED BY SMT, <3>1, ResolveFacts, SocketAssumption
  <2>13. sock'[new].configuration \in Configs /\ h # None
        BY <2>8, SocketAssumption DEF NetSocket
  <2>14. /\ call' \in Calls /\ call'.pc = "next" /\ call'.op = "accept"
         /\ call'.s = new /\ call'.server = server /\ call'.host = h /\ call'.left = n
        BY <1>0, <1>1, <1>3, <2>12 DEF Calls
  <2>15. n = 1 => ~PeerLeft(call', sock'[new])
        BY <2>12, <2>13, FamilyFacts DEF PeerLeft
  <2>16. AcceptOf(call', sock'[new], sock'[server], kern)
    <3>1. /\ sock'[new].type = "UDP" /\ sock'[server].type = "UDP"
          /\ sock'[new].remote = h
          BY <2>1, <2>4, <2>8 DEF SameButFd
    <3>2. Unconnected(sock'[new]) /\ Unconnected(sock'[server])
          BY <2>4, <2>8 DEF Unconnected
    <3> DEFINE c == call'
               v == sock'[new]
               w == sock'[server]
    <3>3. /\ c.pc = "next" /\ c.host = h /\ c.left = n
          /\ v.socket # None /\ v.state = "BOUND" /\ w.socket = None
          BY <1>3, <2>8, <2>14
    <3>4. v.type = "UDP" /\ w.type = "UDP" /\ v.remote = h /\ Unconnected(v) /\ Unconnected(w)
          BY <3>1, <3>2
    <3>5. n = 1 => ~PeerLeft(c, v)
          BY <2>15
    <3> SUFFICES AcceptOf(c, v, w, kern) OBVIOUS
    <3> HIDE DEF c, v, w
    <3> QED BY <2>12, <2>13, <3>3, <3>4, <3>5 DEF AcceptOf
  <2>17. CallInv(call', sock', kern, taken)
        BY <1>1, <2>8, <2>14, <2>16, NoneAssumption, SocketAssumption
        DEF CallInv, AcceptInv
  <2>18. SocketInv(call', sock', kern, taken)
        BY <2>11, IdleExempt, OnlyCall
  <2> QED BY <1>3, <2>8, <2>9, <2>14, <2>17, <2>18, Basics, IdleNotCall DEF IInv
<1> QED BY <1>0, <1>2, <1>3 DEF PeekWaitEnds, Open

-----------------------------------------------------------------------------
(* The theorems.                                                           *)

(* IInv holds before the first call.                                         *)
LEMMA InitInv ==
    ASSUME Init
    PROVE  IInv
<1>1. /\ sock \in Objects /\ kern \in Kernels /\ taken \in [Sockets -> 0..MaxBytes]
      BY SMT, SocketAssumption DEF Init, Objects, Kernels
<1>2. Owned(sock, kern) /\ SocketInv(call, sock, kern, taken)
      BY DEF Init, Owned, SocketInv
<1> QED BY <1>1, <1>2, IdleCall DEF Init, IInv

(* Every operation an application may begin keeps IInv.                      *)
LEMMA OperationStep ==
    ASSUME IInv, NEW s \in Sockets, Operation(s)
    PROVE  IInv'
BY CreateStep, CloseStep, CleanupStep, ShutdownStep, BindStep, SendStep, ReceiveStep,
   ConnectStep, SendToStep, AcceptStep DEF Operation

(* receive_net returns.                                                      *)
LEMMA ReceiveWaitEndsStep ==
    ASSUME IInv, ReceiveWaitEnds
    PROVE  IInv'
<1>1. call.pc = "receiving" /\ Return
      BY DEF ReceiveWaitEnds
<1>2. call.op # "connect"
      BY <1>1, InCall DEF ConnectInv
<1> QED BY <1>1, <1>2, ReturnStep

(* Every step of a call in progress keeps IInv.                              *)
LEMMA StepStep ==
    ASSUME IInv, Step
    PROVE  IInv'
BY TryConnectStep, OtherFamilyStep, GiveUpStep, ConnectWaitEndsStep, SendRoundStep,
   SendToNextStep, SendToRoundStep, ReceiveWaitEndsStep, AcceptWaitEndsStep,
   PeekWaitEndsStep DEF Step

(* IInv is inductive.                                                        *)
LEMMA NextInv ==
    ASSUME IInv, [Next]_vars
    PROVE  IInv'
<1>1. ASSUME UNCHANGED vars
      PROVE  IInv'
      BY <1>1 DEF vars, IInv
<1>2. ASSUME NEW s \in Sockets, Operation(s) \/ HandlerCloses(s)
      PROVE  IInv'
      BY <1>2, OperationStep, HandlerClosesStep
<1>3. CASE Step
      BY <1>3, StepStep
<1> QED BY <1>1, <1>2, <1>3 DEF Next

(* For any number of sockets, descriptors, hosts, configurations and         *)
(* addresses, and whatever a signal handler closes under a wait of           *)
(* avs_net_impl.c: IInv holds at all times.                                  *)
THEOREM SpecInv == Spec => []IInv
BY InitInv, NextInv, PTL DEF Spec

(* DescriptorsOwnedOnce: no path of connect_net, bind_net, accept_net or     *)
(* cleanup_net leaks a descriptor, shares it between two objects or keeps    *)
(* one that was closed.                                                      *)
THEOREM OwnedOnce == Spec => []DescriptorsOwnedOnce
<1>1. IInv => DescriptorsOwnedOnce
  <2> SUFFICES ASSUME IInv PROVE DescriptorsOwnedOnce
      OBVIOUS
  <2>1. Owned(sock, kern)
        BY Basics
  <2>2. ASSUME NEW s \in Live, Open(sock[s])
        PROVE  kern[sock[s].socket] # None
        BY <2>1, <2>2 DEF Owned, Live, Open
  <2>3. ASSUME NEW d \in Fds, kern[d] # None
        PROVE  \E s \in Live : /\ sock[s].socket = d
                               /\ \A t \in Live \ {s} : sock[t].socket # d
    <3>1. PICK s \in Sockets : sock[s] # None /\ sock[s].socket = d
          BY <2>1, <2>3 DEF Owned
    <3>2. \A t \in Live \ {s} : sock[t].socket # d
          BY <2>1, <3>1, SocketAssumption DEF Owned, Live
    <3> QED BY <3>1, <3>2 DEF Live
  <2> QED BY <2>2, <2>3 DEF DescriptorsOwnedOnce
<1> QED BY <1>1, SpecInv, PTL

(* SocketsMatchKernel: the avs_net_socket_state_t of every socket, its       *)
(* remote host, the address of an accepted one and its bytes_sent agree with *)
(* the kernel between calls, and every variable keeps its type.              *)
THEOREM MatchKernel == Spec => []SocketsMatchKernel
<1>1. IInv => SocketsMatchKernel
  <2> SUFFICES ASSUME IInv PROVE SocketsMatchKernel
      OBVIOUS
  <2>1. TypeOK
        BY Basics DEF TypeOK, Objects, Kernels
  <2>2. \A s \in Live : /\ Truthful(sock[s], kern)
                        /\ call = Idle => Settled(sock[s], kern)
                        /\ sock[s].bytes_sent >= taken[s]
                        /\ sock[s].type = "UDP" => sock[s].bytes_sent = taken[s]
        BY Basics, IdleExempt DEF SocketInv, Live
  <2>3. StateMatchesKernel
        BY <2>2 DEF StateMatchesKernel, Truthful, Settled, Open
  <2>4. AcceptedOnServerAddress /\ BytesCounted
        BY <2>2 DEF AcceptedOnServerAddress, BytesCounted, Truthful
  <2> QED BY <2>1, <2>3, <2>4 DEF SocketsMatchKernel
<1> QED BY <1>1, SpecInv, PTL

(* Whichever step ends an accept_net leaves both sockets as Left says.       *)
LEMMA AcceptEnds ==
    ASSUME IInv, [Next]_vars, call.pc # "none", call.op = "accept", call' = Idle
    PROVE  Left(call, sock', kern')
<1>0. /\ call \in Calls /\ call # Idle /\ call.s \in Sockets /\ call.server \in Sockets
      /\ AcceptOf(call, sock[call.s], sock[call.server], kern)
      BY InAccept
<1>1. ASSUME UNCHANGED call PROVE FALSE
      BY <1>0, <1>1
<1>2. ASSUME NEW s \in Sockets, Operation(s) PROVE FALSE
      BY <1>0, <1>2 DEF Operation, Create, Close, Cleanup, Shutdown, Bind, Send, Receive,
                        Connect, SendTo, Accept
<1>3. ASSUME NEW s \in Sockets, HandlerCloses(s) PROVE FALSE
      BY <1>1, <1>3 DEF HandlerCloses
<1>4. ASSUME TryConnect \/ OtherFamily PROVE FALSE
  <2>1. call'.pc \in {"next", "connecting"}
        BY <1>0, <1>4 DEF TryConnect, OtherFamily, NextAddress, Calls
  <2> QED BY <2>1 DEF Idle
<1>5. CASE GiveUp
      BY <1>5, GiveUpStep
<1>6. CASE ConnectWaitEnds
      BY <1>6, ConnectWaitEndsStep
<1>7. CASE AcceptWaitEnds
      BY <1>7, AcceptWaitEndsStep
<1>8. CASE PeekWaitEnds
      BY <1>8, PeekWaitEndsStep
<1>9. ASSUME SendRound \/ SendToNext \/ SendToRound \/ ReceiveWaitEnds PROVE FALSE
      BY <1>0, <1>9 DEF AcceptOf, SendRound, SendToNext, SendToRound, ReceiveWaitEnds
<1> QED BY <1>1, <1>2, <1>3, <1>4, <1>5, <1>6, <1>7, <1>8, <1>9 DEF Next, Step, vars

(* AcceptLeavesServerListening: however accept_net returns, the server is    *)
(* still bound and without a peer or has lost its descriptor, and the new    *)
(* socket keeps a descriptor only when it was accepted.                      *)
THEOREM AcceptLeaves == Spec => AcceptLeavesServerListening
<1> DEFINE A == (call.pc # "none" /\ call.op = "accept" /\ call' = Idle) =>
        LET server == sock'[call.server] new == sock'[call.s] IN
        /\ Open(server) => /\ server.state = "BOUND"
                           /\ kern'[server.socket].bound
                           /\ call.pc # "peeking" => kern'[server.socket].peer = None
        /\ Open(new) => new.state = "ACCEPTED"
<1>1. IInv /\ [Next]_vars => A
  <2> SUFFICES ASSUME IInv, [Next]_vars,
                      call.pc # "none", call.op = "accept", call' = Idle
               PROVE  Left(call, sock', kern')
      BY DEF Left, Open
  <2> QED BY AcceptEnds
<1> QED BY <1>1, SpecInv, PTL DEF Spec, AcceptLeavesServerListening

=============================================================================
