----------------------------- MODULE PosixSocket -----------------------------
(***************************************************************************)
(* The TCP and UDP sockets of src/net/compat/posix/avs_net_impl.c: the     *)
(* life of a descriptor, the avs_net_socket_state_t kept beside it, and    *)
(* the calls that wait for the network.                                    *)
(*                                                                         *)
(* One application thread makes the calls.  While a call waits in poll()   *)
(* (wait_until_ready) a signal handler may close any socket: the code      *)
(* reads net_socket->socket through a volatile pointer and tests it after  *)
(* every wait for that reason.  Everything between two waits is one step.  *)
(* The kernel is the table kern; what it answers is nondeterministic.      *)
(* Payloads are lengths, a host with its port is a model value.            *)
(***************************************************************************)
EXTENDS Naturals, FiniteSets

CONSTANTS
    Sockets,        \* the avs_net_socket_t objects of the application
    Fds,            \* the descriptors of the process
    Hosts,          \* remote host and port pairs
    Configs,        \* the configurations used: [family, preferred, reuse_addr]
    None,           \* INVALID_SOCKET, an empty remote_hostname, a freed object
    MaxAddresses,   \* bound: addresses a name resolves to in one family
    Senders,        \* bound: the sockets the application sends payload on
    MaxBytes        \* bound: bytes the kernel takes from a sender

Types == {"TCP", "UDP"}
Families == {"INET4", "INET6"}
States == {"CLOSED", "SHUTDOWN", "BOUND", "ACCEPTED", "CONNECTED"}

ASSUME SocketAssumption ==
    /\ Configs \subseteq [family: Families \cup {"UNSPEC"},
                          preferred: Families \cup {"UNSPEC"},
                          reuse_addr: BOOLEAN]
    /\ None \notin Fds \cup Hosts \cup Sockets
    /\ Senders \subseteq Sockets
    /\ MaxAddresses \in Nat /\ MaxBytes \in Nat

VARIABLES
    sock,   \* each object: None, or its net_socket_impl_t
    kern,   \* each descriptor: None when free, or what the kernel holds of it
    call,   \* the call in progress, Idle between calls
    taken   \* bytes the kernel took from each socket (history)

vars == <<sock, kern, call, taken>>

Idle == [pc |-> "none"]

NetSocket ==
    [type: Types, configuration: Configs, socket: Fds \cup {None}, state: States,
     remote: Hosts \cup {None}, bytes_sent: Nat]

KernelSocket ==
    [family: Families, bound: BOOLEAN, listening: BOOLEAN, peer: Hosts \cup {None}]

ASSUME NoneAssumption == None \notin NetSocket \cup KernelSocket

(* pc names the place the call waits at ("next" is not a wait: the loop over *)
(* the addresses picks the next one).  server is the listening socket of an  *)
(* accept and None otherwise.  opened is socket_was_already_open.            *)
Calls ==
    [pc: {"next", "connecting", "sending", "sending_to", "receiving",
          "accepting", "peeking"},
     op: {"connect", "send", "send_to", "receive", "accept"},
     s: Sockets, server: Sockets \cup {None}, host: Hosts \cup {None},
     mode: {"ONLY", "BLOCKED"}, left: 0..MaxAddresses, opened: BOOLEAN,
     length: 0..MaxBytes, sent: 0..MaxBytes]

-----------------------------------------------------------------------------
(* Helpers.                                                                *)

Live == {s \in Sockets : sock[s] # None}
Open(x) == x.socket # None
FreeFds(k) == {d \in Fds : k[d] = None}
Blocked == call.pc \notin {"none", "next"}

Other(f) == IF f = "INET4" THEN "INET6" ELSE "INET4"

(* get_requested_family: the set is empty where the C function returns -1.  *)
RequestedFamily(c, mode) ==
    LET preferred == IF c.preferred = "UNSPEC" THEN "INET6" ELSE c.preferred IN
    CASE c.family = "UNSPEC" /\ mode = "ONLY" -> {preferred}
      [] c.family = "UNSPEC" /\ mode = "BLOCKED" -> {Other(preferred)}
      [] c.family # "UNSPEC" /\ mode = "ONLY" -> {c.family}
      [] c.family # "UNSPEC" /\ mode = "BLOCKED" -> {}

(* Mutant: closing forgets to bring the state back to CLOSED.              *)
ClosedKeepsState(x) == [x EXCEPT !.socket = None, !.remote = None]

(* close_net_raw on the object; KernelClose gives the descriptor back.     *)
Closed(x) ==
    [x EXCEPT !.socket = None, !.remote = None,
              !.state = IF Open(x) THEN "CLOSED" ELSE @]

KernelClose(k, d) == IF d = None THEN k ELSE [k EXCEPT ![d] = None]

NewSocket(f) == [family |-> f, bound |-> FALSE, listening |-> FALSE, peer |-> None]

(* resolve_addrinfo_for_socket: how many addresses the walk may get.  A     *)
(* socket bound to IPv4 cannot use the other family; one bound to IPv6 maps *)
(* the addresses.  The peer of an accept is a numeric IPv4 address: it has  *)
(* one address in its own family and none in the other.                     *)
Resolve(x, server, host, mode) ==
    LET fs == RequestedFamily(x.configuration, mode) IN
    IF \/ host = None
       \/ fs = {}
       \/ Open(x) /\ kern[x.socket].family = "INET4" /\ fs # {"INET4"}
       \/ server # None /\ fs # {"INET4"}
    THEN {0}
    ELSE IF server # None THEN {0, 1} \cap 0..MaxAddresses ELSE 0..MaxAddresses

-----------------------------------------------------------------------------
(* create_net_socket, close_net, cleanup_net and shutdown_net              *)

Create(s) ==
    /\ call = Idle /\ sock[s] = None
    /\ \E t \in Types, c \in Configs :
        sock' = [sock EXCEPT ![s] =
            [type |-> t, configuration |-> c, socket |-> None, state |-> "CLOSED",
             remote |-> None, bytes_sent |-> 0]]
    /\ taken' = [taken EXCEPT ![s] = 0]
    /\ UNCHANGED <<kern, call>>

CloseRaw(s) ==
    /\ sock' = [sock EXCEPT ![s] = Closed(@)]
    /\ kern' = KernelClose(kern, sock[s].socket)

Close(s) ==
    /\ call = Idle /\ s \in Live
    /\ CloseRaw(s)
    /\ UNCHANGED <<call, taken>>

Cleanup(s) ==
    /\ call = Idle /\ s \in Live
    /\ kern' = KernelClose(kern, sock[s].socket)
    /\ sock' = [sock EXCEPT ![s] = None]
    /\ taken' = [taken EXCEPT ![s] = 0]
    /\ UNCHANGED call

(* The state changes whether or not there is a descriptor to shut down.     *)
Shutdown(s) ==
    /\ call = Idle /\ s \in Live
    /\ sock' = [sock EXCEPT ![s].state = "SHUTDOWN"]
    /\ UNCHANGED <<kern, call, taken>>

-----------------------------------------------------------------------------
(* bind_net.  A result is the socket and the kernel table it leaves, and    *)
(* whether the attempt succeeded.                                           *)

(* create_listening_socket: there is no descriptor to be had (close_net_raw *)
(* then has nothing to close and leaves the state alone), a later step      *)
(* fails, or the socket is bound and, for TCP, listening.                   *)
CreateListeningSocket(x, k, f) ==
    {[x |-> Closed(x), k |-> k, ok |-> FALSE],
     [x |-> [Closed(x) EXCEPT !.state = "CLOSED"], k |-> k, ok |-> FALSE]}
    \cup
    {[x |-> [x EXCEPT !.socket = d],
      k |-> [k EXCEPT ![d] = [NewSocket(f) EXCEPT !.bound = TRUE,
                                                  !.listening = x.type = "TCP"]],
      ok |-> TRUE] : d \in FreeFds(k)}

(* try_bind: the local name has no address in this family, or the state     *)
(* becomes BOUND and the system socket is made.                             *)
TryBind(x, k, f, resolvable) ==
    {[x |-> x, k |-> k, ok |-> FALSE]}
    \cup IF f \in resolvable
         THEN CreateListeningSocket([x EXCEPT !.state = "BOUND"], k, f)
         ELSE {}

(* bind_net on a socket without a descriptor: the preferred family, then    *)
(* the other one.                                                           *)
BindNet(x, k, resolvable) ==
    LET try(r, mode) ==
            UNION {TryBind(r.x, r.k, f, resolvable) :
                       f \in RequestedFamily(x.configuration, mode)}
        first == try([x |-> x, k |-> k], "ONLY")
        again(r) == LET more == try(r, "BLOCKED") IN IF more = {} THEN {r} ELSE more
    IN  {r \in first : r.ok} \cup UNION {again(r) : r \in {q \in first : ~q.ok}}

Bind(s) ==
    /\ call = Idle /\ s \in Live
    /\ ~Open(sock[s])
    /\ \E r \in BindNet(sock[s], kern, Families) :
        /\ sock' = [sock EXCEPT ![s] = r.x]
        /\ kern' = r.k
    /\ UNCHANGED <<call, taken>>

-----------------------------------------------------------------------------
(* connect_impl, the walk over the addresses                               *)

Waiting(op, s) ==
    [pc |-> "next", op |-> op, s |-> s, server |-> None, host |-> None,
     mode |-> "ONLY", left |-> 0, opened |-> FALSE, length |-> 0, sent |-> 0]

(* connect_net up to the first resolution.  A socket with a descriptor is   *)
(* refused unless it is a bound UDP socket.                                 *)
Connect(s, h) ==
    /\ call = Idle /\ s \in Live
    /\ Open(sock[s]) => sock[s].type = "UDP" /\ sock[s].state = "BOUND"
    /\ \E n \in Resolve(sock[s], None, h, "ONLY") :
        call' = [Waiting("connect", s) EXCEPT !.host = h, !.left = n]
    /\ UNCHANGED <<sock, kern, taken>>

(* The names of the walk that are used below, on the socket of the call.    *)
Me == sock[call.s]

(* Mutant: an address that fails is tried again.                           *)
SameAddress == [call EXCEPT !.pc = "next"]

(* The loop comes back for the next address.                               *)
NextAddress == [call EXCEPT !.pc = "next", !.left = @ - 1]

(* Mutant: the descriptor made for the address is forgotten, not closed.    *)
AddressFailedLeaks ==
    /\ call' = NextAddress
    /\ sock' = IF call.opened THEN sock ELSE [sock EXCEPT ![call.s].socket = None]
    /\ UNCHANGED <<kern, taken>>

(* try_connect fails: a descriptor it made itself is closed, without        *)
(* close_net_raw: neither the state nor the remote name changes.            *)
AddressFailed ==
    /\ call' = NextAddress
    /\ sock' = IF call.opened THEN sock ELSE [sock EXCEPT ![call.s].socket = None]
    /\ kern' = IF call.opened THEN kern ELSE KernelClose(kern, Me.socket)
    /\ UNCHANGED taken

(* try_connect on the next address, up to the wait: socket(),               *)
(* configure_socket() or connect() fails at once, or the call waits.  A     *)
(* datagram socket has its peer as soon as connect() returns.               *)
TryConnect ==
    /\ call.pc = "next" /\ call.op \in {"connect", "accept"} /\ call.left > 0
    /\ \/ call' = NextAddress /\ UNCHANGED <<sock, kern>>
       \/ \E d \in IF Open(Me) THEN {Me.socket} ELSE FreeFds(kern),
             f \in RequestedFamily(Me.configuration, call.mode) :
           LET k == IF Open(Me) THEN kern ELSE [kern EXCEPT ![d] = NewSocket(f)] IN
           /\ sock' = [sock EXCEPT ![call.s].socket = d]
           /\ kern' = IF Me.type = "UDP" THEN [k EXCEPT ![d].peer = call.host] ELSE k
           /\ call' = [call EXCEPT !.pc = "connecting", !.opened = Open(Me)]
    /\ UNCHANGED taken

(* The addresses of the preferred family are used up: the other family.     *)
(* send_to_net takes only the first address of that one.                    *)
OtherFamily ==
    /\ call.pc = "next" /\ call.left = 0 /\ call.mode = "ONLY"
    /\ \E n \in Resolve(Me, call.server, call.host, "BLOCKED") :
        call' = [call EXCEPT !.mode = "BLOCKED",
                             !.left = IF call.op = "send_to" /\ n > 0 THEN 1 ELSE n]
    /\ UNCHANGED <<sock, kern, taken>>

-----------------------------------------------------------------------------
(* accept_udp after the datagram is peeked at: the descriptor moves to the  *)
(* new socket, which is connected, and the server is bound again.           *)

SwapFdAndState(S, a, b) ==
    [S EXCEPT ![a].socket = S[b].socket, ![a].state = S[b].state,
              ![b].socket = S[a].socket, ![b].state = S[a].state]

(* The rest of accept_udp and accept_net, from the sockets S and the kernel *)
(* table k that connecting, or rolling back, leaves.                        *)
BindAgain(S, k, connected) ==
    LET server == call.server new == call.s IN
    /\ \E r \in BindNet(S[server], k, {"INET4"}) :
        IF r.ok /\ connected
        THEN /\ sock' = [S EXCEPT ![server] = r.x, ![new].state = "ACCEPTED"]
             /\ kern' = r.k
        ELSE /\ sock' = [S EXCEPT ![server] = IF r.ok THEN r.x ELSE Closed(r.x),
                                  ![new] = Closed(@)]
             /\ kern' = KernelClose(r.k, S[new].socket)
    /\ call' = Idle
    /\ UNCHANGED taken

(* Mutant: the server gets its descriptor back as connect() left it.       *)
RollBackKeeps ==
    /\ sock' = [SwapFdAndState(sock, call.server, call.s) EXCEPT ![call.s] = Closed(@)]
    /\ call' = Idle
    /\ UNCHANGED <<kern, taken>>

RollBack ==
    LET back == SwapFdAndState(sock, call.server, call.s) IN
    BindAgain([back EXCEPT ![call.server] = Closed(@)],
              KernelClose(kern, back[call.server].socket), FALSE)

(* connect_impl returns an error; send_to_net found no usable address.      *)
GiveUp ==
    /\ call.pc = "next" /\ call.left = 0 /\ call.mode = "BLOCKED"
    /\ IF call.op = "accept" THEN RollBack
       ELSE call' = Idle /\ UNCHANGED <<sock, kern, taken>>

(* try_connect_open_socket succeeds: the state, then either the remote name *)
(* of connect_net or the rest of accept_udp.                                *)
Connected ==
    IF call.op = "accept"
    THEN BindAgain([sock EXCEPT ![call.s].state = "CONNECTED"], kern, TRUE)
    ELSE /\ sock' = [sock EXCEPT ![call.s].state = "CONNECTED",
                                 ![call.s].remote = call.host]
         /\ kern' = [kern EXCEPT ![Me.socket].peer = call.host]
         /\ call' = Idle
         /\ UNCHANGED taken

(* connect_with_timeout: the wait ends with an error, or the socket is      *)
(* ready.  A stream still has to pass a zero-length send.                   *)
ConnectWaitEnds ==
    /\ call.pc = "connecting"
    /\ \/ AddressFailed
       \/ /\ Open(Me)
          /\ IF Me.type = "UDP" THEN Connected
             ELSE /\ call' = [call EXCEPT !.pc = "sending"]
                  /\ UNCHANGED <<sock, kern, taken>>

-----------------------------------------------------------------------------
(* Sending                                                                 *)

Return == call' = Idle /\ UNCHANGED <<sock, kern, taken>>

Send(s) ==
    /\ call = Idle /\ s \in Live
    /\ \E n \in 0..(MaxBytes - taken[s]) :
        call' = [Waiting("send", s) EXCEPT !.pc = "sending", !.length = n]
    /\ UNCHANGED <<sock, kern, taken>>

(* The bytes of all rounds so far are added again in every round.          *)
Count(k) == [Me EXCEPT !.bytes_sent = @ + call.sent + k]

(* One round of the loop of send_net.  The kernel takes a datagram whole    *)
(* and any part of a stream; it needs a peer, and the send that ends a      *)
(* connection attempt is the one that finds it.                             *)
SendRound ==
    /\ call.pc = "sending"
    /\ \/ IF call.op = "connect" THEN AddressFailed ELSE Return
       \/ /\ call.op = "connect" /\ Open(Me)
          /\ Connected
       \/ /\ call.op = "send" /\ Open(Me) /\ kern[Me.socket].peer # None
          /\ \E k \in IF Me.type = "UDP" THEN {call.length}
                                         ELSE 0..(call.length - call.sent) :
              /\ taken' = [taken EXCEPT ![call.s] = @ + k]
              /\ sock' = IF call.length # 0 /\ k = 0 THEN sock
                         ELSE [sock EXCEPT ![call.s] = Count(k)]
              /\ call' = IF \/ Me.type = "UDP" \/ call.sent + k = call.length
                            \/ call.length # 0 /\ k = 0
                         THEN Idle ELSE [call EXCEPT !.sent = @ + k]
              /\ UNCHANGED kern

(* send_to_net: the walk over the addresses goes on only after ENETUNREACH. *)
SendTo(s, h) ==
    /\ call = Idle /\ s \in Live
    /\ \E n \in Resolve(sock[s], None, h, "ONLY"), len \in 0..(MaxBytes - taken[s]) :
        call' = [Waiting("send_to", s) EXCEPT !.host = h, !.left = n, !.length = len]
    /\ UNCHANGED <<sock, kern, taken>>

SendToNext ==
    /\ call.pc = "next" /\ call.op = "send_to" /\ call.left > 0
    /\ call' = [call EXCEPT !.pc = "sending_to"]
    /\ UNCHANGED <<sock, kern, taken>>

SendToRound ==
    /\ call.pc = "sending_to"
    /\ \/ Return
       \/ call' = NextAddress /\ UNCHANGED <<sock, kern, taken>>
       \/ /\ Open(Me) /\ Me.type = "UDP"
          /\ \E k \in 0..call.length :
              /\ taken' = [taken EXCEPT ![call.s] = @ + k]
              /\ sock' = [sock EXCEPT ![call.s].bytes_sent = @ + k]
          /\ call' = Idle /\ UNCHANGED kern

-----------------------------------------------------------------------------
(* receive_net and receive_from_net: a wait, and the data or an error.  What *)
(* arrives, and bytes_received, which adds it up, are left out.              *)

Receive(s) ==
    /\ call = Idle /\ s \in Live
    /\ call' = [Waiting("receive", s) EXCEPT !.pc = "receiving"]
    /\ UNCHANGED <<sock, kern, taken>>

ReceiveWaitEnds == call.pc = "receiving" /\ Return

-----------------------------------------------------------------------------
(* accept_net                                                              *)

Accept(server, new) ==
    /\ call = Idle /\ {server, new} \subseteq Live
    /\ sock[new].type = sock[server].type
    /\ ~Open(sock[new])
    /\ sock[server].state = "BOUND"
    /\ sock[server].type = "UDP" =>
        /\ sock[server].configuration.reuse_addr /\ sock[new].configuration.reuse_addr
        /\ Open(sock[server])                      \* local_host_net
    /\ call' = [Waiting("accept", new) EXCEPT
                   !.server = server,
                   !.pc = IF sock[server].type = "UDP" THEN "peeking" ELSE "accepting"]
    /\ UNCHANGED <<sock, kern, taken>>

AcceptFails ==
    /\ CloseRaw(call.s)
    /\ call' = Idle /\ UNCHANGED taken

(* accept_tcp: an error, a connection that cannot be configured, or one     *)
(* that is handed to the new socket.                                        *)
AcceptWaitEnds ==
    /\ call.pc = "accepting"
    /\ \/ AcceptFails
       \/ /\ Open(sock[call.server])
          /\ sock' = [sock EXCEPT ![call.s] = [Closed(@) EXCEPT !.state = "CLOSED"]]
          /\ call' = Idle /\ UNCHANGED <<kern, taken>>
       \/ /\ Open(sock[call.server])
          /\ \E d \in FreeFds(kern), h \in Hosts :
              /\ kern' = [kern EXCEPT ![d] =
                     [NewSocket(kern[sock[call.server].socket].family) EXCEPT
                          !.bound = TRUE, !.peer = h]]
              /\ sock' = [sock EXCEPT ![call.s].socket = d, ![call.s].remote = h,
                                      ![call.s].state = "ACCEPTED"]
          /\ call' = Idle /\ UNCHANGED taken

Peeked(h) == SwapFdAndState([sock EXCEPT ![call.s].remote = h], call.server, call.s)

(* peek_internal has room for an IPv4 address only: the length it gets for  *)
(* an IPv6 peer is another one, and the call fails.                         *)
PeekWaitEnds ==
    /\ call.pc = "peeking"
    /\ \/ AcceptFails
       \/ /\ Open(sock[call.server])
          /\ kern[sock[call.server].socket].family = "INET4"
          /\ \E h \in Hosts :
              /\ sock' = Peeked(h)
              /\ \E n \in Resolve(sock'[call.s], call.server, h, "ONLY") :
                  call' = [call EXCEPT !.pc = "next", !.host = h, !.left = n]
          /\ UNCHANGED <<kern, taken>>

(* A signal handler closes a socket while the call waits.                   *)
HandlerCloses(s) ==
    /\ Blocked /\ s \in Live
    /\ CloseRaw(s)
    /\ UNCHANGED <<call, taken>>

-----------------------------------------------------------------------------
Init ==
    /\ sock = [s \in Sockets |-> None]
    /\ kern = [d \in Fds |-> None]
    /\ call = Idle
    /\ taken = [s \in Sockets |-> 0]

Operation(s) ==
    \/ Create(s) \/ Close(s) \/ Cleanup(s) \/ Shutdown(s) \/ Bind(s)
    \/ s \in Senders /\ Send(s)
    \/ Receive(s)
    \/ \E h \in Hosts : Connect(s, h) \/ (s \in Senders /\ SendTo(s, h))
    \/ \E new \in Sockets \ {s} : Accept(s, new)

(* The steps of a call in progress.                                        *)
Step ==
    \/ TryConnect \/ OtherFamily \/ GiveUp \/ ConnectWaitEnds
    \/ SendRound \/ SendToNext \/ SendToRound
    \/ ReceiveWaitEnds \/ AcceptWaitEnds \/ PeekWaitEnds

Next ==
    \/ \E s \in Sockets : Operation(s) \/ HandlerCloses(s)
    \/ Step

Spec == Init /\ [][Next]_vars

(* Every wait has a deadline: NET_CONNECT_TIMEOUT, NET_SEND_TIMEOUT,        *)
(* NET_ACCEPT_TIMEOUT or recv_timeout.  A call therefore always goes on.    *)
FairSpec == Spec /\ WF_vars(Step)

-----------------------------------------------------------------------------
(* Every variable stays in its type: objects, kernel table and the call.    *)
TypeOK ==
    /\ sock \in [Sockets -> NetSocket \cup {None}]
    /\ kern \in [Fds -> KernelSocket \cup {None}]
    /\ call \in Calls \cup {Idle}
    /\ taken \in [Sockets -> 0..MaxBytes]

(* A descriptor the process has open belongs to exactly one socket object,  *)
(* and a socket object names no descriptor that is not open: no path of     *)
(* connect, bind or accept, a failing one or one a handler closes a socket  *)
(* under, leaks a descriptor, shares it, or keeps one that was closed.      *)
DescriptorsOwnedOnce ==
    /\ \A s \in Live : Open(sock[s]) => kern[sock[s].socket] # None
    /\ \A d \in Fds : kern[d] # None =>
        \E s \in Live : /\ sock[s].socket = d
                        /\ \A t \in Live \ {s} : sock[t].socket # d

(* Between calls the state an application reads tells the truth: a          *)
(* CONNECTED or ACCEPTED socket has a descriptor whose peer is the remote   *)
(* host it reports, a BOUND one with a descriptor is bound (and listens if  *)
(* it is TCP), and a socket with a descriptor is never CLOSED.              *)
StateMatchesKernel ==
    call = Idle => \A s \in Live :
        LET x == sock[s] k == kern[x.socket] IN
        /\ x.state \in {"CONNECTED", "ACCEPTED"} =>
            Open(x) /\ k.peer = x.remote /\ x.remote # None
        /\ Open(x) => x.state # "CLOSED"
        /\ Open(x) /\ x.state = "BOUND" => k.bound /\ k.listening = (x.type = "TCP")

(* An accepted socket sits on the address of the server it was accepted     *)
(* from: accept_udp connects the descriptor the server was bound with, and  *)
(* never one made on the way, even when a handler closes it meanwhile.      *)
AcceptedOnServerAddress ==
    \A s \in Live : sock[s].state = "ACCEPTED" /\ Open(sock[s]) => kern[sock[s].socket].bound

(* However accept_net ends once it has touched the server socket, that one  *)
(* is bound and has no peer of its own, or has lost its descriptor; and the *)
(* new socket never keeps a descriptor unless it was accepted.              *)
AcceptLeavesServerListening ==
    [][(call.pc # "none" /\ call.op = "accept" /\ call' = Idle) =>
        LET server == sock'[call.server] new == sock'[call.s] IN
        /\ Open(server) => /\ server.state = "BOUND"
                           /\ kern'[server.socket].bound
                           /\ call.pc # "peeking" => kern'[server.socket].peer = None
        /\ Open(new) => new.state = "ACCEPTED"]_vars

(* bytes_sent never misses a byte the kernel took, failed and partial sends *)
(* included: it is exact for datagrams, and for a stream at least the       *)
(* number sent (a send in several rounds counts the first ones again).      *)
BytesCounted ==
    \A s \in Live :
        /\ sock[s].bytes_sent >= taken[s]
        /\ sock[s].type = "UDP" => sock[s].bytes_sent = taken[s]

(* Every call returns, whatever the network does and whatever a handler     *)
(* closes: the walk over two families of addresses and the rounds of a      *)
(* partial send come to an end.                                             *)
CallsReturn == call # Idle ~> call = Idle

\* Between calls what a socket says of itself is what the kernel has: its
\* state, the address an accepted one is on, and the bytes it counts.
SocketsMatchKernel ==
    /\ TypeOK
    /\ StateMatchesKernel
    /\ AcceptedOnServerAddress
    /\ BytesCounted

=============================================================================
