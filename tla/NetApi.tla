------------------------------- MODULE NetApi ------------------------------
(***************************************************************************)
(* The socket API above the implementations, src/src/net/avs_api.c: socket *)
(* objects that wrap one another (a logging socket around any other, a TLS *)
(* socket around its backend), calls dispatched through their tables of    *)
(* operations, the array of TLSA records, and the global state of          *)
(* src/src/net/avs_net_global.c that the first socket sets up.             *)
(***************************************************************************)
EXTENDS AvsBuffer

CONSTANTS Handles,        \* the application's avs_net_socket_t * variables
          MaxObjects,
          TlsaArrays      \* sequences of association data

VARIABLES objects,        \* every socket object; kind "free" when released
          handle,         \* what the application's variables point to
          debug,          \* _avs_net_socket_debug
          global,         \* the global state, and its init-once handle
          netCall

netVars == <<objects, handle, debug, global, netCall>>

NOOBJECT == 0
Freed == [kind |-> "free", inner |-> NOOBJECT]

NetOps == {"connect", "decorate", "send", "send_to", "receive", "receive_from",
           "bind", "accept", "close", "shutdown", "get_system_socket",
           "get_interface_name", "get_remote_host", "get_remote_hostname",
           "get_remote_port", "get_local_host", "get_local_port", "get_opt", "set_opt"}

\* net_vtable, ssl_vtable, debug_vtable
Operations(kind) ==
    CASE kind = "net" -> NetOps \ {"decorate"}
      [] kind = "ssl" -> NetOps \ {"accept", "send_to", "receive_from"}
      [] kind = "debug" -> NetOps

NetResult(objs, o, err) == [objs |-> objs, o |-> o, err |-> err]

------------------------------------------------------------------------------
(* Creating and releasing                                                   *)

\* avs_net_socket_cleanup(): each socket cleans up the one it wraps first.
RECURSIVE CleanupObject(_, _)
CleanupObject(objs, o) ==
    IF o = NOOBJECT THEN objs
    ELSE [CleanupObject(objs, objs[o].inner) EXCEPT ![o] = Freed]

Available(objs) == {o \in DOMAIN objs : objs[o].kind = "free"}

\* memory: how many more allocations succeed.
Allocate(objs, kind, inner, memory) ==
    LET o == CHOOSE i \in Available(objs) : \A j \in Available(objs) : i <= j
    IN  IF memory = 0 \/ Available(objs) = {}
        THEN NetResult(objs, NOOBJECT, "enomem")
        ELSE NetResult([objs EXCEPT ![o] = [kind |-> kind, inner |-> inner]], o, "ok")

\* A socket that cannot be wrapped is given up.
InitDebugSocketIfApplicableLeaking(r, debugging, memory) ==
    IF r.err # "ok" \/ ~debugging THEN r
    ELSE Allocate(r.objs, "debug", r.o, memory)

InitDebugSocketIfApplicable(r, debugging, memory) ==
    LET wrapped == Allocate(r.objs, "debug", r.o, memory)
    IN  IF r.err # "ok" \/ ~debugging THEN r
        ELSE IF wrapped.err # "ok"
        THEN NetResult(CleanupObject(r.objs, r.o), NOOBJECT, wrapped.err)
        ELSE wrapped

\* create_bare_socket() and what the public constructors add: what *socket
\* pointed to is cleaned up once the global state is known to be there.
SocketCreate(objs, old, kind, globalErr, debugging, memory) ==
    IF globalErr # "ok" THEN NetResult(objs, old, globalErr)
    ELSE InitDebugSocketIfApplicable(
             Allocate(CleanupObject(objs, old), kind, NOOBJECT, memory),
             debugging, memory - 1)

------------------------------------------------------------------------------
(* Calls                                                                    *)

\* Which object carries out the operation; the logging sockets pass it on.
RECURSIVE Dispatch(_, _, _)
Dispatch(objs, o, op) ==
    IF op \notin Operations(objs[o].kind) THEN NOOBJECT
    ELSE IF objs[o].kind = "debug" THEN Dispatch(objs, objs[o].inner, op)
    ELSE o

\* A TLS socket takes the backend over, or refuses it and forgets it again.
DecorateObject(objs, o, backend, works) ==
    LET target == Dispatch(objs, o, "decorate")
        rid == CleanupObject(objs, objs[target].inner)
        Holding_(b) == [rid EXCEPT ![target] = [objs[target] EXCEPT !.inner = b]]
    IN  IF target = NOOBJECT THEN NetResult(objs, o, "enotsup")
        ELSE IF works THEN NetResult(Holding_(backend), o, "ok")
        ELSE NetResult(Holding_(NOOBJECT), o, "refused")

DecorateSocketInPlace(objs, old, globalErr, debugging, memory, works) ==
    LET new == SocketCreate(objs, NOOBJECT, "ssl", globalErr, debugging, memory)
        d == DecorateObject(new.objs, new.o, old, works)
    IN  IF new.err # "ok" THEN NetResult(new.objs, old, new.err)
        ELSE IF d.err # "ok" THEN NetResult(CleanupObject(d.objs, new.o), old, d.err)
        ELSE NetResult(d.objs, new.o, "ok")

\* accept_debug() takes both sockets for logging sockets; accept_net() checks.
RECURSIVE AcceptObject(_, _, _)
AcceptObject(objs, server, client) ==
    IF "accept" \notin Operations(objs[server].kind) THEN "enotsup"
    ELSE IF objs[server].kind = "debug"
    THEN IF objs[client].kind # "debug" THEN "crash"
         ELSE AcceptObject(objs, objs[server].inner, objs[client].inner)
    ELSE IF objs[client].kind = "net" THEN "ok" ELSE "einval"

------------------------------------------------------------------------------
(* Global state                                                             *)

NoGlobal == [crypto |-> FALSE, compat |-> FALSE, ssl |-> FALSE, handle |-> FALSE]

\* _avs_net_ensure_global_state() with initialize_global() run by
\* avs_init_once(); `works` are the parts whose initialisation succeeds.
EnsureGlobalState(g, works) ==
    LET c == [g EXCEPT !.crypto = TRUE]
    IN  IF "crypto" \notin works /\ ~g.crypto THEN [g |-> g, err |-> "crypto"]
        ELSE IF g.handle THEN [g |-> g, err |-> "ok"]
        ELSE IF "compat" \notin works THEN [g |-> c, err |-> "compat"]
        ELSE IF "ssl" \notin works THEN [g |-> c, err |-> "ssl"]
        ELSE [g |-> [c EXCEPT !.compat = TRUE, !.ssl = TRUE, !.handle = TRUE],
              err |-> "ok"]

CleanupGlobalState(g) ==
    [g EXCEPT !.compat = FALSE, !.ssl = FALSE, !.handle = FALSE]

------------------------------------------------------------------------------
(* TLSA records                                                             *)

SumOfSizes[array \in Seq(Seq(Nat))] ==
    IF array = <<>> THEN 0 ELSE Len(Head(array)) + SumOfSizes[Tail(array)]

\* One block holds the records and, behind them, their data; each record is
\* <<offset, size>>, offset -1 when the caller's pointer was left in place.
TlsaArrayCopy(array) ==
    [i \in DOMAIN array |->
        <<IF array[i] = <<>> THEN -1 ELSE SumOfSizes[SubSeq(array, 1, i - 1)],
          Len(array[i])>>]

------------------------------------------------------------------------------
(* An application                                                           *)

NetInit ==
    /\ objects = [o \in 1 .. MaxObjects |-> Freed]
    /\ handle = [h \in Handles |-> NOOBJECT]
    /\ debug = FALSE /\ global = NoGlobal
    /\ netCall = [op |-> "none"]

SomeWorking == {{"crypto", "compat", "ssl"}, {"crypto", "compat"}, {"crypto"}, {}}

NetReturns(h, r, op) ==
    /\ objects' = r.objs
    /\ handle' = [handle EXCEPT ![h] = r.o]
    /\ netCall' = [op |-> op, err |-> r.err, h |-> h, old |-> handle[h]]

NetCreate(h, kind, works, memory) ==
    LET g == EnsureGlobalState(global, works)
    IN  /\ global' = g.g
        /\ NetReturns(h, SocketCreate(objects, handle[h], kind, g.err, debug, memory), "create")
        /\ UNCHANGED debug

NetDecorateInPlace(h, works, memory, accepted) ==
    LET g == EnsureGlobalState(global, works)
    IN  /\ handle[h] # NOOBJECT
        /\ global' = g.g
        /\ NetReturns(h, DecorateSocketInPlace(objects, handle[h], g.err, debug, memory,
                                            accepted), "decorate_in_place")
        /\ UNCHANGED debug

NetCleanup(h) ==
    /\ NetReturns(h, NetResult(CleanupObject(objects, handle[h]), NOOBJECT, "ok"), "cleanup")
    /\ UNCHANGED <<debug, global>>

NetSocketDebug(value) ==
    /\ debug' = value /\ netCall' = [op |-> "none"]
    /\ UNCHANGED <<objects, handle, global>>

\* avs_cleanup_global_state(): no socket may be left.
NetCleanupGlobal ==
    /\ \A h \in Handles : handle[h] = NOOBJECT
    /\ global' = CleanupGlobalState(global) /\ netCall' = [op |-> "none"]
    /\ UNCHANGED <<objects, handle, debug>>

NetAccept(server, client) ==
    /\ server # client /\ handle[server] # NOOBJECT /\ handle[client] # NOOBJECT
    /\ netCall' = [op |-> "accept",
                   err |-> AcceptObject(objects, handle[server], handle[client])]
    /\ UNCHANGED <<objects, handle, debug, global>>

NetCopyTlsa(array) ==
    /\ global = NoGlobal
    /\ netCall' = [op |-> "tlsa", array |-> array, copy |-> TlsaArrayCopy(array)]
    /\ UNCHANGED <<objects, handle, debug, global>>

NetNext ==
    \/ \E h \in Handles, kind \in {"net", "ssl"}, works \in SomeWorking, memory \in 0 .. 2 :
           NetCreate(h, kind, works, memory)
    \/ \E h \in Handles, works \in SomeWorking, memory \in 0 .. 2, accepted \in BOOLEAN :
           NetDecorateInPlace(h, works, memory, accepted)
    \/ \E h \in Handles : NetCleanup(h)
    \/ \E value \in BOOLEAN : NetSocketDebug(value)
    \/ NetCleanupGlobal
    \/ \E server, client \in Handles : NetAccept(server, client)
    \/ \E array \in TlsaArrays : NetCopyTlsa(array)

------------------------------------------------------------------------------
(* Properties                                                               *)

\* Every socket object is owned exactly once, by a variable of the application
\* or by the object that wraps it, and nothing points to a released one: also
\* after a creation, a decoration or a wrapping that failed half way.
SocketsHaveOneOwner ==
    \A o \in DOMAIN objects :
        LET owners == {h \in Handles : handle[h] = o}
            wrappers == {w \in DOMAIN objects : objects[w].inner = o}
        IN  IF objects[o].kind = "free" THEN owners = {} /\ wrappers = {}
            ELSE \/ wrappers = {} /\ \E h \in owners : owners = {h}
                 \/ owners = {} /\ \E w \in wrappers : wrappers = {w}

\* avs_net_*_socket_decorate_in_place(): on failure the socket is untouched.
FailedDecorationKeeps ==
    netCall.op = "decorate_in_place" /\ netCall.err # "ok" =>
        /\ handle[netCall.h] = netCall.old
        /\ objects[netCall.old].kind # "free"

\* Logging changes nothing: through any number of logging sockets an operation
\* reaches the same socket, and is refused exactly if that one refuses it.
LoggingIsTransparent ==
    \A h \in Handles, op \in NetOps :
        LET RECURSIVE Bare(_)
            Bare(o) == IF objects[o].kind = "debug" THEN Bare(objects[o].inner) ELSE o
        IN  handle[h] # NOOBJECT =>
                Dispatch(objects, handle[h], op) =
                    IF op \in Operations(objects[Bare(handle[h])].kind)
                    THEN Bare(handle[h]) ELSE NOOBJECT

\* The global state is set up completely or not at all, and sockets exist only
\* while it is (initialize_global, create_bare_socket).
GlobalStateAllOrNothing ==
    /\ global.compat = global.handle /\ global.ssl = global.handle
    /\ (\E o \in DOMAIN objects : objects[o].kind # "free") => global.handle

\* The copied data lies behind the records, in their order, without overlap or
\* gap, and ends where the block ends (avs_net_socket_dane_tlsa_array_copy).
TlsaCopyIsPacked ==
    netCall.op = "tlsa" =>
        LET copy == netCall.copy
            total == SumOfSizes[netCall.array]
            Covers(i, byte) == copy[i][1] >= 0 /\ copy[i][1] <= byte
                               /\ byte < copy[i][1] + copy[i][2]
        IN  /\ \A byte \in 0 .. total - 1 : \E i \in DOMAIN copy :
                   /\ Covers(i, byte)
                   /\ \A j \in DOMAIN copy : Covers(j, byte) => i = j
            /\ \A i \in DOMAIN copy : copy[i][1] + copy[i][2] <= total

\* Sockets made, wrapped and decorated through the socket API have one owner
\* each and work the same through every wrapper, whatever failed half way.
SocketApiCorrect ==
    /\ SocketsHaveOneOwner
    /\ FailedDecorationKeeps
    /\ LoggingIsTransparent
    /\ GlobalStateAllOrNothing
    /\ TlsaCopyIsPacked

==============================================================================
