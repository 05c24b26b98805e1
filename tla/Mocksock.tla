------------------------------ MODULE Mocksock -----------------------------
(***************************************************************************)
(* The scripted socket of the unit test library,                           *)
(* src/src/unit/avs_mocksock.c: a test queues the commands and the traffic *)
(* it expects, the code under test makes them happen in that order, and a  *)
(* failed assertion ends the test.                                         *)
(***************************************************************************)
EXTENDS AvsBuffer

CONSTANTS MkCommands,   \* the commands a test may expect
          MkItems,      \* the traffic a test may expect
          MkSizes, MaxScript, MaxCommands

VARIABLES mk,         \* the socket
          mkNew,      \* the state of the socket mock_accept() fills in
          planned, traffic,      \* ghosts: traffic expected so far, and seen
          ordered, performed     \* ghosts: commands expected so far, and done

mkVars == <<mk, mkNew, planned, traffic, ordered, performed>>

NOARG == "none"

\* Entries of the script: a command; or bytes in one direction, or a failure.
\* `more`: it has an and_then callback, which queues one further byte of input.
Command(kind, arg, more) == [kind |-> kind, arg |-> arg, err |-> "ok", more |-> more]
Item(way, bytes, err, more) ==
    [way |-> way, bytes |-> bytes, err |-> err, ptr |-> 0, more |-> more]
FurtherItem == Item("in", <<7>>, "ok", FALSE)

Mock(type) ==
    [type |-> type, state |-> "closed", commands |-> <<>>, data |-> <<>>,
     enabled |-> {}, timeout |-> 0, failed |-> FALSE,
     gone |-> FALSE, called |-> 0]

MkResult(m, err, out) == [m |-> m, err |-> err, out |-> out]
\* The test is left by a jump; nothing looks at its socket again.
AssertionFails(m) == MkResult([Mock(m.type) EXCEPT !.failed = TRUE], "assert", <<>>)

------------------------------------------------------------------------------
(* Commands                                                                *)

AssertCommandExpected(m, kind) == m.commands # <<>> /\ Head(m.commands).kind = kind

\* The callback runs before its entry is removed; m.called counts them.
AndThen(m, entry) ==
    IF entry.more
    THEN [m EXCEPT !.data = Append(m.data, FurtherItem), !.called = @ + 1] ELSE m

FinishCommand(m) ==
    [AndThen(m, Head(m.commands)) EXCEPT !.commands = Tail(m.commands)]

\* What all the handlers have in common: the next expected command is this
\* one, with this argument, it is consumed and gives the result.
ExpectedResult(m, kind, arg, allowed) ==
    IF ~AssertCommandExpected(m, kind) \/ ~allowed \/ Head(m.commands).arg # arg
    THEN AssertionFails(m)
    ELSE MkResult(FinishCommand(m), Head(m.commands).err, <<>>)

Entering(r, state) ==
    IF r.err = "ok" THEN [r EXCEPT !.m.state = state] ELSE r

MockConnect(m, arg) ==
    Entering(ExpectedResult(m, "connect", arg, m.state \in {"closed", "bound"}),
             "connected")

MockBind(m, arg) ==
    Entering(ExpectedResult(m, "bind", arg, m.state = "closed"), "bound")

MockAccept(m, new) ==
    ExpectedResult(m, "accept", NOARG, m.state = "bound" /\ new = "closed")

\* The getters: of an address when it is enabled without any command.
MockGetter(m, kind) ==
    IF kind \in m.enabled THEN MkResult(m, "ok", <<>>)
    ELSE IF ~AssertCommandExpected(m, kind) THEN AssertionFails(m)
    ELSE MkResult(FinishCommand(m), Head(m.commands).err, <<>>)

MockGetOpt(m, key) ==
    IF key \in m.enabled THEN MkResult(m, "ok", <<>>)
    ELSE ExpectedResult(m, "get_opt", key, TRUE)

MockSetOpt(m, key, value) ==
    IF key = "recv_timeout" /\ key \in m.enabled
    THEN MkResult([m EXCEPT !.timeout = value], "ok", <<>>)
    ELSE ExpectedResult(m, "set_opt", key, TRUE)

------------------------------------------------------------------------------
(* Traffic                                                                 *)

NewExpectedData(m, item) == [m EXCEPT !.data = Append(m.data, item)]

FinishData(m) ==
    LET called == AndThen(m, Head(m.data)) IN [called EXCEPT !.data = Tail(called.data)]

Open(m) == m.state \in {"bound", "accepted", "connected"}

RECURSIVE MockSendTo(_, _)
MockSendTo(m, bytes) ==
    LET item == Head(m.data)
        n == AVS_MIN(Len(bytes), Len(item.bytes) - item.ptr)
        sent == [m EXCEPT !.data[1].ptr = item.ptr + n]
        after == IF item.ptr + n = Len(item.bytes) THEN FinishData(sent) ELSE sent
    IN  IF ~Open(m) THEN AssertionFails(m)
        ELSE IF bytes = <<>> THEN MkResult(m, "ok", <<>>)
        ELSE IF m.data = <<>> \/ item.way = "in" THEN AssertionFails(m)
        ELSE IF item.err # "ok" THEN MkResult(FinishData(m), item.err, <<>>)
        ELSE IF Take(bytes, n) # Take(Drop(item.bytes, item.ptr), n)
        THEN AssertionFails(m)
        ELSE LET rest == MockSendTo(after, Drop(bytes, n))
             IN  [rest EXCEPT !.out = Take(bytes, n) \o rest.out]

\* What is left of a datagram that does not fit is dropped; a stream keeps it.
MockReceiveFromKeeping(m, len) ==
    LET item == Head(m.data)
        n == AVS_MIN(len, Len(item.bytes) - item.ptr)
        read == [m EXCEPT !.data[1].ptr = item.ptr + n]
        out == Take(Drop(item.bytes, item.ptr), n)
    IN  IF ~Open(m) THEN AssertionFails(m)
        ELSE IF m.data = <<>> \/ item.way = "out" THEN MkResult(m, "ok", <<>>)
        ELSE IF item.err # "ok" THEN MkResult(FinishData(m), item.err, <<>>)
        ELSE IF item.ptr + n = Len(item.bytes)
        THEN MkResult(FinishData(read), "ok", out)
        ELSE MkResult(read, IF m.type = "datagram" THEN "emsgsize" ELSE "ok", out)

MockReceiveFrom(m, len) ==
    LET item == Head(m.data)
        n == AVS_MIN(len, Len(item.bytes) - item.ptr)
        read == [m EXCEPT !.data[1].ptr = item.ptr + n]
        out == Take(Drop(item.bytes, item.ptr), n)
    IN  IF ~Open(m) THEN AssertionFails(m)
        ELSE IF m.data = <<>> \/ item.way = "out" THEN MkResult(m, "ok", <<>>)
        ELSE IF item.err # "ok" THEN MkResult(FinishData(m), item.err, <<>>)
        ELSE IF item.ptr + n = Len(item.bytes)
        THEN MkResult(FinishData(read), "ok", out)
        ELSE IF m.type = "datagram" THEN MkResult(FinishData(read), "emsgsize", out)
        ELSE MkResult(read, "ok", out)

------------------------------------------------------------------------------
(* The end                                                                 *)

MockClose(m) ==
    IF m.commands = <<>>
    THEN IF m.data # <<>> THEN AssertionFails(m)
         ELSE MkResult([m EXCEPT !.state = "closed"], "ok", <<>>)
    ELSE IF ~AssertCommandExpected(m, "mid_close")
            \/ (m.data # <<>> /\ Head(m.data).ptr # 0)
    THEN AssertionFails(m)
    ELSE MkResult([FinishCommand(m) EXCEPT !.state = "closed"],
                  Head(m.commands).err, <<>>)

MockCleanup(m) ==
    LET r == MockClose(m)
    IN  IF r.err = "assert" THEN r ELSE [r EXCEPT !.m.gone = TRUE]

MockShutdown(m) ==
    LET r == ExpectedResult(m, "shutdown", NOARG, TRUE)
    IN  IF r.err = "assert" THEN r
        ELSE [r EXCEPT !.m.data = <<>>, !.m.state = "shutdown"]

------------------------------------------------------------------------------
(***************************************************************************)
(* A test and the code it tests, sharing one mock socket: the test queues  *)
(* expectations in any order, at any time; the tested code makes any call. *)
(***************************************************************************)

\* What an entry of the script promises, byte by byte; a failure is one event.
Events(way, bytes) == [i \in 1 .. Len(bytes) |-> <<way, bytes[i]>>]
Failure(way) == << <<way, -1>> >>
ItemEvents(item) ==
    IF item.err # "ok" THEN Failure(item.way)
    ELSE Events(item.way, Drop(item.bytes, item.ptr))

RECURSIVE ScriptEvents(_)
ScriptEvents(data) ==
    IF data = <<>> THEN <<>> ELSE ItemEvents(Head(data)) \o ScriptEvents(Tail(data))

Usable == ~mk.failed /\ ~mk.gone

MkInit ==
    /\ mk \in {Mock("stream"), Mock("datagram")}
    /\ mkNew = "closed"
    /\ planned = <<>> /\ traffic = <<>> /\ ordered = <<>> /\ performed = <<>>

------------------------------------------------------------------------------
(* The test                                                                *)

ExpectData(item) ==
    /\ Usable /\ Len(planned) + Len(ItemEvents(item)) <= MaxScript
    /\ Len(mk.data) < 2
    /\ mk' = NewExpectedData(mk, item)
    /\ planned' = planned \o ItemEvents(item)
    /\ UNCHANGED <<mkNew, traffic, ordered, performed>>

ExpectCommand(command) ==
    /\ Usable /\ Len(ordered) < MaxCommands
    /\ mk' = [mk EXCEPT !.commands = Append(mk.commands, command)]
    /\ ordered' = Append(ordered, command)
    /\ UNCHANGED <<mkNew, planned, traffic, performed>>

\* avs_unit_mocksock_fail_command(): the command queued last will fail.
FailCommand ==
    /\ Usable /\ mk.commands # <<>>
    /\ mk' = [mk EXCEPT !.commands[Len(mk.commands)].err = "fail"]
    /\ ordered' = [ordered EXCEPT ![Len(ordered)].err = "fail"]
    /\ UNCHANGED <<mkNew, planned, traffic, performed>>

\* A test enables what needs no script first.
EnableOption(key) ==
    /\ Usable /\ mk = Mock(mk.type) /\ ordered = <<>> /\ planned = <<>>
    /\ mk' = [mk EXCEPT !.enabled = mk.enabled \cup {key},
                        !.timeout = IF key = "recv_timeout" THEN 1 ELSE @]
    /\ UNCHANGED <<mkNew, planned, traffic, ordered, performed>>

------------------------------------------------------------------------------
(* The tested code                                                         *)

\* The call returns r; `seen` is the traffic it caused.  What an and_then
\* callback of the call queued joins the script, and a failed assertion ends
\* the test.
Calls(r, seen) ==
    LET consumed == Take(mk.commands, Len(mk.commands) - Len(r.m.commands))
        queued == IF r.m.called > mk.called THEN ItemEvents(FurtherItem) ELSE <<>>
    IN  /\ Usable /\ mk' = r.m
        /\ IF r.m.failed
           THEN /\ planned' = <<>> /\ traffic' = <<>>
                /\ ordered' = <<>> /\ performed' = <<>>
           ELSE /\ planned' = planned \o queued
                /\ traffic' = traffic \o seen
                /\ performed' = performed \o consumed
                /\ UNCHANGED ordered

CallsCommand(r) == Calls(r, <<>>) /\ UNCHANGED mkNew

CallsAccept ==
    LET r == MockAccept(mk, mkNew)
    IN  /\ Calls(r, <<>>)
        /\ mkNew' = IF r.err = "ok" THEN "accepted" ELSE mkNew

CallsSend(bytes) ==
    LET r == MockSendTo(mk, bytes)
    IN  /\ Calls(r, Events("out", r.out)
                    \o (IF r.err = "fail" THEN Failure("out") ELSE <<>>))
        /\ UNCHANGED mkNew

\* The rest of a datagram that was cut is traffic the code will never see.
CallsReceive(len) ==
    LET r == MockReceiveFrom(mk, len)
        item == Head(mk.data)
        dropped == IF r.err = "emsgsize"
                   THEN Events("in", Drop(item.bytes, item.ptr + Len(r.out)))
                   ELSE <<>>
    IN  /\ Calls(r, Events("in", r.out) \o dropped
                    \o (IF r.err = "fail" THEN Failure("in") ELSE <<>>))
        /\ UNCHANGED mkNew

\* A shutdown gives up the traffic that was still expected, and with it what
\* its own callback has just queued.
CallsShutdown ==
    LET r == MockShutdown(mk)
        expected == AndThen(mk, Head(mk.commands)).data
    IN  Calls(r, IF r.m.failed THEN <<>> ELSE ScriptEvents(expected)) /\ UNCHANGED mkNew

\* The next test, with a socket of its own.
NextTest ==
    /\ ~Usable
    /\ mk' = Mock(mk.type) /\ mkNew' = "closed"
    /\ planned' = <<>> /\ traffic' = <<>> /\ ordered' = <<>> /\ performed' = <<>>

MkNext ==
    \/ \E item \in MkItems : ExpectData(item)
    \/ \E command \in MkCommands : ExpectCommand(command)
    \/ FailCommand
    \/ \E key \in {"recv_timeout", "remote_host"} : EnableOption(key)
    \/ \E arg \in {"here", "there"} : CallsCommand(MockConnect(mk, arg))
    \/ \E arg \in {"here", "there"} : CallsCommand(MockBind(mk, arg))
    \/ CallsAccept
    \/ \E kind \in {"remote_host", "local_port"} : CallsCommand(MockGetter(mk, kind))
    \/ \E key \in {"recv_timeout", "mtu"} : CallsCommand(MockGetOpt(mk, key))
    \/ \E key \in {"recv_timeout", "mtu"} : CallsCommand(MockSetOpt(mk, key, 2))
    \/ \E bytes \in {<<>>, <<1>>, <<1, 2>>} : CallsSend(bytes)
    \/ \E len \in MkSizes : CallsReceive(len)
    \/ CallsShutdown
    \/ CallsCommand(MockClose(mk))
    \/ CallsCommand(MockCleanup(mk))
    \/ NextTest

------------------------------------------------------------------------------
(* Properties                                                              *)

\* As long as no assertion failed, the tested code has seen and sent exactly
\* the traffic the test scripted, in its order, up to what the script still
\* holds: nothing is delivered twice, skipped or reordered, also when callbacks
\* extend the script while it runs (mock_send_to, mock_receive_from).
MkTrafficAsScripted ==
    ~mk.failed => traffic \o ScriptEvents(mk.data) = planned

\* The commands happened in the order they were expected, each once.
MkCommandsAsScripted ==
    ~mk.failed => performed \o mk.commands = ordered

\* A test that ends with the socket cleaned up and no failed assertion has
\* seen everything it expected, unless it expected to close early (mock_close).
MkCleanupAccountsForAll ==
    mk.gone /\ ~mk.failed =>
        \/ traffic = planned /\ performed = ordered
        \/ performed # <<>> /\ performed[Len(performed)].kind = "mid_close"

\* A test over a mock socket that passes has had the traffic and the calls
\* that it expected.
MocksockCorrect ==
    /\ MkTrafficAsScripted
    /\ MkCommandsAsScripted
    /\ MkCleanupAccountsForAll

==============================================================================
