------------------------------ MODULE AvsUnit ------------------------------
(***************************************************************************)
(* The test runner of src/src/unit: main() of avs_unit_test.c, which runs  *)
(* the registered suites and leaves a failed test by longjmp(), the mock   *)
(* functions of avs_mock.c, and the bounded stream of avs_memstream.c that *)
(* tests use.                                                              *)
(***************************************************************************)
EXTENDS AvsBuffer

CONSTANTS UnitSuites,     \* sequence of [name, tests], in the order registered
          UnitMocks, UnitArgs, MaxInvocations,
          MemSize, MemBytes, MaxMem

VARIABLES runner,     \* where main() is
          mocks,      \* the entry of each mock function in ALL_MOCKS
          ran,        \* ghost: the tests that ran, with their results
          invoked,    \* ghost: what the running test did with each mock
          memstream, memWritten, memCall

unitVars == <<runner, mocks, ran, invoked, memstream, memWritten, memCall>>

NONE == "none"

------------------------------------------------------------------------------
(* Registration and the command line                                        *)

RECURSIVE FindFrom_(_, _, _)
FindFrom_(suites, name, i) ==
    IF i > Len(suites) THEN 0
    ELSE IF suites[i].name = name THEN i ELSE FindFrom_(suites, name, i + 1)
FindTestSuite(suites, name) == FindFrom_(suites, name, 1)

FindOrAddTestSuite(suites, name) ==
    IF FindTestSuite(suites, name) # 0 THEN suites
    ELSE Append(suites, [name |-> name, tests |-> <<>>])

\* A test joins the first suite of its name, wherever in the program its
\* constructor runs.
AddTest(suites, name, test) ==
    LET found == FindOrAddTestSuite(suites, name)
    IN  [found EXCEPT ![FindTestSuite(found, name)].tests = Append(@, test)]

\* The tests of the program, as <<suite, test>> in the order their
\* constructors run.
RECURSIVE Registered(_, _)
Registered(suites, tests) ==
    IF tests = <<>> THEN suites
    ELSE Registered(AddTest(suites, tests[1][1], tests[1][2]), Tail(tests))
TestSuites == Registered(<<>>, UnitSuites)

\* Options may stand anywhere; -h and -l end the program before any test.
RECURSIVE ParseCommandLineArgs(_, _)
ParseCommandLineArgs(args, selected) ==
    IF args = <<>> THEN selected
    ELSE LET a == Head(args)
         IN  IF a \in {"-h", "-l"} THEN [selected EXCEPT !.run = FALSE]
             ELSE ParseCommandLineArgs(Tail(args),
                      IF a = "-v" THEN selected
                      ELSE IF selected.suite = NONE THEN [selected EXCEPT !.suite = a]
                      ELSE IF selected.test = NONE THEN [selected EXCEPT !.test = a]
                      ELSE selected)

Selected(args) ==
    ParseCommandLineArgs(args, [run |-> TRUE, suite |-> NONE, test |-> NONE])

------------------------------------------------------------------------------
(* Mock functions                                                           *)

NoMock == [func |-> FALSE, invocations |-> 0]

Untouched == [m \in UnitMocks |-> NoMock]

\* Every mock function is the original one again.
MockResetAll == [m \in UnitMocks |-> NoMock]

MockInvoke(m) == [mocks EXCEPT ![m].invocations = @ + 1]

------------------------------------------------------------------------------
(* main()                                                                   *)

Starting(args) ==
    [phase |-> IF Selected(args).run THEN "suite" ELSE "done",
     selected |-> Selected(args), suite |-> 1, test |-> 0, passed |-> 0,
     result |-> 0, jmp |-> FALSE]

UnitInit ==
    /\ \E args \in UnitArgs : runner = Starting(args)
    /\ mocks = Untouched
    /\ ran = <<>> /\ invoked = Untouched
    /\ memstream = [buffer |-> <<>>, read |-> 0] /\ memWritten = <<>>
    /\ memCall = [op |-> "none"]

memVars == <<memstream, memWritten, memCall>>
RunnerAt(phase) == runner.phase = phase
CurrentSuite == TestSuites[runner.suite]
Skips(wanted, name) == wanted # NONE /\ wanted # name

NextSuite ==
    /\ RunnerAt("suite")
    /\ runner' = IF runner.suite > Len(TestSuites) THEN [runner EXCEPT !.phase = "done"]
                 ELSE IF Skips(runner.selected.suite, CurrentSuite.name)
                 THEN [runner EXCEPT !.suite = @ + 1]
                 ELSE [runner EXCEPT !.phase = "init", !.test = 0, !.passed = 0]
    /\ UNCHANGED <<mocks, ran, invoked, memVars>>

\* The init functions of the suite, which may install mocks and call them.  An
\* assertion that fails in one jumps into a test that is over, or nowhere.
SuiteInit(ok, used) ==
    /\ RunnerAt("init")
    /\ runner' = [runner EXCEPT !.phase = IF ok THEN "next" ELSE "crash"]
    /\ mocks' = [m \in UnitMocks |->
                   IF m \in used THEN [func |-> TRUE, invocations |-> mocks[m].invocations + 1]
                   ELSE mocks[m]]
    /\ UNCHANGED <<ran, invoked, memVars>>

NextUnitTest ==
    LET i == runner.test + 1
    IN  /\ RunnerAt("next")
        /\ IF i > Len(CurrentSuite.tests)
           THEN /\ runner' = [runner EXCEPT !.phase = "suite", !.suite = @ + 1]
                /\ UNCHANGED <<mocks, invoked>>
           ELSE /\ mocks' = MockResetAll
                /\ invoked' = Untouched
                /\ runner' = IF Skips(runner.selected.test, CurrentSuite.tests[i])
                             THEN [runner EXCEPT !.test = i]
                             ELSE [runner EXCEPT !.test = i, !.phase = "test",
                                                 !.jmp = TRUE]
        /\ UNCHANGED <<ran, memVars>>

RanAs(ok) == Append(ran, <<CurrentSuite.name, CurrentSuite.tests[runner.test], ok>>)

TestReturns ==
    /\ RunnerAt("test")
    /\ runner' = [runner EXCEPT !.phase = "next", !.passed = @ + 1]
    /\ ran' = RanAs(TRUE)
    /\ UNCHANGED <<mocks, invoked, memVars>>

\* _avs_unit_assert_fail(): longjmp() to the setjmp() of this test.
AssertFailForgotten ==
    /\ RunnerAt("test")
    /\ runner' = [runner EXCEPT !.phase = "next", !.result = 0]
    /\ ran' = RanAs(FALSE)
    /\ UNCHANGED <<mocks, invoked, memVars>>

AssertFail ==
    /\ RunnerAt("test")
    /\ runner' = [runner EXCEPT !.phase = "next", !.result = 1]
    /\ ran' = RanAs(FALSE)
    /\ UNCHANGED <<mocks, invoked, memVars>>

CallsMock(m) ==
    /\ RunnerAt("test") /\ invoked[m].invocations < MaxInvocations
    /\ mocks' = MockInvoke(m)
    /\ invoked' = [invoked EXCEPT ![m].invocations = @ + 1]
    /\ UNCHANGED <<runner, ran, memVars>>

InstallsMock(m) ==
    /\ RunnerAt("test")
    /\ mocks' = [mocks EXCEPT ![m].func = TRUE]
    /\ invoked' = [invoked EXCEPT ![m].func = TRUE]
    /\ UNCHANGED <<runner, ran, memVars>>

------------------------------------------------------------------------------
(* The memstream of a test                                                  *)

\* Data is moved to the front of the buffer when it would not fit, and what
\* does not fit even then is not written.
MemstreamWriteSome(s, bytes) ==
    LET full == Len(s.buffer) + Len(bytes) > MemSize
        moved == IF full THEN [buffer |-> Drop(s.buffer, s.read), read |-> 0] ELSE s
        n == IF full /\ Len(moved.buffer) + Len(bytes) > MemSize
             THEN MemSize - Len(moved.buffer) ELSE Len(bytes)
    IN  [s |-> [moved EXCEPT !.buffer = @ \o Take(bytes, n)], written |-> n]

MemstreamRead(s, len) ==
    LET left == Len(s.buffer) - s.read
        n == IF left <= len THEN left ELSE len
    IN  [s |-> [s EXCEPT !.read = @ + n], finished |-> left <= len,
         out |-> Take(Drop(s.buffer, s.read), n)]

MemWrite(bytes) ==
    LET r == MemstreamWriteSome(memstream, bytes)
    IN  /\ RunnerAt("test") /\ Len(memWritten) < MaxMem
        /\ memstream' = r.s
        /\ memWritten' = memWritten \o Take(bytes, r.written)
        /\ memCall' = [op |-> "write"]
        /\ UNCHANGED <<runner, mocks, ran, invoked>>

\* The ghost keeps what is yet to be read.
MemRead(len) ==
    LET r == MemstreamRead(memstream, len)
    IN  /\ RunnerAt("test")
        /\ memstream' = r.s
        /\ memWritten' = Drop(memWritten, Len(r.out))
        /\ memCall' = [op |-> "read", out |-> r.out, finished |-> r.finished,
                       before |-> memWritten]
        /\ UNCHANGED <<runner, mocks, ran, invoked>>

------------------------------------------------------------------------------

\* The program is run again.
RunAgain(args) ==
    /\ runner.phase \in {"done", "crash"}
    /\ runner' = Starting(args) /\ mocks' = Untouched
    /\ ran' = <<>> /\ invoked' = Untouched
    /\ memstream' = [buffer |-> <<>>, read |-> 0] /\ memWritten' = <<>>
    /\ memCall' = [op |-> "none"]

UnitNext ==
    \/ NextSuite
    \/ \E ok \in BOOLEAN, used \in SUBSET UnitMocks : SuiteInit(ok, used)
    \/ NextUnitTest
    \/ TestReturns
    \/ AssertFail
    \/ \E m \in UnitMocks : CallsMock(m)
    \/ \E m \in UnitMocks : InstallsMock(m)
    \/ \E bytes \in MemBytes : MemWrite(bytes)
    \/ \E len \in 0 .. MemSize : MemRead(len)
    \/ \E args \in UnitArgs : RunAgain(args)

------------------------------------------------------------------------------
(* Properties                                                               *)

\* The exit status is the failure of some test that ran, whatever suite it
\* was in and whatever ran after it (main, _avs_unit_assert_fail).
ExitTellsFailure ==
    runner.phase # "crash" => (runner.result = 1 <=> \E i \in DOMAIN ran : ~ran[i][3])

\* By the end, every registered test that is selected ran exactly once.
SelectedTestsRanOnce ==
    RunnerAt("done") /\ runner.selected.run =>
        \A t \in {UnitSuites[i] : i \in DOMAIN UnitSuites} :
            LET times == {i \in DOMAIN ran : ran[i][1] = t[1] /\ ran[i][2] = t[2]}
            IN  IF Skips(runner.selected.suite, t[1]) \/ Skips(runner.selected.test, t[2])
                THEN times = {}
                ELSE \E i \in times : times = {i}

\* A test sees of its mocks only its own calls and replacements, whatever the
\* tests before it and the init function of its suite did to them
\* (avs_unit_mock_reset_all__).
MocksAreFresh == RunnerAt("test") => mocks = invoked

\* The stream gives back what was accepted, in order and within its size, and
\* reports the end exactly when nothing is left (avs_memstream.c).
MemstreamIsFifo ==
    /\ Len(memstream.buffer) <= MemSize
    /\ Drop(memstream.buffer, memstream.read) = memWritten
    /\ memCall.op = "read" =>
           /\ memCall.out = Take(memCall.before, Len(memCall.out))
           /\ memCall.finished <=> Len(memCall.out) = Len(memCall.before)

\* The runner runs what was selected once, each with mocks of its own, and its
\* exit status tells of every failure.
UnitCorrect ==
    /\ ExitTellsFailure
    /\ SelectedTestsRanOnce
    /\ MocksAreFresh
    /\ MemstreamIsFifo

==============================================================================
