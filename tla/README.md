# TLA+ verification of avs_commons

avs_commons is a collection of C modules that other AVSystem products are built
on: a job scheduler, threading primitives, an HTTP client, sockets with TLS,
streams, containers, cryptographic data, logging, persistence. This directory
holds TLA+ models of these parts, the TLC configurations that check them on small
instances, and TLAPS proofs of the most important invariants for every value of
the constants. `PROJECT.json` lists components, runs, mutants, the correspondence
of definitions and source lines, findings, hazards and theorems.

## The system and what is modelled

| part (directory) | modules | state |
|---|---|---|
| scheduler (`src/sched`) | `AvsSched`, `AvsSchedLoop`, `AvsSchedProofs` | modelled |
| threading on atomic flags (`src/compat/threading/atomic_spinlock`) | `SpinlockCondvar`, `Condvar`, `InitOnce`, `ThreadsProofs` | modelled |
| threading on pthreads (`.../pthread`) | (`Condvar` states what the interface promises) | not modelled |
| HTTP client (`src/http`) | `HttpStream`, `HttpProofs` | sending, receiving and retrying; header text by its outcome |
| HTTP bodies (`src/http/body_receivers`, content encoding) | `HttpBody` | receiving; the compressing direction is not |
| streams (`src/stream`) | `AvsStream`, `AvsBuffer` | modelled, except md5 |
| net stream (`src/stream/net`) | `Netbuf`, `NetbufCalls`, `NetbufProofs`, `AvsBuffer` | modelled |
| POSIX sockets (`src/net/compat/posix`) | `PosixSocket`, `PosixSocketProofs` | descriptors, states and waiting calls |
| socket API (`src/net`) | `NetApi` | modelled, except the resolver |
| TLS sockets (`src/net/avs_ssl_common.h`, `mbedtls`, `openssl`, `tinydtls`) | `TlsCommon`, `MbedtlsSocket`, `OpensslSocket`, `TinydtlsSocket`, `TlsProofs`, `ClientCertChain` | what the code does around the libraries; of tinyDTLS not the sending |
| certificates and keys (`src/crypto`) | `CryptoInfo`, `CryptoLoader`, `CryptoPki` | modelled; PRNG, AEAD, HKDF are not |
| containers (`src/list`, `src/rbtree`, `src/vector`, `src/buffer`) | `AvsList`, `ListLinks`, `AvsRbtree`, `AvsVector`, `LibraryProofs`, `AvsBuffer` | modelled |
| log (`src/log`) | `AvsLog`, `ThreadsProofs` | modelled |
| time, URLs, text (`src/utils`, `src/url`, `src/algorithm`) | `AvsTime`, `LibraryProofs`, `AvsUrl`, `AvsCodecs` | modelled, except floating-point durations and thin wrappers of the C library |
| persistence (`src/persistence`) | `Persistence`, `PersistenceCalls` | modelled |
| test support (`src/unit`) | `Mocksock`, `AvsUnit` | runner, mocks and mock socket |

How the parts stand on each other, and how the models reflect it:

* The scheduler uses the mutex and the condition variable. It is proved that
  `SpinlockCondvar` implements the abstract `Condvar`, which is what `AvsSched`
  assumes of them: an atomic release-and-sleep, a notified or timed-out
  sleeper, spurious wake-ups as `"ok"` results.
* An HTTP body is read through a body receiver, a decoder, the net stream and the
  socket. `HttpBody` uses the operators of `Netbuf`, which uses those of
  `AvsBuffer`, so that all four layers of buffering are one composed machine. The
  HTTP stream itself (`HttpStream`) has its own, coarser view of the connection.
* A buffered stream of `AvsStream` lies over any other stream of that module.
* The TLS sockets share `TlsCommon` as the C files share `avs_ssl_common.h`, which is
  included into each of them.
* `Persistence` restores lists and trees element by element;
  `CryptoInfo` stores its descriptions with the persistence of its own fields.

## The modules

`NetbufCalls` and `PersistenceCalls` hold the state and the actions (one per call of the
library) over the operators of the module they extend, where a call is a pure
function of the object and of what the environment answers. In the other modules both
are together.

### AvsSched: the thread-safe scheduler

State: `sched->jobs` as the sequence of job addresses, with `handle_ptr` and
`instant` per address; the handle variables of the application; `sched->mutex`;
the clock; and per thread where it is in which call. Addresses are reused once
freed, as `malloc` does. A call that needs `sched->mutex` is two steps: taking the
mutex (`LockMutex`), and the critical section up to its release (`AtSchedule`,
`DelBody`, `DetachBody`, `ReschedBody`, `FetchJob`, `Sleep`, `LeapBody`, ...). The first
look at a handle by `avs_sched_del`, `avs_sched_detach` and `avs_resched_at_impl__`
happens under `g_handle_access_mutex` alone and is a step of its own
(`LookupHandle`). Sections under `g_handle_access_mutex` never block inside and
are therefore part of one step. A callback may call the scheduler again
(`MayCall`). A null handle the C code would dereference leads to `"crashed"`, a state
no property forbids (see "Disagreements").
Variables marked ghost record identities and order for the properties only.

`AvsSchedLoop` adds the documented use: one thread waits without a deadline and
then runs the due jobs, over and over; the others schedule, move and delete jobs.

### SpinlockCondvar, Condvar, InitOnce

`SpinlockCondvar` has one step per operation on an atomic flag. The list of waiters
consists of nodes on the stacks of the waiting threads; `NodesAlive` is about
their lifetime. `Condvar` is the abstract specification; the refinement mapping is at
the end of `SpinlockCondvar`, and that the abstract specification holds is the property
`ImplementsCondvar`, checked by TLC and proved. `InitOnce` models the weak compare-exchange loop, spurious
failures included, and initializers that fail. Names that `AvsSched` has too carry a
prefix in these modules, so that `MCThreads` can extend all three.

### HttpStream

One stream and one thread; a step is one blocking exchange with the socket, and
the server acts in between: it informs, answers (also before it has the whole
request) and closes at any moment. Request bodies are sequences of numbered units
so that a lost, repeated or stale unit shows; responses are records (status,
framing of the body, authentication challenge, location, whether they close).
The application writes, finishes, reads, resets, adds headers and, when
`avs_http_should_retry` says so, repeats the request. The redirect counter
saturates one above the limit.

### HttpBody

A response is a sequence of cells: bytes of the body, chunk sizes (`HEX(n)`, `JUNK`,
`TOOBIG`), line ends, and for compressed bodies symbols the decoder expands. The
connection hands over segments of chosen sizes, may pause and may be cut. Reading,
peeking and the readiness check go through the receiver and, for a coded body,
through `decoding_read` with its two buffers.

### AvsStream, Netbuf, NetbufCalls, AvsBuffer

`AvsBuffer` has the begin and insert positions inside a block, not just the contents:
defragmentation is an operation that can go wrong. Memory, file, simple-io,
in- and out-buffer streams and the buffered stream above any of them are records;
a plan says how much each transfer of the lowest stream moves, and which fails. The net
stream has its two buffers, the socket and its receive timeout.

### NetApi, TlsCommon and the three TLS sockets

`NetApi` has the objects of several sockets with their owners: variables of the
application, a logging socket around another, a decorated one inside another;
every allocation and every callee can fail. In `MbedtlsSocket` and `OpensslSocket` the
TLS library is a nondeterministic environment that calls the callbacks this
repository installs (verification, timers, session storage, transport) in the
orders the libraries do and returns what they return; certificates are numbers with
an issuer function, sessions are numbered, and a datagram is a sequence of bytes.
`TinydtlsSocket` has the configuration, the loop that feeds datagrams to the library until
the handshake ends, and receiving. `ClientCertChain` computes `rebuild_client_cert_chain` for every issuer
graph.

### CryptoInfo, CryptoLoader, CryptoPki

`CryptoInfo` lays descriptions and their data out in a block with addresses, as the C
code does, so that a stale pointer shows after `realloc` moves the block.
`CryptoLoader` has both loaders over the same descriptions, with references counted
for OpenSSL's objects. `CryptoPki` has key generation and requests with every library
call failing in turn, and PKCS #7 as sequences of cells (tags, lengths, data) for the
parser on Mbed TLS, against an encoder that follows the format.

### Containers, time, text, persistence, log, tests

`ListLinks` and `AvsRbtree` are at the level of pointers. `AvsVector` tracks what was
really allocated; after a reserve below the size, which loses elements, it makes only calls
that look no further than the header, and reserves again. `AvsTime` has integers of `TimeWidth` bits that wrap or are undefined
where the C ones are, and `NS_IN_S` nanoseconds per second. Division goes through doubles: a
number above `DOUBLE_EXACT` (2^53) is rounded, either way, by up to one part in `DOUBLE_EXACT`, and a
quotient just below an integer may be rounded up to it, so that `DurationDiv` is the set of the
results a build can give. `AvsUrl` and `AvsCodecs` work
on classes of characters. `Persistence` has a byte of `BYTE` values and small widths, and
every allocation may fail. `AvsLog` has the mutex, the global buffer (or none) and
threads between every two accesses. `Mocksock` and `AvsUnit` are what tests of the
repository rest on: a mock that lost an expectation would make a test pass. An expectation
may queue others when it is met (`and_then`), and a suite's initializer may use mocks.

### PosixSocket

One application thread makes the calls. The kernel is a table of descriptors whose
answers are nondeterministic: every system call may fail. Everything between two
waits in `poll()` is one step; while a call waits, a signal handler may close any
socket, the case `wait_until_ready` tests for. (A handler that runs between a
successful wait and the next line of C is not modelled.) `connect_impl`'s walk over
the addresses of the preferred and then of the other family, `bind_net`'s two
attempts, `send_net`'s rounds, and `accept_udp`'s move of the descriptor, connect,
roll-back and re-bind are translated branch by branch. The peer of an accepted
datagram is a numeric IPv4 address: `peek_internal` has room for no other, and such
an address resolves in its own family only.


## Runs

Numbers are distinct states.

| run | instance | properties |
|---|---|---|
| `sched_safety` (325k) | 2 threads, 2 handles, 2 addresses, 3 schedulings, clock 0..1, symmetric | `JobsConsistent`: no dangling handle (`HandleConsistency`), every job owned once (`Ownership`), `MutexDiscipline`, `CleanupReleasesAll`; `NoLostWakeup`: no sleeper misses an earlier job |
| `condvar_order` (470k) | 3 threads on the condition variable; a scheduler with 1 thread, nested calls, 3 addresses, 4 schedulings, clock 0..2 | `CondvarConsistent`: `MutualExclusion`, lifetime of nodes (`NodesAlive`), `CleanWhenUnused`; `ImplementsCondvar`; `ExecutionOrder`: jobs execute by instant and order of scheduling; `RunKeepsItsHorizon`: `avs_sched_run` keeps the horizon of its entry |
| `sched_loop` (28k) | 2 threads, clock 0..2, fairness | `LoopKeepsUp`: `OverdueJobsAreExecuted`, `WaitReturnsWhenDue` |
| `threads_live` (3.6k) | 2 threads on `avs_init_once`, 2 on the condition variable, fairness | `InitialisedOnce`: `NeverInParallel`, `NeverAfterSuccess`, `ZeroMeansInitialised`; `CallsReturn`: every `avs_init_once` returns; `CallsEnd`: locking, notifying and waits that are notified or expired end |
| `http_safety` (1.9M) | limit of 2 redirects, 3 units, blocks of 1 unit | `CleanBeforeRequest`: nothing of an earlier exchange is left when a request goes out; `RequestsIntact`: a successful request arrived whole and once (`RequestIntact`, `NoRetryAfterSuccess`); `StreamConsistent`: `ReceiverIffReceiving` |
| `http_faults` (553k) | limit of 1, sends that fail half way, compressed bodies, early answers, no resets, fairness | `CredentialsOnlyWhenAsked`; the retry loops end (`CallsReturn`) |
| `posix_socket` (516k) | 2 sockets, 2 descriptors, 1 remote host, up to 2 addresses per family, fairness | `DescriptorsOwnedOnce`; `SocketsMatchKernel`: the state tells the truth between calls (`StateMatchesKernel`), `AcceptedOnServerAddress`, `BytesCounted`; `AcceptLeavesServerListening`; `CallsReturn` |
| `connections` (219k) | each part between application and network by itself | one property per part, see below |
| `library` (276k) | each part that does not talk to the network by itself | one property per part, see below |
| `sched_leap_doc`, `sched_del_doc`, `http_location_doc` | small | violations, see "Findings" |

A property like `JobsConsistent` is the conjunction of the named ones (and of the module's
type invariant), each of which is stated by itself in its module.

`connections`, `library`, `condvar_order` and `threads_live` are unions: a variable
`part` picks one component, whose behaviours are then explored in full while the others
rest in one of their initial states. The components of a union share no state, so
the union has exactly the behaviours of its members. In `connections`
the properties and what they consist of are:

* `StreamsCorrect`: `StmBuffersInBounds`, `ReadsInOrder`, `PeekTellsTheTruth`, `LinesAreLines`,
  `EndIsReached`, `WritesInOrder`, with contents that have every kind of line end, reads of
  0, 1 and 3 bytes, buffers of 1 and 4, transfers that are short or fail;
* `NetbufCorrect`: `NbInputIntact`, `NbEndIsTheEnd`, `NbOutputIntact`, `NbTimeoutKept`,
  `NbReadyIsTrue`, with buffers of 2 and 3, sends that fail after a byte, receives that
  time out, options that cannot be set;
* `BodiesCorrect`: `BodyIntact`, `FinishedIsComplete`, `NothingLeftBehind`, `NoReadPastTheEnd`, with
  all framings, compressed or not, well-formed, damaged and cut, in segments of 1 and 4 cells
  and a `MinInput` below and above which the decoder behaves differently;
* `MbedtlsCorrect`: a backend has one owner (`MbBackendOwnedOnce`); verification with and without
  DANE accepts exactly whom it should across several handshakes of one socket
  (`MbAcceptedOnlyIfVerified`, `MbRefusedForAReason`); sessions (`MbSessionFlagIsTrue`,
  `MbBufferIsOneSession`); data, timeouts and MTU (`MbMessagesWhole`, `MbTimeoutKept`, `MbInnerMtu`);
* `OpensslCorrect`: `OsBackendKept`, `OsVerifiesExactly`, `OsTimerBacksOff` (with `UINT_MAX = 7`, so that
  doubling overflows), `OsCiphersAllowed`, `OsBufferIsNewest`, `OsMessagesWhole`;
* `TinydtlsCorrect`: `TdNothingHalfMade`, `TdConnectedMeansFinished`, `TdReceivesOneDatagram`;
* `RebuildIsMaximal` over all 256 issuer graphs of four certificates;
* `SocketApiCorrect`: `SocketsHaveOneOwner`, `FailedDecorationKeeps`, `LoggingIsTransparent`,
  `GlobalStateAllOrNothing`, `TlsaCopyIsPacked`, with three objects and two variables;
* `MocksockCorrect`: `MkTrafficAsScripted`, `MkCommandsAsScripted`, `MkCleanupAccountsForAll`.

and in `library`:

* `LogCorrect`: `LevelsAsConfigured`, `HandlerCalledAsItsKind`, `LockIsReleased` with two threads, two
  modules, with and without the global buffer;
* `RbtreeCorrect`: `RbSizeIsRight`, `RbIsSearchTree`, `RbIsBalanced`, `RbFindsAndIterates`,
  `RbClearIsComplete`, `RbCloneIsExact` with eight elements, two of them with the same key: all
  cases of both repairs are reached;
* `ListsCorrect`: `ListsAreSequences`, `CyclesAreFound`, `FirstMatchAndWholeClone`; `VectorCorrect`:
  `VectorHoldsContents`, `RemovedIsReturned`;
* `TimeCorrect`: `ArithmeticIsExact`, `InvalidOnlyAtTheLimits`, `ComparisonsAgree`, `ScalarsRoundTrip`,
  `TextIsTheDuration` for all pairs of durations with 4-bit seconds and 4 ns in a second, and
  `DOUBLE_EXACT = 16`, the least that the assumption allows: dividing by 5 or 7 rounds, by
  less does not;
* `UrlCorrect`: `UrlFits`, `PartsMakeTheUrl` for all strings of up to three classes and longer ones
  after a protocol; `CodecsCorrect`: `Base64RoundTrips`, `DecodeStaysInside`, `HexRoundTrips`,
  `TokensFitAndAdvance`, `AddressReadsBack`;
* `PersistenceCorrect`: `RestoresTheSame`, `TruncationIsNoticed`, `FailureHoldsNothing`,
  `RestoredCanBeStored`, with records cut at every place, changed in every cell, and memory
  that runs out at every allocation;
* `CryptoInfoCorrect`: `PointersStayValid`, `CopiesFitTheirBlocks`, `CopiesSayTheSame`,
  `RestoredIsWellFormed`; `LoadersCorrect`: `LoadersKeepNoReference`, `SuccessIsWhole`,
  `FailedLoadLeavesNull`, `LoadersAgree`; `PkiCorrect`: `DerAtStart`, `PkiReleasesAll`,
  `ExpirationIsOfTheFirst`, `Pkcs7RoundTrips`, `Pkcs7AcceptsOnlyEncodings`,
  `Pkcs7FailureHoldsNothing`, `Pkcs7Agree`;
* `UnitCorrect`: `ExitTellsFailure`, `SelectedTestsRanOnce`, `MocksAreFresh`, `MemstreamIsFifo`.

Each property is stated in words above its definition.

### Why the bounds are enough for the cases of interest

* Two threads, two handles, two addresses and three schedulings suffice for a
  handle looked up by one thread, its job executed, deleted or replaced by the
  other, and the address reused for another handle. Equal and different instants
  need a clock of two values for safety; order needs three jobs, one of them
  rescheduled, hence a second instance with a single thread whose calls nest.
* Three threads give a notifier walking a list of two waiters of which either may
  be leaving. The liveness run has two: with three TLC takes more than ten minutes.
* With blocks of one unit and three units a chunked request has a first, a middle
  and a last chunk, and a retry finds a partly filled buffer. Two redirects reach
  the limit and one step beyond it. `http_faults` needs only one attempt to fail.
* Two sockets are a server and the one it accepts; two descriptors are all these
  can own, and running out of descriptors happens. A payload of two bytes can be
  sent in two rounds. Only one socket sends payload (`Senders`), since counters of
  two sockets do not interact.
* Buffers are smaller than the data that goes through them, so that filling, wrapping
  and emptying all happen, and reads are smaller than, equal to and larger than what is
  there.
* A vector of four elements reserved below its size keeps some and loses some, and can be
  reserved above it again.
* Three handshakes of one socket are enough for a session to be stored, resumed and
  replaced by a longer or shorter one, and for a refusal between two successes.

### What `http_safety` assumes, and why

`SendsFail = FALSE`, `ResetsOnError = TRUE`, no final 2xx answer before the end of a
request, no informational status but 100, no compressed chunked bodies. In each
of these cases the code does not keep the properties of that run; they are
described under "Disagreements". The assumptions are
constants, so that a correction of the code can be checked by lifting them.
`http_faults` lifts most of them for the properties that hold without them.
`sched_safety` leaves out `avs_sched_leap_time` for the same reason: called with an
invalid duration it makes every instant invalid, and `NoLostWakeup` no longer holds.

### Fairness

* Scheduler: weak fairness of the clock, of critical sections, of returning
  callbacks and of a notified sleeper; strong fairness of taking `sched->mutex`,
  which is free again and again while several threads want it, and of the timeout
  of a sleep. A callback is assumed to return; without that nothing can be promised.
* Spinlocks: weak fairness of a thread's own straight-line steps; strong fairness of
  unlocking (an owner that keeps waiting and relocking unlocks at last) and of
  test-and-set on a flag that is free infinitely often. The spinlock has no queue, so
  this is an assumption on the machine's scheduling, not something the code ensures.
* `InitOnce`: the same for the compare-exchange; an initializer returns.
* HTTP client and POSIX sockets: weak fairness of the call in progress. Every socket
  operation has a timeout (`NET_CONNECT_TIMEOUT`, `NET_SEND_TIMEOUT`,
  `NET_ACCEPT_TIMEOUT`, `recv_timeout`), so a wait ends. Nothing is assumed of the
  server, the network or the application.
* `connections` and `library` check safety only and assume no fairness.

## Proofs

Checked by TLAPS for every value of the constants (any set of threads, handles and
addresses, any bounds):

* `ThreadsProofs`: `AlwaysConsistent` (`CondvarSpec => []CondvarConsistent`) and
  `Refinement` (`CondvarSpec => ImplementsCondvar`); `AlwaysInitialisedOnce`
  (`OnceSpec => []InitialisedOnce`), from `FuncNeverInParallel`, `FuncNeverAfterSuccess`,
  `ZeroOnlyAfterSuccess`; `LogAlwaysCorrect` (`LogSpec => []LogCorrect`).
* `AvsSchedProofs`: `JobsAlwaysConsistent` (`Spec => []JobsConsistent`), from
  `HandlesConsistent`, `JobsOwnedOnce`, `MutexHeldInSections`, `CleanupComplete`;
  `AlwaysInOrder` (`Spec => []ExecutionOrder`), `HorizonIsKept`
  (`Spec => RunKeepsItsHorizon`) and, under the hypothesis `INVALID \notin LeapDiffs`,
  `NoWakeupIsLost` (`Spec => []NoLostWakeup`).
* `PosixSocketProofs`: `OwnedOnce` (`Spec => []DescriptorsOwnedOnce`), `MatchKernel`
  (`Spec => []SocketsMatchKernel`) and `AcceptLeaves` (`Spec => AcceptLeavesServerListening`).
* `HttpProofs`: `CredentialsGuarded` (`Spec => []CredentialsOnlyWhenAsked`) and `TypesHold`,
  with no assumption on the server or the application; under the hypothesis `Orderly`,
  `RequestsStartClean` (`Spec => []CleanBeforeRequest`), `RequestsDelivered` (`Spec => []RequestsIntact`) and
  `StreamStaysConsistent` (`Spec => []StreamConsistent`).
* `LibraryProofs`: `TimeAlwaysCorrect` (`TmSpec => []TimeCorrect`);
  `VectorAlwaysCorrect` (`VecSpec => []VectorCorrect`).
* `TlsProofs`: `TinydtlsAlwaysCorrect` (`TdSpec => []TinydtlsCorrect`) and
  `OpensslAlwaysCorrect` (`OsSpec => []OpensslCorrect`).
* `NetbufProofs`: `NetbufAlwaysCorrect` (`NbSpec => []NetbufCorrect`).
* `AvsList`: what inserting, detaching, finding and taking the tail of a list
  do to membership and to the absence of duplicates; both the jobs of the scheduler and the
  waiters of the condition variable rest on it.

Assumptions: in `AvsSched`, `NullAssumption` (the null pointer is no thread, handle or
address) and `TimeAssumption` (the bounds are naturals, an invalid time is no integer); in
`SpinlockCondvar`, `CondvarAssumption` (the same, and that "no notification" is told apart
from a set of threads). `LeapDiffs` is unconstrained, so the theorems about the scheduler
hold with invalid leaps too, except `NoWakeupIsLost`: an invalid leap is the one call that
breaks what it states. As valid leaps are refused (see Findings), the clock of a scheduler
under its hypothesis is never leapt. In `PosixSocket`, `SocketAssumption` and `NoneAssumption`
say that bounds are naturals and that "none" is no descriptor, host, socket or record; in
`HttpStream`, `HttpAssumption` says the same of sizes and statuses, and `ResponseAssumption` that
a final response has the fields of one and no status 1xx. In `AvsLog`, `LogAssumption` says that
modules are numbered in the order of their names and that the two kinds of handlers are
told apart; in `AvsTime`, `DurationAssumption` that a second has an even number of nanoseconds
which fits an integer of `TimeWidth` bits (that a power of two is positive is part of it,
for the provers know nothing of exponents), that multipliers fit one too, and that four seconds
in nanoseconds are exact in a double (`DOUBLE_EXACT >= 4 * NS_IN_S`; really 2^53 against 4 * 10^9); in `TinydtlsSocket`, `TdAssumption` that sizes
and the limit on exchanges are naturals; in `OpensslSocket`, `OsAssumption` that sizes and times
are naturals, sizes of records and sessions above 0, the longest wait fits an `unsigned int`, a
TLSA record has one of the four usages, and a socket handed over is not merely bound; in
`NetbufCalls`, `NbAssumption` that sizes are naturals, input buffers and segments not empty, and a
plan is a sequence of what happens to one send after another; in `AvsVector`, `VecAssumption` that
the bound on the size is a natural.

`Orderly` is what `http_safety` assumes, as a formula on the constants: `~SendsFail`,
`ResetsOnError`, no informational status but 100, no compressed body, no early 2xx. Each part of
it is needed, see "What `http_safety` assumes, and why"; the code does not keep the properties
without it. It says nothing of when the server closes, what it answers, how often it redirects
or asks for credentials, of the sizes of writes, of the buffer or of the redirect limit.

The condition variable. Its invariant `IInv` adds three things to the consistency that is
claimed. `Holding` ties the ghost `holds` to the place of the thread in its call. `ListLock`
makes the three sections under `waiters_mutex` exclude each other. `Cursors` says that
a walk meets no node twice and that nobody else is in the middle of one. Without `ListLock`,
`NodesAlive` is not inductive: a waiter could remove its node, and return, under a notifier
that still has it before it. There is one step per action for each group of conjuncts
(`TypeStep`, `MutexStep`, `ListLockStep`, `NodesStep`). For the refinement every
step gets a lemma that names the abstract step it is: taking the mutex from any
of three places is `Acquire` (`AcquireStep`), the end of the spinning is `Wake` with a
result that is a timeout only if the deadline has passed (`WakeStep`), having the list is the
beginning of a notification, which has all waiting threads before it because of `NodesAlive`
(`NotifyBeginStep`), clearing a node is `Signal` or nothing if that thread has woken up
already (`NotifyWalkStep`); `QuietMove` and `Stutters` settle those that do not show.

The scheduler. `IInv` is the type invariant; `Data`, which is `HandleConsistency` and
`Ownership`; `MutexDiscipline`; `Control`, which ties the job a thread executes to the place
the thread is at, so that `fetch_job` never overwrites one; `Lifecycle`, which says that
`avs_sched_cleanup` is alone on the scheduler; and `CleanupReleasesAll`. Handle consistency
alone is not inductive: freeing a job after its callback keeps it only because that job is
not in the list, hence in no handle, which is what `Ownership` says; and ownership survives
`fetch_job` only because of `Control`, and cleanup only because of `Lifecycle`. The proof
goes action by action: `StepCases` splits `Next`; `TypeStep`, `DataStep` and `RestStep` prove
the three groups of conjuncts; the steps that change the list go through lemmas
(`AtScheduleList`, `ReschedList`, `DelList`, `FetchList`) resting on those of `AvsList`;
`DataUnchanged` settles all steps that leave the list, the jobs, the handles and the jobs in
execution alone.

Order, horizon and wake-ups of the scheduler rest on `IInv`. `OInv` is the order together
with "no stamp is larger than the number of schedulings", which makes the stamp of a new job
the latest; inserting keeps the order because `ScheduleJob` skips exactly the jobs that are not
later (`ScheduleOrdered`, `InsertOrdered`), and the other calls only take jobs away
(`DetachOrdered`, `TailOrdered`). `HInv` says that a thread has a horizon only while it is in
`avs_sched_run`; otherwise starting a run could overwrite one. `WInv` adds to `NoLostWakeup`
that listed instants and those about to be listed are valid: a job that goes away then
leaves a first job that is no earlier (`FirstIsEarliest`, from `OInv`), and the calls that may
make it earlier notify all sleepers.

POSIX sockets. A handler that runs during a wait may close any socket, so nothing about
descriptors stays true over a wait but what `IInv` says: every socket is `Truthful` (its state
claims no more than the kernel's object has) and `Settled`, except the one that `connect_net`
is opening; and for each kind of call in progress, what its next step relies on (`ConnectInv`,
`SendInv`, `AcceptInv`). `SocketsMatchKernel` alone is not inductive: between two calls it speaks of
every socket, during a call of all but one. There is one lemma per action.

The HTTP client. `TInv` is the types and bounds, that stream
and connection are at the same URL, and that a stream with an authentication scheme is at an
https server or at one that asked; a redirect keeps it because `_avs_http_auth_reset` comes
before the new URL. `JInv` says for every step of the client what part
of the request the server has: nothing of it, on a connection that is clean once the body
being received has been read, unless it is not to be kept (`Ready`); exactly the units before the block being sent
(`InRequest`); or all (`Whole`); and that the rest of the units, in order, is in `out_buffer` or
in the block (`Payload`). `RequestsIntact` speaks of the end of a request only; to get
there the invariant has to follow the block through the retries, each of which needs the
whole request again (`Again`). A success needs one more fact: no response on its way is a 2xx
before the request is whole (`NoSuccess`), so the one that ends the call answers all of it.

In the modules with a `USE ZenonT` Zenon is the prover, and the steps that need
arithmetic or sequences name SMT.

`InitOnce`. `OnceInv` adds to the properties that a success is recorded either in the
state or by the one thread about to store it.

The log. `LogInv` has four parts besides the types. `OwnerInv` ties the lock to the places of the
threads; `KindInv` says that `g_log` has the kind of the handler it has, and `ReadInv` that
a thread which handles a message under the lock has read the present kind, which needs
`OwnerInv`: only the owner changes `g_log`. `LevelsInv` says of the list of levels, as a pure
fact, that it is sorted and has the level last given to each module; that `level_for` finds it
(it takes the first entry that is not smaller) and that inserting at the place where
`avs_log_set_level__` inserts keeps it are lemmas on sequences, with the place
picked as the smallest of a set of naturals (`SmallestNat`) in place of an induction.

Durations. `TmInv` says that the result is what the operation gives for its operands, so that
every conjunct of `TimeCorrect` is a fact about an operator. They are proved from below:
`safe_add_int64_t` and `safe_mul_int64_t` refuse exactly what does not fit (`SafeAddFacts`,
`SafeMulFacts`), `normalize` keeps the value (`NormalizeFacts`), hence a sum, difference or product
that is valid is exact and one that is invalid does not fit, and a number of units
converts to a duration and back to itself (`ConvertsFacts`, `FromScalarFacts`). A quotient `q` of
`a` by `k` is not exact, for the nanoseconds go through doubles. The claim is
`|q * k - a| < |k|`, less than a nanosecond, when `|k| * NS_IN_S <= DOUBLE_EXACT`, and
`|q * k - a| < 2 * |k|` for a larger divisor. The remainder of the seconds is below `|k|`, so in the
first case nothing is rounded; in the second the roundings of the numerator and of the quotient
come to less than `|k|` together, since `|k| * NS_IN_S / DOUBLE_EXACT` is at most a quarter of it
(`RoundedFacts`, `RoundedQuotFacts`, `DividedNsFacts`, `DivFacts`). Less than a nanosecond cannot be
claimed there: {1288490369 s, 988626544 ns} divided by 1610612737 gives 800000111 ns, and the quotient
is 800000112.

tinyDTLS. A socket and the sockets it may own are one record, and what every function of
`avs_ssl_common.h` does is a lemma on such records (`CleanupBackendFacts`, `CloseBackendFacts`,
`EnsureFacts`), for any library's socket that has a `backend` field. `TdInv` adds to the property
that the record and the datagrams are of their types and that a socket which does not
exist owns no backend: without it a creation could lose one. `TdGood` is what every function
keeps whatever fails in it; `SslHandshakeFacts` says that the loop of a handshake ends well only
if the first datagram that ends it is the server's last, within the limit.

OpenSSL. `OsInv` says of the socket between two calls (`OsSockGood`) that its backend has one
owner and its own timeout, that a session exists only over a connected or accepted backend, that
a datagram socket has nothing left of an earlier datagram, and that the session buffer holds one
session whole and zeroes behind it, or only zeroes (`Holds`); and of the last call that it kept its
promises (`OsCallGood`). `Holds` is what the proof cannot do without: `Deserialise` reads a
session's own length from the buffer, so a shorter session over a longer one is read right only if
what lies behind it was cleared. `VerificationFacts` shows that what is set up in OpenSSL
accepts exactly the peers the policy accepts, mode by mode; `CipherFacts` that a list is made of
enabled ciphers. The waits of a handshake are a recurrence (`DtlsTimers`): that it has a solution,
and that each wait is the double of the one before or the maximum, is shown by taking
the smallest number of retransmissions for which it would fail (`TimersExist`, `BacksOff`). Every
handshake ends in one of the ways `OsOutcome` lists, through `connect` and through `decorate`.

Vectors. `VecInv` says that the contents are the cells in use of those allocated (`VecHolds`), and
that the element a call returned is the one it removed. After a reserve below the size it says so of
the cells that are left, and that only a further reserve can follow. The two loops of `avs_vector.c`, the one
that swaps an element to the end and the one that reverses a range, are recursive functions
of the number of swaps; a closed form (`Rotated`, `Mirrored`) satisfies the same
recurrence, and two functions that do agree at every number of swaps, for there is no smallest one at
which they differ (`Agree`). What `avs_vector_remove__` leaves is then shown to be the contents without the
element, whether there was memory to set it aside or it had to be swapped to the end. Of sorting the proof uses only that it fills the
same cells: that they are a sorted permutation is the contract of `qsort`.

The buffered net stream. `NbInv` says that what the buffer and the socket still have to read
(`ToRead`) is the rest of what has arrived, that the timeout is the one wanted, that the output is
kept (`OutputKept`), and that the last call told the truth (`NbCallGood`). `NbOutputIntact` is not
inductive: once a send has failed, the buffer goes out again, so "no accepted byte is lost" has to
be known of the bytes before the buffer and of the buffer apart, for a reset takes away only the
second. `OutputKept` therefore says that what was accepted is something that has gone out followed
by the buffer. `Flat` and `Fills` are recurrences (the bytes of all segments, the receives of a
peek); that they have solutions, and what they are, is shown by taking the smallest index at
which it would fail (`Iterates`, `FlatFacts`, `FillsFacts`). A peek ends (`NbPeekFacts`) because each
receive but the last brings a byte, so `offset + 1` of them suffice.

Only model-checked: liveness, which is out of the prover's reach (`LoopKeepsUp`, `CallsEnd`,
`CallsReturn` everywhere); what recursive definitions compute for every input, which would
take induction over data (trees, codecs, URLs, persistence, streams, bodies, loaders); and the
properties of the socket over Mbed TLS, the socket API and the test support, whose models the
proofs have not reached.


## Findings

Each is a run whose property quotes what the repository says and is violated by
what the code does.

* `sched_leap_doc`: `avs_sched_leap_time` has its validity test the wrong way round
  (`src/src/sched/avs_sched.c:576`): a valid duration is refused, an invalid one is
  added to every instant. `avs_sched.h:443` documents the opposite.
* `sched_del_doc`: `avs_sched_del` reads the address of the job under one mutex and
  looks it up in the list under another (`avs_sched.c:519`). If the job is executed in
  between and its memory is reused for a job of another handle, that job is deleted,
  although the comment at line 524 says nothing is done then.
* `http_location_doc`: a 3xx answer without a usable Location is retried for ever
  (`src/src/http/avs_headers_receive.c:347`), since it fails before the redirect counter
  is incremented.

## Disagreements without a run of their own

Met with the same models; the models behave as the code does. Where a property is
named that no run lists, it is defined in the module and stands for what the
documentation says.

Scheduler (`avs_sched.c`):

* `PositiveOnlyAfterDeadline` (2 threads, 1 handle, 1 address, 1 scheduling):
  `avs_sched_wait_until_next` ends on the first timeout of the condition variable
  (line 285), whose deadline is that of the job that was first when the thread
  went to sleep. If another thread deletes or executes that job, the call
  returns a positive value although `avs_sched.h:171-178` says a wait without a deadline
  has no other break condition than a job to execute.
* `RunExecutesJobsAtEntryTime` (1 thread, 1 job): `fetch_job` takes a job only
  if its instant is strictly before the entry time (line 314); `avs_sched.h:211`
  says "before or at".
* `Crashed` is reachable (2 threads, 1 handle, 1 address, 2 schedulings): if the address that
  `avs_sched_del` or `avs_sched_detach` has looked up is reused, before the list is searched, for
  a job that was scheduled without a handle, `*job->handle_ptr` dereferences a null pointer
  (lines 528-529 and 566-567). The comment there says that nothing is done when another thread
  has removed the job. No property forbids the state, and `LoopKeepsUp` exempts it.
* `TimeIsSomeScheduledTime` (2 threads, 1 job, 2 schedulings, `MaxTime = 3`,
  `NS = 2`): `avs_sched_time` reads `job->instant` under `g_handle_access_mutex` while
  `avs_resched_at_impl__` writes it under `sched->mutex` (line 492), so seconds and
  nanoseconds may come from different values.

HTTP stream:

* `ReceiverIffReceiving` with a 200 among `EarlyResponses`: after the headers
  of a chunked request a 2xx answer is treated like 100 Continue
  (`src/src/http/avs_chunked.c:68`), and the stream has a body receiver while it is still
  sending; `avs_http_stream.h:171` says it has one if and only if it is receiving.
* `ReceiverIffReceiving` with `Informational = {100, 103}`: only status 100 is skipped
  (`avs_headers_receive.c:389`); after any other 1xx `avs_stream_finish_message` succeeds
  without a body receiver.
* `CleanBeforeRequest` with `SendsFail = TRUE`: when sending a plain request fails half
  way, `http_reset` keeps the connection because it looks at `chunked_sending` only
  (`avs_stream_methods.c:246`), and the next request follows the truncated one.
* `CleanBeforeRequest` with a compressed chunked answer: the decoder ends the message
  before the receiver has read the last, empty chunk (`avs_content_encoding.c:109`,
  `avs_stream_methods.c:206`), which the next response is then expected behind.
* `RedirectStatusMeansLimit`: when the connection that follows a redirect
  fails, the status stays 3xx within the limit; `avs_http.h:519` says a 3xx status means
  the limit was exceeded.
* `RequestIntact` with `ResetsOnError = FALSE`: `out_buffer` keeps the last block of a
  chunked request that got a late 401 (`avs_http_stream.c:330`), and a request repeated as
  `avs_http_should_retry` suggests starts with it unless the stream is reset first.

HTTP bodies:

* `EofIsTheEnd` (HttpBody): a peek at a chunked body whose next segment has
  not arrived says AVS_EOF; `avs_stream.h:273` reserves it for the end of the stream.
* `decoding_read` asserts that it has output whenever the receiver has no more data; a
  truncated compressed body, or a read of zero bytes, fails the assertion. An output buffer
  larger than the decoder's input gives AVS_EMSGSIZE, and the decoder's peek is off by
  one at the end of its buffer.
* With a body by length a receive that times out counts as the end of the message;
  in a chunked one a timeout in the middle of a headline loses what was read of it.

Streams:

* `CopyIsWhole` (AvsStream): a buffered stream reports the end of the message with
  the fetch that saw it, although its buffer holds more (`avs_stream_buffered.c:171`);
  `avs_stream_copy` then stops early.
* A read of a file that fails has moved the position by what `fread` read before the error, and
  `stream_file_peek` does not go back (`avs_stream_file.c:93-99`): `ReadsInOrder` exempts a file
  whose error indicator is set. A write that fails may have stored a part
  (`avs_stream_file.c:77-80`), and a buffered stream above, which keeps the block, stores that part
  again when it is flushed again: `WritesInOrder` then claims only that the first copies are in order. Only a
  reset clears the error indicator, so later calls fail although they move bytes.
* The net stream does not flush when it is closed, and a flush that failed half way
  sends the first half again.

POSIX sockets (`avs_net_impl.c`):

* `bytes_sent` counts the earlier rounds of a stream send again in every round
  (line 1205); `avs_socket.h:557` calls it the number of bytes sent. `BytesCounted`
  therefore claims only a lower bound for streams.
* After `socket()` fails in `bind_net`, or a shutdown of a socket without a descriptor,
  the state stays BOUND or SHUTDOWN, and closing does not change it (lines 414-422);
  `avs_socket.h` says closing leaves CLOSED "regardless of the return value".
* `avs_net_socket_accept` works for UDP sockets over IPv4, and fails for IPv6 because of
  the size of the address buffer (lines 1566-1580); `avs_socket.h` says it fails for
  connectionless sockets.
* A bound UDP socket whose connection attempt fails in the wait keeps, in the kernel,
  the peer of the last attempt. `accept_udp` closes and re-binds its server, which is why
  `AcceptLeavesServerListening` holds.
* `inet_ntop4` checks the size of its buffer without the terminating null byte.

TLS sockets:

* `MbBufferZeroed` (MbedtlsSocket): with Mbed TLS 2.19 and later the session buffer is
  not zeroed behind the session nor on failure (`avs_mbedtls_persistence.c:297-325`);
  `avs_socket.h:427-429` says it always is. A session that does not fit leaves the old header over
  a body of which the library has overwritten a part; whether that is taken for a session is
  up to the library, and `MbBufferIsOneSession` claims nothing of it.
* `TdMayBeReused` (TinydtlsSocket): a tinyDTLS socket cannot be connected again after it
  was closed, as its context is gone (`avs_tinydtls.c:187-196`, used at 253);
  `avs_socket.h:965-966` says a closed socket may be reused. A received datagram
  that holds no application data leaves the number of bytes unset.
* The Mbed TLS verification state is reset with the last certificate of a chain only; a
  handshake that stops before it makes the next one be refused (`MbRefusedForAReason`
  exempts it). `session_fresh` stays unset after a failed resumption.
* The OpenSSL backend: `dtls_timer_cb` outside of the handshake leaves the backend away; a
  minimum timeout of zero never grows; a failed write of the cipher list is overwritten.
* TLSA records can be set on sockets that are not configured for DANE;
  `avs_socket.h:576-577` says it "will yield an error".
* The logging socket prints any option as if it were a timeout, and treats the socket to
  accept into as a logging socket.

Certificates and keys:

* `KeySetIffLoaded` (CryptoLoader): with OpenSSL a good key followed by a malformed
  object fails, with the key set and an assertion to the contrary. With Mbed TLS
  a missing engine query leaves the allocated key to the caller.
* The two libraries differ: several keys in a file, directories for client
  chains, PKCS #7 messages without certificates, definite lengths inside
  indefinite ones, a missing engine key. OpenSSL's expiration date fails an assertion for an
  empty description and for an error behind the first certificate; Mbed TLS's leaks the
  empty chain. With a buffer that is too small OpenSSL's key generation fails but changes
  the size.
* `FailureLeavesNoKey` (CryptoPki): when `mbedtls_pk_write_key_der` fails, for instance because the
  buffer is too small, the part of the key it has written stays in the caller's buffer
  (`avs_mbedtls_pki.c:163-167`); the comment in `move_der_data_to_start` says that no stray copies
  are to be left. With OpenSSL a request with an engine key that gives no key fails
  an assertion (`avs_openssl_pki.c:206`).
* With OpenSSL a load that fails half way leaves in the certificate store what it had added.

Other parts:

* Log: a level that cannot be allocated is reported with the mutex held, which logging
  takes again under AVS_COMMONS_LOG_USE_GLOBAL_BUFFER (`avs_log.c:194`), unless the default
  level is quiet; without the global
  buffer a handler can be called as the wrong kind while it is being replaced (line 297).
* Time: sums and products are invalid for some results within a second of the limits;
  the text of a duration between -1 s and 0 has no sign.
* `StrictLengthIsMultipleOfFour` (AvsCodecs): strict decoding accepts texts whose length is
  no multiple of four, which `avs_base64.h:71-74` excludes.
* `SuccessRestoresAll` (PersistenceCalls): the handler of `avs_persistence_list` and `_tree` tests
  `!element` where it means `!*element` (`avs_persistence.c:546`), so an element that could not be
  allocated is passed to the application as a null pointer and, if the application accepts it, is missing
  from a collection reported as restored; `avs_persistence.h` promises AVS_OK for success or an
  error. A list restored without a cleanup function stays partly filled after a failure.
* `ReserveKeepsElements` (AvsVector): `avs_vector_reserve__` reallocates to any number of elements,
  also one below the size; `avs_vector.h:308-313` says it does nothing unless the number is
  greater than the capacity. An index past the end is undefined, not refused.
* Test support: an assertion in a suite's initializer jumps to a stale buffer; selecting a
  test that does not exist exits with 0; `mid_close` followed by a cleanup can leave
  expected data unreported, and a receive before expected output returns 0 bytes.

## What is not modelled, and why

* The TLS and cryptographic libraries, zlib, the kernel and the resolver are external: what
  they may answer is modelled, not what they do.
* md5 is a computation whose correctness lies in its constants; random numbers, AEAD and HKDF
  are one library call each.
* Wrappers of the C library (`avs_strings.c`, `avs_numbers.c`, `avs_memory.c`), tables of texts
  (`avs_strerror.c`), and the printing of stack traces and of compared values have no state.
* The pthread primitives are thin wrappers over what `Condvar` states.
* Of the POSIX sockets: received data, options, MTU, the preferred endpoint.
* Of the HTTP client: the text of headers, the digest computation, cookies and compression
  of requests. The buffers below `HttpStream` are in `HttpBody`, not in it.
* Of the TLS sockets: how credentials and cipher suites are handed to the libraries, errors of
  that configuration (but those of tinyDTLS), the close notification, and sending over tinyDTLS
  (`send_ssl`, `dtls_write_handler`).
* Of durations: the functions that take or give a floating-point number (`avs_time_duration_fmul`,
  `avs_time_duration_to_fscalar` and their like). Rounding of doubles is modelled for the integer
  division only.
* Of `avs_strings.c`, `avs_strtok` too: a loop without state of its own.
