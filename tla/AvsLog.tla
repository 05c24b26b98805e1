------------------------------- MODULE AvsLog -------------------------------
(***************************************************************************)
(* The logger of src/src/log/avs_log.c with threads that set handlers and  *)
(* levels and log at the same time.  A handler is a normal or an extended  *)
(* function; a level is a number, and messages of LOG_QUIET are never      *)
(* filtered.  log_global is AVS_COMMONS_LOG_USE_GLOBAL_BUFFER: whether     *)
(* messages are formatted and handled under the lock.                      *)
(***************************************************************************)
EXTENDS AvsList

CONSTANTS
    LogThreads,     \* threads that use the logger
    NormalHandlers, ExtendedHandlers,
    DefaultHandler, \* default_log_handler, a normal one
    LogModules,     \* names of modules; numbers, in the order of strcmp
    LogLevels       \* levels, AVS_LOG_INFO and the quiet one among them

ASSUME LogAssumption ==
    /\ 0 \notin LogThreads \cup LogModules \cup NormalHandlers \cup ExtendedHandlers
    /\ LogModules \subseteq Nat
    /\ DefaultHandler \notin ExtendedHandlers
    /\ NormalHandlers \cap ExtendedHandlers = {}

VARIABLES
    log_global,
    g_log,      \* handler, is_extended_handler, default_level, module_levels
    log_owner,  \* the thread that holds g_log_mutex
    log_pc,     \* for each thread: where it is, and in which call
    configured  \* ghost: the level set for each module, and the default one

logVars == <<log_global, g_log, log_owner, log_pc, configured>>

INFO == 1
QUIET == 2
NOBODY == 0        \* no thread; no module (the default level)

LogIdle == [at |-> "idle", op |-> "none", module |-> NOBODY, level |-> INFO,
            ext |-> FALSE, called |-> DefaultHandler]

FreshLog == [handler |-> DefaultHandler, ext |-> FALSE, default |-> INFO,
             levels |-> <<>>]

LogInit ==
    /\ log_global \in BOOLEAN
    /\ g_log = FreshLog
    /\ log_owner = NOBODY
    /\ log_pc = [t \in LogThreads |-> LogIdle]
    /\ configured = [m \in {NOBODY} |-> INFO]

------------------------------------------------------------------------------
(* Handlers and levels; the lock is held                                    *)

SetHandlerUnlocked(g, h) ==
    [g EXCEPT !.handler = IF h = NOBODY THEN DefaultHandler ELSE h, !.ext = FALSE]

SetExtendedForgettingKind(g, h) ==
    [g EXCEPT !.handler = IF h = NOBODY THEN DefaultHandler ELSE h]

SetExtendedHandlerUnlocked(g, h) ==
    IF h # NOBODY THEN [g EXCEPT !.handler = h, !.ext = TRUE]
    ELSE [g EXCEPT !.handler = DefaultHandler, !.ext = FALSE]

\* The loop of level_for: the place of the first entry that is not before
\* the module.
Place(g, m) ==
    LET before == { i \in DOMAIN g.levels : g.levels[i].module < m }
    IN  1 + IF before = {} THEN 0 ELSE CHOOSE i \in before : \A j \in before : j <= i

HasEntry(g, m) == /\ Place(g, m) <= Len(g.levels)
                  /\ g.levels[Place(g, m)].module = m

LevelFor(g, m) ==
    IF m # NOBODY /\ HasEntry(g, m) THEN g.levels[Place(g, m)].level ELSE g.default

\* set_log_level_unlocked when level_for finds or makes an entry
SetLogLevelUnlocked(g, m, level) ==
    LET p == Place(g, m)
        entry == [module |-> m, level |-> level]
    IN  IF m = NOBODY THEN [g EXCEPT !.default = level]
        ELSE IF HasEntry(g, m) THEN [g EXCEPT !.levels[p].level = level]
        ELSE [g EXCEPT !.levels = ListInsert(@, p, entry)]

ResetUnlocked(g) ==
    SetLogLevelUnlocked(SetHandlerUnlocked([g EXCEPT !.levels = <<>>], NOBODY),
                        NOBODY, INFO)

------------------------------------------------------------------------------
(* Calls                                                                    *)

Goes(t, call) == log_pc' = [log_pc EXCEPT ![t] = call]

\* LOG_LOCK of the call that t is in
CallLocks(t) ==
    /\ log_pc[t].at \in {"lock", "lock_to_log"}
    /\ log_owner = NOBODY
    /\ log_owner' = t
    /\ Goes(t, [log_pc[t] EXCEPT !.at = IF @ = "lock" THEN "locked" ELSE "prefix"])
    /\ UNCHANGED <<log_global, g_log, configured>>

Begins(t, op, m, level) ==
    /\ log_pc[t] = LogIdle
    /\ Goes(t, [LogIdle EXCEPT !.at = "lock", !.op = op, !.module = m, !.level = level])
    /\ UNCHANGED <<log_global, g_log, log_owner, configured>>

\* Where a call that logs goes after avs_log_should_log__: to
\* avs_log_internal_forced_v__.
Forced(call) == [call EXCEPT !.at = IF log_global THEN "lock_to_log" ELSE "prefix"]

\* avs_log_set_handler and avs_log_set_extended_handler
SetsHandler(t, h) ==
    /\ log_pc[t].at = "locked" /\ log_pc[t].op = "set_handler"
    /\ g_log' = SetHandlerUnlocked(g_log, h)
    /\ log_owner' = NOBODY /\ Goes(t, LogIdle)
    /\ UNCHANGED <<log_global, configured>>

SetsExtendedHandler(t, h) ==
    /\ log_pc[t].at = "locked" /\ log_pc[t].op = "set_extended"
    /\ g_log' = SetExtendedHandlerUnlocked(g_log, h)
    /\ log_owner' = NOBODY /\ Goes(t, LogIdle)
    /\ UNCHANGED <<log_global, configured>>

\* avs_log_set_level__; when there is no memory for an entry it logs an error
\* while it holds the lock.
SetsLevel(t) ==
    LET m == log_pc[t].module
        level == log_pc[t].level
    IN  /\ log_pc[t].at = "locked" /\ log_pc[t].op = "set_level"
        /\ g_log' = SetLogLevelUnlocked(g_log, m, level)
        /\ log_owner' = NOBODY /\ Goes(t, LogIdle)
        /\ configured' = [x \in DOMAIN configured \cup {m} |->
                             IF x = m THEN level ELSE configured[x]]
        /\ UNCHANGED log_global

\* An entry that cannot be allocated is logged as an error, unless the default
\* level is the quiet one.
SetLevelRunsOutOfMemory(t) ==
    /\ log_pc[t].at = "locked" /\ log_pc[t].op = "set_level"
    /\ log_pc[t].module # NOBODY /\ ~HasEntry(g_log, log_pc[t].module)
    /\ IF g_log.default < QUIET
       THEN /\ Goes(t, Forced([log_pc[t] EXCEPT !.op = "set_level_failed"]))
            /\ UNCHANGED log_owner
       ELSE log_owner' = NOBODY /\ Goes(t, LogIdle)
    /\ UNCHANGED <<log_global, g_log, configured>>

LogResets(t) ==
    /\ log_pc[t].at = "locked" /\ log_pc[t].op = "reset"
    /\ g_log' = ResetUnlocked(g_log)
    /\ log_owner' = NOBODY /\ Goes(t, LogIdle)
    /\ configured' = [m \in {NOBODY} |-> INFO]
    /\ UNCHANGED log_global

\* avs_log_should_log__: messages of QUIET or above do not take the lock.
ShouldLog(t) ==
    /\ log_pc[t].at = "locked" /\ log_pc[t].op = "log"
    /\ log_owner' = NOBODY
    /\ Goes(t, IF log_pc[t].level >= LevelFor(g_log, log_pc[t].module)
               THEN Forced(log_pc[t]) ELSE LogIdle)
    /\ UNCHANGED <<log_global, g_log, configured>>

QuietLogs(t) ==
    /\ log_pc[t] = LogIdle
    /\ Goes(t, Forced([LogIdle EXCEPT !.op = "log", !.level = QUIET]))
    /\ UNCHANGED <<log_global, g_log, log_owner, configured>>

\* log_with_buffer_unlocked_v reads is_extended_handler for the prefix, again
\* for the call, and the handler itself last.
ReadsKindForPrefix(t) ==
    /\ log_pc[t].at = "prefix"
    /\ Goes(t, [log_pc[t] EXCEPT !.at = "dispatch"])
    /\ UNCHANGED <<log_global, g_log, log_owner, configured>>

ReadsKind(t) ==
    /\ log_pc[t].at = "dispatch"
    /\ Goes(t, [log_pc[t] EXCEPT !.at = "call", !.ext = g_log.ext])
    /\ UNCHANGED <<log_global, g_log, log_owner, configured>>

CallsHandler(t) ==
    /\ log_pc[t].at = "call"
    /\ Goes(t, [log_pc[t] EXCEPT !.at = "handling", !.called = g_log.handler])
    /\ UNCHANGED <<log_global, g_log, log_owner, configured>>

\* The handler returns; a level that could not be set ends with an unlock.
HandlerReturns(t) ==
    /\ log_pc[t].at = "handling"
    /\ log_owner' = IF log_owner = t THEN NOBODY ELSE log_owner
    /\ Goes(t, LogIdle)
    /\ UNCHANGED <<log_global, g_log, configured>>

WaitsForItself(t) == log_owner = t /\ log_pc[t].at = "lock_to_log"

\* A process whose logger waits for itself is started again from outside.
ProcessRestarts ==
    /\ \E t \in LogThreads : WaitsForItself(t)
    /\ g_log' = FreshLog /\ log_owner' = NOBODY
    /\ log_pc' = [t \in LogThreads |-> LogIdle]
    /\ configured' = [m \in {NOBODY} |-> INFO]
    /\ UNCHANGED log_global

LogThread(t) ==
    \/ Begins(t, "set_handler", NOBODY, INFO) \/ Begins(t, "set_extended", NOBODY, INFO)
    \/ Begins(t, "reset", NOBODY, INFO)
    \/ \E m \in LogModules \cup {NOBODY}, level \in LogLevels :
          Begins(t, "set_level", m, level)
    \/ \E m \in LogModules, level \in LogLevels \ {QUIET} : Begins(t, "log", m, level)
    \/ QuietLogs(t) \/ CallLocks(t)
    \/ \E h \in NormalHandlers \cup {NOBODY} : SetsHandler(t, h)
    \/ \E h \in ExtendedHandlers \cup {NOBODY} : SetsExtendedHandler(t, h)
    \/ SetsLevel(t) \/ SetLevelRunsOutOfMemory(t) \/ LogResets(t)
    \/ ShouldLog(t) \/ ReadsKindForPrefix(t) \/ ReadsKind(t)
    \/ CallsHandler(t) \/ HandlerReturns(t)

LogNext == ProcessRestarts \/ \E t \in LogThreads : LogThread(t)

LogSpec == LogInit /\ [][LogNext]_logVars

------------------------------------------------------------------------------

\* Every level stays as it was set last, in whatever order modules were
\* configured and however often: the sorted list that level_for walks holds
\* each module once, and changing the default level changes no other.
LevelsAsConfigured ==
    /\ \A i, j \in DOMAIN g_log.levels :
          i < j => g_log.levels[i].module < g_log.levels[j].module
    /\ \A m \in LogModules \cup {NOBODY} :
          LevelFor(g_log, m) = configured[IF m \in DOMAIN configured THEN m ELSE NOBODY]

\* With messages handled under the lock a handler is called the way its kind
\* is called, whatever other threads set in the meantime.  (Without, the kind
\* and the handler are read at different times and need not match.)
HandlerCalledAsItsKind ==
    \A t \in LogThreads :
        log_pc[t].at = "handling" /\ log_global
            => (log_pc[t].ext <=> log_pc[t].called \in ExtendedHandlers)

\* The lock is not left behind, and nobody waits for a lock of its own; but
\* for one case, a set_level that runs out of memory and logs that under
\* the global buffer's lock.
LockIsReleased ==
    /\ log_owner # NOBODY => log_pc[log_owner].at # "idle"
    /\ \A t \in LogThreads :
          WaitsForItself(t) => log_pc[t].op = "set_level_failed"

\* The log with several threads that log and configure: levels, handlers and
\* the lock.
LogCorrect ==
    /\ LevelsAsConfigured
    /\ HandlerCalledAsItsKind
    /\ LockIsReleased

=============================================================================
