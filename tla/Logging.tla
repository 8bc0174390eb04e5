------------------------------- MODULE Logging -------------------------------
(****************************************************************************)
(* core::logging::LogManager (CORE/BASE/logging.cpp) from the first message *)
(* of a process to the destruction of the manager after main has returned   *)
(* (APP_SHARED/app_main.cpp).                                               *)
(*                                                                          *)
(* Every thread logs by pushing a message into m_messages; one logger       *)
(* thread pops them and writes each to every registered sink.  m_messages   *)
(* is the ConcurrentQueue of that module: what a thread does inside it is   *)
(* the step of that module, and the variables queue .. taken are its.       *)
(*                                                                          *)
(* Sinks are registered, and the logger flushed, by the main thread alone,  *)
(* as in app_main.cpp, TOOLS/protoc/main.cpp and TESTS/main.cpp.            *)
(****************************************************************************)
EXTENDS Naturals, Sequences, FiniteSets

CONSTANTS
    Main,          \* the thread that runs main() and the static destructors
    Worker,        \* other threads that log; nobody joins them
    Logger,        \* m_loggerThread
    Sink,          \* the sinks a process may register
    Level,         \* LL::type
    LevelOf,       \* [App -> Level]: the level a thread logs at
    Accepts,       \* [Sink -> SUBSET Level]: m_levels of a sink
    MaxSize,       \* MAX_LOG_BUFFER
    MaxItems,      \* bound of the model: messages per thread
    Nothing        \* no message in hand

App == {Main} \cup Worker
Thread == App \cup {Logger}

ASSUME LoggerAssumption == Logger \notin App /\ Main \notin Worker
ASSUME NothingAssumption == Nothing \notin Thread \X Nat
ASSUME BoundAssumption == IsFiniteSet(Worker) /\ MaxSize \in Nat \ {0} /\ MaxItems \in Nat
ASSUME LevelAssumption == LevelOf \in [App -> Level] /\ Accepts \in [Sink -> SUBSET Level]

VARIABLES
    queue, open, call, at, asked, sent, taken,   \* m_messages
    sinks,         \* m_sinks, a sequence without repetitions
    logger,        \* where the logger thread is in logFn
    message,       \* the message logFn has popped
    nextWrite,     \* index in m_sinks of the sink logFn writes to next
    main,          \* where the main thread is
    nextFlush,     \* index in m_sinks of the sink the main thread flushes next
    written,       \* history: the messages each sink was given to write
    flushed,       \* history: how many of them its last flush covered
    from,          \* history: messages written before the sink was registered
    logged         \* history: messages pushed when flush or ~LogManager began

queueVars == <<queue, open, call, at, asked, sent, taken>>
loggerVars == <<logger, message, nextWrite>>
mainVars == <<main, nextFlush, logged>>
historyVars == <<written, flushed, from>>
vars == <<queueVars, sinks, loggerVars, mainVars, historyVars>>

PushCall == [kind |-> "push", n |-> 1]
PopCall == [kind |-> "pop", n |-> 0]
WaitEmptyCall == [kind |-> "waitEmpty", n |-> 0]

Program ==
    [t \in Thread |-> CASE t = Logger -> {PopCall}
                        [] t = Main -> {PushCall, WaitEmptyCall}
                        [] OTHER -> {PushCall}]

Messages == INSTANCE ConcurrentQueue WITH Workers <- {Logger}

Init ==
    /\ Messages!Init
    /\ sinks = <<>>
    /\ logger = "open"
    /\ message = Nothing
    /\ nextWrite = 0
    /\ main = "parse"
    /\ nextFlush = 0
    /\ written = [s \in Sink |-> <<>>]
    /\ flushed = [s \in Sink |-> 0]
    /\ from = [s \in Sink |-> 0]
    /\ logged = 0

Registered == {sinks[i] : i \in DOMAIN sinks}

-----------------------------------------------------------------------------
(****************************************************************************)
(* ~LogMessageBuilder: the message goes into the queue.  Until a sink is    *)
(* registered nobody empties the queue, and main logs no more than it holds *)
(* (a handful of lines against MAX_LOG_BUFFER = 16384).  Workers are        *)
(* started by the application, after main has set up logging, and may       *)
(* outlive main.                                                            *)
(****************************************************************************)
Log(t) ==
    /\ \/ t = Main /\ main = "parse" /\ asked[Main] < MaxSize
       \/ t = Main /\ main = "run"
       \/ t \in Worker /\ sinks # <<>> /\ main # "exited"
    /\ Messages!Begin(t, PushCall)
    /\ UNCHANGED <<sinks, loggerVars, mainVars, historyVars>>

(****************************************************************************)
(* A thread goes on inside push or waitEmpty.                               *)
(****************************************************************************)
InQueue(t) ==
    /\ t \in App
    /\ Messages!Step(t)
    /\ UNCHANGED <<sinks, loggerVars, mainVars, historyVars>>

SpuriousWakeup(t) ==
    /\ Messages!SpuriousWakeup(t)
    /\ UNCHANGED <<sinks, loggerVars, mainVars, historyVars>>

-----------------------------------------------------------------------------
(****************************************************************************)
(* logFn.  m_mutex is held over more than one step only by the loop that    *)
(* writes to the sinks.                                                     *)
(****************************************************************************)
LoggerHoldsMutex == logger = "write"

LoggerChecksOpen ==
    /\ logger = "open"
    /\ logger' = IF open THEN "sinks" ELSE "exited"
    /\ UNCHANGED <<queueVars, sinks, message, nextWrite, mainVars, historyVars>>

LoggerEndsWithoutSinks ==
    /\ logger = "sinks"
    /\ sinks = <<>>
    /\ logger' = "exited"
    /\ UNCHANGED <<queueVars, sinks, message, nextWrite, mainVars, historyVars>>

LoggerYields ==
    /\ logger = "sinks"
    /\ sinks = <<>>
    /\ logger' = "open"
    /\ UNCHANGED <<queueVars, sinks, message, nextWrite, mainVars, historyVars>>

LoggerCallsPop ==
    /\ logger = "sinks"
    /\ sinks # <<>>
    /\ Messages!Begin(Logger, PopCall)
    /\ logger' = "pop"
    /\ UNCHANGED <<sinks, message, nextWrite, mainVars, historyVars>>

(****************************************************************************)
(* pop waits, or comes back with a message, or with CANCELED.               *)
(****************************************************************************)
LoggerPops ==
    /\ logger = "pop"
    /\ Messages!Pop(Logger)
    /\ CASE at'[Logger] # "idle" -> UNCHANGED <<logger, message>>
         [] taken' # taken -> logger' = "lock" /\ message' = taken'[Len(taken')]
         [] OTHER -> logger' = "exited" /\ UNCHANGED message
    /\ UNCHANGED <<sinks, nextWrite, mainVars, historyVars>>

LoggerLocks ==
    /\ logger = "lock"
    /\ logger' = "write"
    /\ nextWrite' = 1
    /\ UNCHANGED <<queueVars, sinks, message, mainVars, historyVars>>

(****************************************************************************)
(* iLogSink::log writes what the sink's levels let through.                 *)
(****************************************************************************)
Passes(s, m) == LevelOf[m[1]] \in Accepts[s]

WriteTo(s) ==
    written' = IF Passes(s, message) THEN [written EXCEPT ![s] = Append(@, message)] ELSE written

LoggerWrites ==
    /\ logger = "write"
    /\ nextWrite <= Len(sinks)
    /\ WriteTo(sinks[nextWrite])
    /\ nextWrite' = nextWrite + 1
    /\ UNCHANGED <<queueVars, sinks, logger, message, mainVars, flushed, from>>

LoggerUnlocks ==
    /\ logger = "write"
    /\ nextWrite > Len(sinks)
    /\ logger' = "open"
    /\ message' = Nothing
    /\ UNCHANGED <<queueVars, sinks, nextWrite, mainVars, historyVars>>

LoggerStep ==
    \/ LoggerChecksOpen \/ LoggerYields \/ LoggerCallsPop \/ LoggerPops
    \/ LoggerLocks \/ LoggerWrites \/ LoggerUnlocks

-----------------------------------------------------------------------------
(****************************************************************************)
(* The messages whose turn at the sinks is over: all that were taken, but   *)
(* for the one the logger has in hand.                                      *)
(****************************************************************************)
Dispatched == IF message = Nothing THEN Len(taken) ELSE Len(taken) - 1

MainIdle == at[Main] = "idle"

RegisterSinkTwice(s) ==
    /\ main \in {"parse", "run"}
    /\ MainIdle
    /\ ~ LoggerHoldsMutex
    /\ Len(sinks) < 2
    /\ sinks' = Append(sinks, s)
    /\ from' = [from EXCEPT ![s] = Dispatched]
    /\ main' = "run"
    /\ UNCHANGED <<queueVars, loggerVars, nextFlush, logged, written, flushed>>

RegisterSinkUnlocked(s) ==     \* push_back invalidates the iterator of logFn
    /\ main \in {"parse", "run"}
    /\ MainIdle
    /\ s \notin Registered
    /\ sinks' = Append(sinks, s)
    /\ from' = [from EXCEPT ![s] = Dispatched]
    /\ main' = "run"
    /\ IF LoggerHoldsMutex THEN nextWrite' \in 1 .. Len(sinks) + 1 ELSE UNCHANGED nextWrite
    /\ UNCHANGED <<queueVars, logger, message, nextFlush, logged, written, flushed>>

(****************************************************************************)
(* registerSink, from setupLogging() or later from the application; a sink  *)
(* that is already registered is refused.                                   *)
(****************************************************************************)
RegisterSink(s) ==
    /\ main \in {"parse", "run"}
    /\ MainIdle
    /\ ~ LoggerHoldsMutex
    /\ s \notin Registered
    /\ sinks' = Append(sinks, s)
    /\ from' = [from EXCEPT ![s] = Dispatched]
    /\ main' = "run"
    /\ UNCHANGED <<queueVars, loggerVars, nextFlush, logged, written, flushed>>

(****************************************************************************)
(* LogManager::flush.                                                       *)
(****************************************************************************)
CallFlush ==
    /\ main = "run"
    /\ Messages!Begin(Main, WaitEmptyCall)
    /\ main' = "flush"
    /\ nextFlush' = 0
    /\ logged' = Len(sent)
    /\ UNCHANGED <<sinks, loggerVars, historyVars>>

(****************************************************************************)
(* The loop over m_sinks, in flush once its waitEmpty is over, and in the   *)
(* destructor once the logger thread has been joined.  It takes no mutex.   *)
(****************************************************************************)
FlushLoopEnters ==
    /\ \/ main = "flush" /\ MainIdle
       \/ main = "join" /\ logger = "exited"
    /\ nextFlush = 0
    /\ nextFlush' = 1
    /\ UNCHANGED <<queueVars, sinks, loggerVars, main, logged, historyVars>>

FlushSink ==
    /\ nextFlush \in DOMAIN sinks
    /\ flushed' = [flushed EXCEPT ![sinks[nextFlush]] = Len(written[sinks[nextFlush]])]
    /\ nextFlush' = nextFlush + 1
    /\ UNCHANGED <<queueVars, sinks, loggerVars, main, logged, written, from>>

FlushLoopEnds ==
    /\ nextFlush > Len(sinks)
    /\ main' = IF main = "flush" THEN "run" ELSE "exited"
    /\ nextFlush' = 0
    /\ UNCHANGED <<queueVars, sinks, loggerVars, logged, historyVars>>

(****************************************************************************)
(* main() returns: after ParseFlags has failed and PrintFlags has logged    *)
(* every flag, with no sink registered; or when the application is done.    *)
(* Static destruction then runs ~LogManager.                                *)
(****************************************************************************)
MainReturns ==
    /\ \/ main = "run"
       \/ main = "parse" /\ asked[Main] > 0    \* the manager exists once it is used
    /\ MainIdle
    /\ main' = "return"
    /\ UNCHANGED <<queueVars, sinks, loggerVars, nextFlush, logged, historyVars>>

DestructorClosesEarly ==
    /\ main = "return"
    /\ Messages!Close(Main)
    /\ main' = "join"
    /\ logged' = Len(sent)
    /\ nextFlush' = 0
    /\ UNCHANGED <<sinks, loggerVars, historyVars>>

DestructorWaits ==
    /\ main = "return"
    /\ Messages!Begin(Main, WaitEmptyCall)
    /\ main' = "drain"
    /\ logged' = Len(sent)
    /\ UNCHANGED <<sinks, loggerVars, nextFlush, historyVars>>

DestructorJoinsOpen ==
    /\ main = "drain"
    /\ MainIdle
    /\ main' = "join"
    /\ nextFlush' = 0
    /\ UNCHANGED <<queueVars, sinks, loggerVars, logged, historyVars>>

DestructorCloses ==
    /\ main = "drain"
    /\ Messages!Close(Main)
    /\ main' = "join"
    /\ nextFlush' = 0
    /\ UNCHANGED <<sinks, loggerVars, logged, historyVars>>

MainStep ==
    \/ FlushLoopEnters \/ FlushSink \/ FlushLoopEnds
    \/ DestructorWaits \/ DestructorCloses

-----------------------------------------------------------------------------
Next ==
    \/ \E t \in App : Log(t) \/ InQueue(t)
    \/ \E t \in Thread : SpuriousWakeup(t)
    \/ LoggerStep
    \/ MainStep
    \/ \E s \in Sink : RegisterSink(s)
    \/ CallFlush
    \/ MainReturns

(****************************************************************************)
(* Each thread runs on.  Nothing obliges the application to log, to         *)
(* register, to flush or to return.                                         *)
(****************************************************************************)
Spec ==
    /\ Init /\ [][Next]_vars
    /\ WF_vars(LoggerStep)
    /\ WF_vars(MainStep)
    /\ \A t \in App : WF_vars(InQueue(t))

-----------------------------------------------------------------------------
TypeOK ==
    /\ Messages!TypeOK
    /\ sinks \in Seq(Sink)
    /\ Cardinality(Registered) = Len(sinks)
    /\ logger \in {"open", "sinks", "pop", "lock", "write", "exited"}
    /\ message \in Messages!Item \cup {Nothing}
    /\ message # Nothing <=> logger \in {"lock", "write"}
    /\ main \in {"parse", "run", "flush", "return", "drain", "join", "exited"}
    /\ nextWrite \in 0 .. Len(sinks) + 1
    /\ nextFlush \in 0 .. Len(sinks) + 1
    /\ written \in [Sink -> Seq(Messages!Item)]
    /\ flushed \in [Sink -> Nat] /\ from \in [Sink -> Nat] /\ logged \in Nat

(****************************************************************************)
(* What a sink has to write of the messages after the first i, up to the    *)
(* j-th: those that its levels let through.                                 *)
(****************************************************************************)
Due(s, i, j) ==
    LET due[k \in 0 .. j] ==
          IF k <= i THEN <<>>
          ELSE IF Passes(s, sent[k]) THEN Append(due[k - 1], sent[k]) ELSE due[k - 1]
    IN  due[j]

(****************************************************************************)
(* Each sink is given, from its registration on, every message that passes  *)
(* its levels, once, in the order of the queue, with no gap: whenever it    *)
(* was registered, including between the pop of a message and its write.    *)
(****************************************************************************)
SinkSeesStream ==
    \A i \in DOMAIN sinks :
        written[sinks[i]] =
            Due(sinks[i], from[sinks[i]],
                IF logger = "write" /\ i < nextWrite THEN Dispatched + 1 ELSE Dispatched)

(****************************************************************************)
(* Every message pushed before ~LogManager began has been written to and    *)
(* flushed by every sink when the destructor ends, even though the queue is *)
(* closed as soon as it is empty, with the last message still in the hands  *)
(* of the logger.                                                           *)
(****************************************************************************)
ExitWritesAll ==
    main = "exited" =>
        \A s \in Registered : flushed[s] >= Len(Due(s, from[s], logged))

(****************************************************************************)
(* With a sink registered the destructor gets to its end: the queue drains, *)
(* the logger thread is released from pop and joined.                       *)
(****************************************************************************)
ExitsWithSink == (main = "return" /\ sinks # <<>>) ~> (main = "exited")

(****************************************************************************)
(* Once a sink is registered, every message is taken off the queue and has  *)
(* its turn at the sinks, unless the manager is destroyed first.            *)
(****************************************************************************)
EveryMessageDispatched ==
    \A i \in 1 .. MaxItems * Cardinality(App) :
        (Len(sent) >= i /\ sinks # <<>>) ~> (Dispatched >= i \/ ~ open)

-----------------------------------------------------------------------------
(****************************************************************************)
(* logging.h:155 of FlushLogger: "Flush all pending log messages."  When    *)
(* flush returns, what was logged before it was called has been written to  *)
(* and flushed by every sink.                                               *)
(****************************************************************************)
FlushFlushesAll ==
    [][main = "flush" /\ main' = "run" =>
          \A s \in Registered : flushed'[s] >= Len(Due(s, from[s], logged))]_vars

(****************************************************************************)
(* app_main.h:16: a program started with flags it does not know exits with  *)
(* INVALID_FLAGS.  In general, when main has returned the process ends.     *)
(****************************************************************************)
MainReturnEndsProcess == (main = "return") ~> (main = "exited")
=============================================================================
