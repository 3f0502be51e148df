------------------------------- MODULE Registry -------------------------------
(***************************************************************************)
(* origin::logging::Registry (internal/registry.cpp) and the functions of  *)
(* logging.cpp and c/logging_c.cpp over it: the map of loggers, the root   *)
(* logger, the settings for all loggers and the root task pool, with the   *)
(* life time of the loggers, which shared_ptrs keep alive.                 *)
(*                                                                         *)
(* A critical section of _loggerMapMtx that touches the registry only is   *)
(* one action, which needs the mutex free; one that visits loggers in turn *)
(* holds the mutex from action to action.                                  *)
(***************************************************************************)
EXTENDS Naturals, FiniteSets

CONSTANTS
    Thread,     \* the threads of the application
    Logger,     \* the loggers that are ever constructed
    NameOf,     \* NameOf[l]: the name of l
    Async,      \* those that are AsyncLoggers
    FirstRoot,  \* the logger that the registry constructs for itself
    Field,      \* the settings: "format", "level", "flush"
    Value,      \* their values
    Calls,      \* Calls[t]: the calls of several steps that thread t makes
    MaxPools,   \* bound of the task pools over time
    MaxHeld,    \* bound of the loggers that the application keeps at a time
    None        \* nullptr, and the mutex when nobody holds it

\* a call is named after its first step: op "looked" is the constructor of an
\* AsyncLogger after its first look at the pool, "removed" is shutdown half done
Op == {"idle", "looked", "log", "raw", "init", "set_all", "flush_all", "pattern", "removed"}

ASSUME RegistryAssumption ==
    /\ FirstRoot \in Logger \ Async /\ Async \subseteq Logger
    /\ Field # {} /\ Field \subseteq {"format", "level", "flush"}
    /\ MaxPools \in Nat /\ MaxHeld \in Nat
    /\ None \notin Logger \cup Thread \cup Value
    /\ Calls \in [Thread -> SUBSET Op]
    /\ DOMAIN NameOf = Logger

VARIABLES
    entries,   \* _loggers: records of the logger that owns the characters of
               \* the key, a string_view, and the logger under that key
    root,      \* _rootLogger
    global,    \* _globalFormatter, _globalLevel, _globalFlushLevel
    setting,   \* setting[l]: the formatter of l's sinks, _level, _flushLevel
    mutex,     \* _loggerMapMtx: the thread that holds it, or None
    pool,      \* _rootTaskPool: its number, or 0
    pools,     \* how many task pools there have been
    kept,      \* the pools of which the application keeps a shared_ptr
    poolOf,    \* poolOf[l]: the number of the pool of _taskPool of l, or 0
    fresh,     \* the loggers not yet constructed
    held,      \* the loggers of which the application keeps a shared_ptr
    call,      \* call[t]: where thread t stands
    governed,  \* history: the settings that the registry wrote last, in the map
    latest,    \* history: the loggers that a map with keys of its own would have;
               \* {None} from the first change that meets a key whose owner is
               \* destroyed to the next remove_all
    exposed,   \* history: asynchronous loggers that came into the map without
               \* their pool, or with the root pool between the two halves of a
               \* shutdown, or whose pool the application let go as its last owner
    fault      \* history: what a call dereferenced that is not there, or that
               \* it locked the mutex twice

mapping == <<entries, root, latest, exposed>>
registered == <<mapping, governed>>
pooled == <<pool, pools, kept, poolOf>>
vars == <<registered, global, setting, mutex, pooled, fresh, held, call, fault>>

Names == {NameOf[l] : l \in Logger}
Pair(l) == {l} \X Field

\* flag: the call is log or flush (op log, raw); autoRegister (op init)
Call == [op : Op, logger : Logger \cup {None}, field : Field, value : Value \cup {None},
         flag : BOOLEAN, todo : SUBSET (Logger \cup Field)]
Idle == [op |-> "idle", logger |-> None, field |-> CHOOSE f \in Field : TRUE, value |-> None,
         flag |-> FALSE, todo |-> {}]
At(t, op) == call[t].op = op

\* thread t is free to make the call c
Starts(t, c) ==
    /\ At(t, "idle") /\ c.op \in Calls[t]
    /\ call' = [call EXCEPT ![t] = c]

Listed(es) == {e.val : e \in es}

\* the loggers that some shared_ptr keeps alive: a raw pointer and a key do not
Alive == held \cup Listed(entries) \cup ({root} \ {None})
         \cup {call[t].logger : t \in {u \in Thread : call[u].op \in {"looked", "log", "init"}}}

\* a pool lives as long as the registry or the application keeps it; a logger
\* has a weak_ptr
Living == ({pool} \ {0}) \cup kept
PoolAlive(l) == poolOf[l] \in Living

Init ==
    /\ entries = {[key |-> FirstRoot, val |-> FirstRoot]}
    /\ root = FirstRoot
    /\ \E v \in Value :
         /\ global = [f \in Field |-> v]
         /\ setting = [l \in Logger |-> [f \in Field |-> v]]
    /\ mutex = None
    /\ pool = 0 /\ pools = 0 /\ kept = {}
    /\ poolOf = [l \in Logger |-> 0]
    /\ fresh = Logger \ {FirstRoot}
    /\ held = {}
    /\ call = [t \in Thread |-> Idle]
    /\ governed = {} /\ latest = {FirstRoot} /\ exposed = {} /\ fault = "none"

------------------------------------------------------------------------------
(* Loggers and their settings.                                              *)

\* the application keeps a shared_ptr of l
Hold(l) == held' = held \cup ({l} \ {None}) /\ Cardinality(held') <= MaxHeld

NewSyncLogger(l) ==
    /\ l \in fresh \ Async
    /\ fresh' = fresh \ {l}
    /\ Hold(l)
    /\ UNCHANGED <<registered, global, setting, mutex, pooled, call, fault>>

\* AsyncLoggerImpl asks for the root pool, and throws if there is none, ...
NewAsyncLogger(t, l) ==
    /\ l \in fresh \cap Async
    /\ pool # 0
    /\ fresh' = fresh \ {l}
    /\ Starts(t, [Idle EXCEPT !.op = "looked", !.logger = l])
    /\ UNCHANGED <<registered, global, setting, mutex, pooled, held, fault>>

\* ... and asks a second time for the one it keeps
TakePool(t) ==
    /\ At(t, "looked")
    /\ poolOf' = [poolOf EXCEPT ![call[t].logger] = pool]
    /\ Hold(call[t].logger)
    /\ call' = [call EXCEPT ![t] = Idle]
    /\ UNCHANGED <<registered, global, setting, mutex, pool, pools, kept, fresh, fault>>

\* over a pool of the application, a weak_ptr: it throws if the pool has expired
NewAsyncLoggerOver(l, p) ==
    /\ l \in fresh \cap Async
    /\ p \in Living
    /\ fresh' = fresh \ {l}
    /\ poolOf' = [poolOf EXCEPT ![l] = p]
    /\ Hold(l)
    /\ UNCHANGED <<registered, global, setting, mutex, pool, pools, kept, call, fault>>

\* the application lets a logger go
Drop(l) ==
    /\ l \in held
    /\ held' = held \ {l}
    /\ UNCHANGED <<registered, global, setting, mutex, pooled, fresh, call, fault>>

\* set_level, flush_on and set_formatter of a logger that the caller holds
SetOwn(l, f, v) ==
    /\ l \in held
    /\ setting' = [setting EXCEPT ![l][f] = v]
    /\ governed' = governed \ {<<l, f>>}
    /\ UNCHANGED <<mapping, global, mutex, pooled, fresh, held, call, fault>>

------------------------------------------------------------------------------
(* The map.                                                                 *)

NoEntry == [key |-> None, val |-> None]

\* what _loggers.find may return for the name: the key of an entry whose owner
\* is destroyed is freed memory, which may or may not still compare equal
Found(name) ==
    LET same == {e \in entries : NameOf[e.key] = name}
    IN  same \cup (IF \E e \in same : e.key \in Alive THEN {} ELSE {NoEntry})

Entry(k, l) == [key |-> k, val |-> l]

ShuttingDown == \E t \in Thread : At(t, "removed")

\* l enters the map without its pool, or with one that a shutdown is about to drop
EntersExposed(l) == ~ PoolAlive(l) \/ (ShuttingDown /\ poolOf[l] = pool)

\* the map becomes es, in which l is new (None: no logger is)
Register(es, l) ==
    /\ entries' = es
    /\ governed' = {p \in governed : p[1] \in Listed(es)}
    /\ exposed' = ((exposed \cap Listed(es)) \ {l}) \cup {k \in {l} \cap Async : EntersExposed(k)}

\* what a map with keys of its own has under a name, and what it becomes
KeysAlive == \A e \in entries : e.key \in Alive
Under(name) == {l \in latest : NameOf[l] = name}
Latest(ls) == latest' = IF KeysAlive /\ None \notin latest THEN ls ELSE {None}

\* register_or_replace_logger_it: operator[] keeps the key that is there
RegisterOrReplaceIt(l) ==
    /\ \E e \in Found(NameOf[l]) :
         Register(IF e = NoEntry THEN entries \cup {Entry(l, l)}
                                 ELSE (entries \ {e}) \cup {Entry(e.key, l)}, l)
    /\ Latest((latest \ Under(NameOf[l])) \cup {l})

RegisterLogger(l) ==
    /\ mutex = None /\ l \in held
    /\ \E e \in Found(NameOf[l]) :
         IF e = NoEntry THEN Register(entries \cup {Entry(l, l)}, l)
                        ELSE UNCHANGED <<entries, governed, exposed>>
    /\ Latest(IF Under(NameOf[l]) = {} THEN latest \cup {l} ELSE latest)
    /\ UNCHANGED <<root, global, setting, mutex, pooled, fresh, held, call, fault>>

RegisterOrReplaceLogger(l) ==
    /\ mutex = None /\ l \in held
    /\ RegisterOrReplaceIt(l)
    /\ UNCHANGED <<root, global, setting, mutex, pooled, fresh, held, call, fault>>

SetRootLogger(l) ==
    /\ mutex = None /\ l \in held
    /\ RegisterOrReplaceIt(l)
    /\ root' = l
    /\ UNCHANGED <<global, setting, mutex, pooled, fresh, held, call, fault>>

\* mutant: the root logger survives its removal
RemoveLoggerKeepRoot(name) ==
    /\ mutex = None
    /\ \E e \in Found(name) : Register(entries \ {e}, None)
    /\ Latest(latest \ Under(name))
    /\ UNCHANGED <<root, global, setting, mutex, pooled, fresh, held, call, fault>>

RemoveLogger(name) ==
    /\ mutex = None
    /\ \E e \in Found(name) : Register(entries \ {e}, None)
    /\ Latest(latest \ Under(name))
    /\ root' = IF root # None /\ NameOf[root] = name THEN None ELSE root
    /\ UNCHANGED <<global, setting, mutex, pooled, fresh, held, call, fault>>

\* remove_all, alone and as the first half of shutdown
RemoveAllIt ==
    /\ mutex = None
    /\ root' = None
    /\ Register({}, None)
    /\ latest' = {}

RemoveAll ==
    /\ RemoveAllIt
    /\ UNCHANGED <<global, setting, mutex, pooled, fresh, held, call, fault>>

\* the caller keeps what get_logger or root_logger returns
Keep(l) ==
    /\ Hold(l)
    /\ UNCHANGED <<registered, global, setting, mutex, pooled, fresh, call, fault>>
GetLogger(name) == mutex = None /\ \E e \in Found(name) : Keep(e.val)
RootLogger == mutex = None /\ Keep(root)

------------------------------------------------------------------------------
(* Calls to the root logger.                                                *)

\* log, trace, ... fatal, and every function of the C interface: a shared_ptr of
\* the root logger lives to the end of the statement
LogOnRoot(t) ==
    /\ mutex = None
    /\ Starts(t, [Idle EXCEPT !.op = "log", !.logger = root, !.flag = TRUE])
    /\ UNCHANGED <<registered, global, setting, mutex, pooled, fresh, held, fault>>

CSetOnRoot(t, f) ==
    /\ mutex = None
    /\ Starts(t, [Idle EXCEPT !.op = "log", !.logger = root, !.field = f])
    /\ UNCHANGED <<registered, global, setting, mutex, pooled, fresh, held, fault>>

\* flush, set_level, flush_on, set_pattern and set_formatter: root_logger_raw()
\* first, ...
FlushRoot(t) ==
    /\ mutex = None
    /\ Starts(t, [Idle EXCEPT !.op = "raw", !.logger = root, !.flag = TRUE])
    /\ UNCHANGED <<registered, global, setting, mutex, pooled, fresh, held, fault>>
SetOnRoot(t, f) ==
    /\ mutex = None
    /\ Starts(t, [Idle EXCEPT !.op = "raw", !.logger = root, !.field = f])
    /\ UNCHANGED <<registered, global, setting, mutex, pooled, fresh, held, fault>>

\* ... and then the call through the pointer, whatever has become of the logger.
\* Nothing looks at the value of a setting before this step, which chooses it.
UseRoot(t) ==
    LET l == call[t].logger IN
    /\ call[t].op \in {"log", "raw"}
    /\ fault' = IF l = None THEN "null logger"
                ELSE IF l \notin Alive THEN "dead logger"
                ELSE IF call[t].flag /\ l \in Async /\ ~ PoolAlive(l) THEN "no pool"
                ELSE fault
    /\ IF fault' = fault /\ ~ call[t].flag
       THEN /\ \E v \in Value : setting' = [setting EXCEPT ![l][call[t].field] = v]
            /\ governed' = governed \ {<<l, call[t].field>>}
       ELSE UNCHANGED <<setting, governed>>
    /\ call' = [call EXCEPT ![t] = Idle]
    /\ UNCHANGED <<mapping, global, mutex, pooled, fresh, held>>

------------------------------------------------------------------------------
(* Settings for all loggers.                                                *)

LockMap(t, c) ==
    /\ mutex = None
    /\ mutex' = t
    /\ Starts(t, c)
Release(t) ==
    /\ mutex' = None
    /\ call' = [call EXCEPT ![t] = Idle]

\* initialize_logger: the settings one after the other, then the map
InitializeLogger(t, l, autoRegister) ==
    /\ l \in held
    /\ LockMap(t, [Idle EXCEPT !.op = "init", !.logger = l, !.flag = autoRegister, !.todo = Field])
    /\ UNCHANGED <<registered, global, setting, pooled, fresh, held, fault>>

NextField(todo) ==
    IF "format" \in todo THEN "format" ELSE IF "level" \in todo THEN "level" ELSE "flush"

InitializeField(t) ==
    LET l == call[t].logger  f == NextField(call[t].todo) IN
    /\ At(t, "init") /\ call[t].todo # {}
    /\ setting' = [setting EXCEPT ![l][f] = global[f]]
    /\ governed' = governed \cup {<<l, f>>}
    /\ call' = [call EXCEPT ![t].todo = @ \ {f}]
    /\ UNCHANGED <<mapping, global, mutex, pooled, fresh, held, fault>>

InitializeRegister(t) ==
    /\ At(t, "init") /\ call[t].todo = {}
    /\ IF call[t].flag THEN RegisterOrReplaceIt(call[t].logger) ELSE Register(entries, None) /\ UNCHANGED latest
    /\ Release(t)
    /\ UNCHANGED <<root, global, setting, pooled, fresh, held, fault>>

\* set_level_all, flush_on_all and set_formatter_all
SetAll(t, f, v) ==
    /\ LockMap(t, [Idle EXCEPT !.op = "set_all", !.field = f, !.value = v, !.todo = Listed(entries)])
    /\ global' = [global EXCEPT ![f] = v]
    /\ UNCHANGED <<registered, setting, pooled, fresh, held, fault>>

\* mutant: the first logger is set, and the others are not
SetNextOnly(t) ==
    /\ At(t, "set_all")
    /\ IF call[t].todo = {}
       THEN Release(t) /\ UNCHANGED <<setting, governed>>
       ELSE \E l \in call[t].todo :
              /\ setting' = [setting EXCEPT ![l][call[t].field] = call[t].value]
              /\ governed' = governed \cup {<<l, call[t].field>>}
              /\ Release(t)
    /\ UNCHANGED <<mapping, global, pooled, fresh, held, fault>>

SetNext(t) ==
    /\ At(t, "set_all")
    /\ IF call[t].todo = {}
       THEN Release(t) /\ UNCHANGED <<setting, governed>>
       ELSE \E l \in call[t].todo :
              /\ setting' = [setting EXCEPT ![l][call[t].field] = call[t].value]
              /\ governed' = governed \cup {<<l, call[t].field>>}
              /\ call' = [call EXCEPT ![t].todo = @ \ {l}]
              /\ UNCHANGED mutex
    /\ UNCHANGED <<mapping, global, pooled, fresh, held, fault>>

\* set_pattern_all locks the mutex and calls set_formatter_all, which locks it
\* again: undefined for a std::mutex, and a wait without end where it waits
SetPatternAll(t) ==
    /\ LockMap(t, [Idle EXCEPT !.op = "pattern"])
    /\ fault' = "locked twice"
    /\ UNCHANGED <<registered, global, setting, pooled, fresh, held>>

FlushAll(t) ==
    /\ LockMap(t, [Idle EXCEPT !.op = "flush_all", !.todo = Listed(entries)])
    /\ UNCHANGED <<registered, global, setting, pooled, fresh, held, fault>>

\* an AsyncLogger flushes through its pool, and does not ask whether it is there
FlushNext(t) ==
    /\ At(t, "flush_all")
    /\ IF call[t].todo = {}
       THEN Release(t) /\ UNCHANGED fault
       ELSE \E l \in call[t].todo :
              /\ fault' = IF l \in Async /\ ~ PoolAlive(l) THEN "no pool" ELSE fault
              /\ call' = [call EXCEPT ![t].todo = @ \ {l}]
              /\ UNCHANGED mutex
    /\ UNCHANGED <<registered, global, setting, pooled, fresh, held>>

------------------------------------------------------------------------------
(* The root task pool and the end.                                          *)

InitRootTaskPool ==
    /\ pools < MaxPools
    /\ IF pool # 0 THEN UNCHANGED <<pool, pools>> ELSE pools' = pools + 1 /\ pool' = pools'
    /\ UNCHANGED <<registered, global, setting, mutex, kept, poolOf, fresh, held, call, fault>>

\* the application makes a pool of its own, keeps what root_task_pool returns, ...
CreateTaskPool ==
    /\ pools < MaxPools
    /\ pools' = pools + 1
    /\ kept' = kept \cup {pools'}
    /\ UNCHANGED <<registered, global, setting, mutex, pool, poolOf, fresh, held, call, fault>>
RootTaskPool ==
    /\ kept' = kept \cup ({pool} \ {0})
    /\ UNCHANGED <<registered, global, setting, mutex, pool, pools, poolOf, fresh, held, call, fault>>

\* ... and lets a pool go, perhaps as its last owner, with loggers in the map
ReleasePool(p) ==
    /\ p \in kept
    /\ kept' = kept \ {p}
    /\ exposed' = exposed \cup (IF p = pool THEN {} ELSE {l \in Listed(entries) \cap Async : poolOf[l] = p})
    /\ UNCHANGED <<entries, root, latest, governed, global, setting, mutex>>
    /\ UNCHANGED <<pool, pools, poolOf, fresh, held, call, fault>>

\* mutant: the pool is dropped before the loggers
ShutdownPoolFirst(t) ==
    /\ Starts(t, [Idle EXCEPT !.op = "removed"])
    /\ pool' = 0
    /\ UNCHANGED <<registered, global, setting, mutex, pools, kept, poolOf, fresh, held, fault>>

\* shutdown: the loggers first, ...
Shutdown(t) ==
    /\ Starts(t, [Idle EXCEPT !.op = "removed"])
    /\ RemoveAllIt
    /\ UNCHANGED <<global, setting, mutex, pooled, fresh, held, fault>>

\* ... then the pool, under a mutex of its own
DropPool(t) ==
    /\ At(t, "removed")
    /\ pool' = 0
    /\ call' = [call EXCEPT ![t] = Idle]
    /\ UNCHANGED <<registered, global, setting, mutex, pools, kept, poolOf, fresh, held, fault>>

RootCall(t) ==
    \/ LogOnRoot(t) \/ FlushRoot(t)
    \/ \E f \in Field : SetOnRoot(t, f) \/ CSetOnRoot(t, f)

\* the functions of logging.h that manage all loggers; those of logging_c.h are
\* the same, and initialize_logger has the parameter that the other leaves out
ManagerCall(t) ==
    \/ FlushAll(t) \/ SetPatternAll(t) \/ Shutdown(t)
    \/ \E l \in Logger : InitializeLogger(t, l, TRUE)
    \/ \E f \in Field, v \in Value : SetAll(t, f, v)
CManagerCall(t) == ManagerCall(t) \/ \E l \in Logger : InitializeLogger(t, l, FALSE)

\* the functions on the map and the pool, in one step: not given to a thread
RegistryCall ==
    \/ \E l \in Logger : RegisterLogger(l) \/ RegisterOrReplaceLogger(l) \/ SetRootLogger(l)
    \/ \E name \in Names : RemoveLogger(name) \/ GetLogger(name)
    \/ RemoveAll \/ RootLogger \/ InitRootTaskPool \/ CreateTaskPool \/ RootTaskPool

\* what a thread in the middle of a call does next
Continue(t) ==
    \/ TakePool(t) \/ UseRoot(t)
    \/ InitializeField(t) \/ InitializeRegister(t) \/ SetNext(t) \/ FlushNext(t) \/ DropPool(t)

\* A fault is undefined behaviour, and ends the model.
Next ==
    /\ fault = "none"
    /\ \/ \E t \in Thread : RootCall(t) \/ CManagerCall(t) \/ Continue(t)
       \/ RegistryCall
       \/ \E l \in Logger :
            \/ NewSyncLogger(l) \/ Drop(l)
            \/ \E t \in Thread : NewAsyncLogger(t, l)
            \/ \E p \in 1..pools : NewAsyncLoggerOver(l, p)
            \/ \E f \in Field, v \in Value : SetOwn(l, f, v)
       \/ \E p \in 1..pools : ReleasePool(p)

Spec == Init /\ [][Next]_vars

------------------------------------------------------------------------------
TypeOK ==
    /\ entries \subseteq [key : Logger, val : Logger]
    /\ root \in Logger \cup {None}
    /\ global \in [Field -> Value]
    /\ setting \in [Logger -> [Field -> Value]]
    /\ mutex \in Thread \cup {None}
    /\ pools \in 0..MaxPools /\ pool \in 0..pools
    /\ kept \subseteq 1..pools /\ poolOf \in [Logger -> 0..pools]
    /\ fresh \subseteq Logger /\ held \subseteq Logger \ fresh
    /\ call \in [Thread -> Call]
    /\ governed \subseteq Logger \X Field
    /\ latest \subseteq Logger \cup {None} /\ exposed \subseteq Async
    /\ fault \in {"none", "null logger", "dead logger", "no pool", "locked twice"}

\* The keys are views of names that loggers own (registry.cpp:182-195). As long
\* as no call that changes the map has met a key whose owner is destroyed, and
\* none is there, a lookup by name finds exactly the logger that was last put
\* under it, or nothing after its removal, and the name of the root logger is
\* taken, by it or by the logger that replaced it in the map alone.
NamesFindLatest ==
    KeysAlive /\ None \notin latest =>
        /\ \A name \in Names :
             {e.val : e \in Found(name)} = IF Under(name) = {} THEN {None} ELSE Under(name)
        /\ root # None => Under(NameOf[root]) # {}

\* Between two critical sections, a setting of a logger in the map that the
\* registry wrote last is the setting for all (registry.cpp:44-91): no logger
\* misses a *_all call that runs while it is initialised or registered.
GovernedFollow ==
    mutex = None => \A p \in governed : setting[p[1]][p[2]] = global[p[2]]

\* flush_all finds the pool of every asynchronous logger it visits, the root
\* pool or one of the application, because shutdown empties the map before it
\* drops the root pool (registry.cpp:101-111); but not of a logger that came into
\* the map without its pool or, with the root pool, between the two halves of a
\* shutdown, nor of one whose pool the application let go as its last owner.
FlushAllFindsPools ==
    \A t \in Thread : At(t, "flush_all") => \A l \in call[t].todo \cap Async : l \in exposed \/ PoolAlive(l)
==============================================================================
