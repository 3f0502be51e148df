---------------------------- MODULE Registry_proof ----------------------------
(***************************************************************************)
(* Theorems about Registry, for any threads, loggers, names and settings:  *)
(* whatever calls interleave, the map, the root logger, the settings for   *)
(* all loggers and the pools of asynchronous loggers stay in step.         *)
(***************************************************************************)
EXTENDS Registry, TLAPS

------------------------------------------------------------------------------
(* The inductive invariant.                                                 *)

\* A logger in the map, in _rootLogger or in the hands of a call has been
\* constructed.
Constructed ==
    /\ \A l \in Listed(entries) : l \notin fresh
    /\ root \notin fresh
    /\ \A t \in Thread : call[t].logger \notin fresh

\* The calls that hold the mutex from step to step, and only they.
Locking == {"init", "set_all", "flush_all", "pattern"}
HoldsMap == \A t \in Thread : call[t].op \in Locking <=> mutex = t

\* What a call has still to do lies within what it may touch: the fields of a
\* logger, or the loggers of a map that nobody changes meanwhile.
TodoWithin ==
    \A t \in Thread :
        /\ call[t].op \in {"init", "looked"} => call[t].logger \in Logger
        /\ At(t, "init") => call[t].todo \subseteq Field
        /\ call[t].op \in {"set_all", "flush_all"} => call[t].todo \subseteq Listed(entries)

\* A *_all call spreads the setting that is the setting for all.
SpreadsGlobal == \A t \in Thread : At(t, "set_all") => call[t].value = global[call[t].field]

\* The settings that the registry wrote last are of loggers in the map, or of
\* the one that is being initialised.
GovernedListed ==
    \A p \in governed :
        \/ p[1] \in Listed(entries)
        \/ \E t \in Thread : At(t, "init") /\ p[1] = call[t].logger

\* Each of them is the setting for all, but for those that a *_all call has
\* still to write.
Following ==
    \A p \in governed :
        \/ setting[p[1]][p[2]] = global[p[2]]
        \/ \E t \in Thread : At(t, "set_all") /\ p[2] = call[t].field /\ p[1] \in call[t].todo

\* An asynchronous logger of the map that is not exposed has its pool, which is
\* not one that a shutdown is about to drop.
ServedOrExposed ==
    \A l \in Listed(entries) \cap Async : l \in exposed \/ ~ EntersExposed(l)

\* The loggers that are not constructed, or only by half, have no pool yet, and
\* each is constructed by one call.
Unfinished ==
    /\ \A l \in fresh : poolOf[l] = 0
    /\ \A t \in Thread : At(t, "looked") =>
         /\ poolOf[call[t].logger] = 0
         /\ \A u \in Thread \ {t} : At(u, "looked") => call[u].logger # call[t].logger

\* The name of the root logger is that of an entry; a key is the name of the
\* logger under it; and as long as no change of the map met a dangling key, the
\* map has one entry for a name, with the logger that was put there last.
RootNamed == root # None => \E e \in entries : NameOf[e.key] = NameOf[root]
KeysKept ==
    /\ \A e \in entries : NameOf[e.key] = NameOf[e.val]
    /\ None \notin latest =>
         /\ Listed(entries) = latest
         /\ \A d, e \in entries : NameOf[d.key] = NameOf[e.key] => d = e
MapKept == RootNamed /\ KeysKept

IInv ==
    /\ TypeOK
    /\ Constructed
    /\ HoldsMap
    /\ TodoWithin
    /\ SpreadsGlobal
    /\ GovernedListed
    /\ Following
    /\ ServedOrExposed
    /\ Unfinished
    /\ MapKept

------------------------------------------------------------------------------
(* Facts about the operators.                                               *)

\* The field of a call that has none.
LEMMA SomeField == (CHOOSE f \in Field : TRUE) \in Field
BY RegistryAssumption

\* A thread between two calls.
LEMMA IdleCall == Idle \in Call /\ Idle.op = "idle" /\ Idle.logger = None /\ Idle.todo = {}
BY SomeField DEF Idle, Call, Op

\* A setting is one field of one logger.
LEMMA SettingPair ==
    ASSUME NEW p \in Logger \X Field
    PROVE  \E k \in Logger, g \in Field : p = <<k, g>>
OBVIOUS

\* What the lookup finds is an entry of that name, or nothing.
LEMMA FoundEntry ==
    ASSUME NEW name, NEW e \in Found(name)
    PROVE  e = NoEntry \/ (e \in entries /\ NameOf[e.key] = name)
BY DEF Found

\* NoEntry is not in the map.
LEMMA NoEntryNowhere ==
    ASSUME TypeOK
    PROVE  NoEntry \notin entries
BY RegistryAssumption DEF TypeOK, NoEntry

\* While no key dangles, the lookup finds the one entry of that name, with the
\* logger that was put there last, or nothing if there is none.
LEMMA LookupExact ==
    ASSUME TypeOK, KeysKept, KeysAlive, None \notin latest, NEW name, NEW e \in Found(name)
    PROVE  \/ /\ e = NoEntry /\ Under(name) = {}
              /\ \A d \in entries : NameOf[d.key] # name
           \/ /\ e \in entries /\ NameOf[e.key] = name /\ Under(name) = {e.val}
              /\ \A d \in entries : NameOf[d.key] = name => d = e
<1>1. /\ latest = Listed(entries)
      /\ \A d \in entries : NameOf[d.key] = NameOf[d.val] /\ d.key \in Alive
      /\ \A c, d \in entries : NameOf[c.key] = NameOf[d.key] => c = d
  BY DEF KeysKept, KeysAlive
<1>2. CASE e = NoEntry
  <2>1. \A d \in entries : NameOf[d.key] # name
    BY <1>1, <1>2, NoEntryNowhere DEF Found
  <2>2. Under(name) = {}
    BY <1>1, <2>1 DEF Under, Listed
  <2>3. QED
    BY <1>2, <2>1, <2>2
<1>3. CASE e # NoEntry
  <2>1. e \in entries /\ NameOf[e.key] = name
    BY <1>3, FoundEntry
  <2>2. \A d \in entries : NameOf[d.key] = name => d = e
    BY <1>1, <2>1
  <2>3. Under(name) = {e.val}
    BY <1>1, <2>1, <2>2 DEF Under, Listed
  <2>4. QED
    BY <2>1, <2>2, <2>3
<1>4. QED
  BY <1>2, <1>3

\* The entry e, or none, gives way to a new one for the logger l, or to none.
LEMMA KeysKeptBy ==
    ASSUME TypeOK, KeysKept, NEW name, NEW e \in Found(name),
           NEW new \in SUBSET [key : Logger, val : Logger],
           \A n \in new : NameOf[n.key] = name /\ NameOf[n.val] = name,
           \A m, n \in new : m = n,
           entries' = (entries \ {e}) \cup new,
           Latest((latest \ Under(name)) \cup Listed(new))
    PROVE  KeysKept' /\ latest' \subseteq Logger \cup {None}
<1>1. entries \subseteq [key : Logger, val : Logger] /\ latest \subseteq Logger \cup {None}
  BY DEF TypeOK
<1>2. \A d \in entries' : NameOf[d.key] = NameOf[d.val]
  BY DEF KeysKept
<1>3. CASE ~ (KeysAlive /\ None \notin latest)
  BY <1>2, <1>3 DEF Latest, KeysKept
<1>4. CASE KeysAlive /\ None \notin latest
  <2>1. latest = Listed(entries) /\ latest' = (latest \ Under(name)) \cup Listed(new)
    BY <1>4 DEF Latest, KeysKept
  <2>2. \A d \in entries \ {e} : d \in entries /\ NameOf[d.key] # name /\ NameOf[d.val] # name
    BY <1>4, LookupExact DEF KeysKept
  <2>3. Listed(entries') = latest'
    <3>1. Listed(entries \ {e}) = latest \ Under(name)
      <4>1. CASE e = NoEntry
        <5>1. Under(name) = {} /\ entries \ {e} = entries
          BY <1>4, <4>1, LookupExact, NoEntryNowhere
        <5>2. QED
          BY <2>1, <5>1
      <4>2. CASE e # NoEntry
        <5>1. e \in entries /\ NameOf[e.val] = name /\ Under(name) = {e.val}
          BY <1>4, <4>2, LookupExact, FoundEntry DEF KeysKept
        <5>2. Listed(entries) = Listed(entries \ {e}) \cup {e.val}
          BY <5>1 DEF Listed
        <5>3. e.val \notin Listed(entries \ {e})
          BY <2>2, <5>1 DEF Listed
        <5>4. QED
          BY <2>1, <5>1, <5>2, <5>3
      <4>3. QED
        BY <4>1, <4>2
    <3>2. Listed(entries') = Listed(entries \ {e}) \cup Listed(new)
      BY DEF Listed
    <3>3. QED
      BY <2>1, <3>1, <3>2
  <2>4. \A c, d \in entries' : NameOf[c.key] = NameOf[d.key] => c = d
    BY <1>4, <2>2 DEF KeysKept
  <2>5. latest' \subseteq Logger \cup {None}
    BY <1>1, <2>1 DEF Listed
  <2>6. QED
    BY <1>2, <2>3, <2>4, <2>5 DEF KeysKept
<1>5. QED
  BY <1>3, <1>4

\* After a registration with or without replacement, the name of the logger has
\* an entry, every name that had one keeps it, and at most this logger is new.
LEMMA Replaced ==
    ASSUME TypeOK, KeysKept, NEW l \in Logger, RegisterOrReplaceIt(l)
    PROVE  /\ Register(entries', l)
           /\ KeysKept' /\ latest' \subseteq Logger \cup {None}
           /\ entries' \subseteq [key : Logger, val : Logger]
           /\ Listed(entries') \subseteq Listed(entries) \cup {l}
           /\ \E e \in entries' : NameOf[e.key] = NameOf[l]
           /\ \A k \in entries : \E e \in entries' : e.key = k.key
<1>1. PICK e \in Found(NameOf[l]) :
        Register(IF e = NoEntry THEN entries \cup {Entry(l, l)}
                                ELSE (entries \ {e}) \cup {Entry(e.key, l)}, l)
  BY DEF RegisterOrReplaceIt
<1>2. entries' = IF e = NoEntry THEN entries \cup {Entry(l, l)}
                                ELSE (entries \ {e}) \cup {Entry(e.key, l)}
  BY <1>1 DEF Register
<1>3. Register(entries', l)
  BY <1>1, <1>2 DEF Register
<1>4. entries \subseteq [key : Logger, val : Logger]
  BY DEF TypeOK
<1>5. entries' = (entries \ {e}) \cup {Entry(IF e = NoEntry THEN l ELSE e.key, l)}
  BY <1>2, NoEntryNowhere
<1>6. /\ (IF e = NoEntry THEN l ELSE e.key) \in Logger
      /\ NameOf[IF e = NoEntry THEN l ELSE e.key] = NameOf[l]
  BY <1>4, FoundEntry
<1>7. PICK k \in Logger : NameOf[k] = NameOf[l] /\ entries' = (entries \ {e}) \cup {Entry(k, l)}
                         /\ (e = NoEntry \/ k = e.key)
  BY <1>5, <1>6
<1>8. Entry(k, l) \in [key : Logger, val : Logger] /\ Entry(k, l).key = k /\ Entry(k, l).val = l
  BY DEF Entry
<1>9. Listed({Entry(k, l)}) = {l}
  BY <1>8 DEF Listed
<1>10. KeysKept' /\ latest' \subseteq Logger \cup {None}
  <2>1. Latest((latest \ Under(NameOf[l])) \cup Listed({Entry(k, l)}))
    BY <1>9 DEF RegisterOrReplaceIt
  <2>2. QED
    BY <1>7, <1>8, <2>1, KeysKeptBy
<1>11. Listed(entries') \subseteq Listed(entries) \cup {l}
  BY <1>7, <1>8 DEF Listed
<1>12. \A d \in entries : \E e1 \in entries' : e1.key = d.key
  <2> TAKE d \in entries
  <2>1. CASE d = e
    BY <1>7, <1>8, <2>1, NoEntryNowhere
  <2>2. CASE d # e
    BY <1>7, <2>2
  <2>3. QED
    BY <2>1, <2>2
<1>13. QED
  BY <1>3, <1>4, <1>7, <1>8, <1>10, <1>11, <1>12

------------------------------------------------------------------------------
(* Steps that leave the map, the settings and the pools alone.              *)

\* Loggers are constructed, kept and dropped by the application.
LEMMA ObjectsIInv ==
    ASSUME IInv, UNCHANGED <<entries, root, exposed, governed>>,
           UNCHANGED <<global, setting, mutex, pooled, call, fault>>, latest' \in {latest, {None}},
           fresh' \subseteq fresh, held' \subseteq Logger \ fresh'
    PROVE  IInv'
<1>1. UNCHANGED <<entries, root, exposed, governed, pool, pools, kept, poolOf>>
  BY DEF pooled
<1>2. TypeOK'
  BY <1>1 DEF IInv, TypeOK
<1>3. Constructed'
  BY <1>1 DEF IInv, Constructed, Listed
<1>4. HoldsMap' /\ TodoWithin' /\ SpreadsGlobal'
  BY <1>1 DEF IInv, HoldsMap, TodoWithin, SpreadsGlobal, At, Listed
<1>5. GovernedListed' /\ Following'
  BY <1>1 DEF IInv, GovernedListed, Following, At, Listed
<1>6. ServedOrExposed'
  BY <1>1 DEF IInv, ServedOrExposed, EntersExposed, PoolAlive, Living, ShuttingDown, At, Listed
<1>7. Unfinished'
  BY <1>1 DEF IInv, Unfinished, At
<1>8. MapKept'
  BY <1>1 DEF IInv, MapKept, RootNamed, KeysKept, Listed
<1>9. QED
  BY <1>2, <1>3, <1>4, <1>5, <1>6, <1>7, <1>8 DEF IInv

\* Pools are made, kept and let go; a logger may be new.
LEMMA PoolsIInv ==
    ASSUME IInv, UNCHANGED <<entries, root, latest, governed, global, setting, mutex, call, fault>>,
           fresh' \subseteq fresh, held' \subseteq Logger \ fresh', exposed' \subseteq Async,
           pools' \in 0..MaxPools, pool' \in 0..pools', kept' \subseteq 1..pools',
           poolOf' \in [Logger -> 0..pools'],
           ServedOrExposed', Unfinished'
    PROVE  IInv'
<1>1. TypeOK'
  BY DEF IInv, TypeOK
<1>2. Constructed'
  BY DEF IInv, Constructed, Listed
<1>3. HoldsMap' /\ TodoWithin' /\ SpreadsGlobal'
  BY DEF IInv, HoldsMap, TodoWithin, SpreadsGlobal, At, Listed
<1>4. GovernedListed' /\ Following'
  BY DEF IInv, GovernedListed, Following, At, Listed
<1>5. MapKept'
  BY DEF IInv, MapKept, RootNamed, KeysKept, Listed
<1>6. QED
  BY <1>1, <1>2, <1>3, <1>4, <1>5 DEF IInv

\* An idle thread begins the call c, which takes the mutex if it is one of
\* those that hold it.
LEMMA BeginIInv ==
    ASSUME IInv, NEW t \in Thread, NEW c \in Call, At(t, "idle"),
           call' = [call EXCEPT ![t] = c],
           UNCHANGED <<registered, setting, pooled>>,
           fresh' \subseteq fresh, held' \subseteq Logger \ fresh', fault' \in {fault, "locked twice"},
           c.op # "removed", c.logger \notin fresh',
           IF c.op \in Locking THEN mutex = None /\ mutex' = t ELSE mutex' = mutex,
           c.op \in {"init", "looked"} => c.logger \in Logger,
           c.op = "looked" => c.logger \in fresh,
           c.op = "init" => c.todo \subseteq Field,
           c.op \in {"set_all", "flush_all"} => c.todo = Listed(entries),
           IF c.op = "set_all" THEN global' = [global EXCEPT ![c.field] = c.value] /\ c.value \in Value
                               ELSE UNCHANGED global
    PROVE  IInv'
<1>1. UNCHANGED <<entries, root, latest, exposed, governed, pool, pools, kept, poolOf>>
  BY DEF registered, mapping, pooled
<1>2. /\ call \in [Thread -> Call] /\ global \in [Field -> Value] /\ c.field \in Field
      /\ call[t].op = "idle" /\ "idle" \notin Locking
      /\ call'[t] = c /\ \A u \in Thread \ {t} : call'[u] = call[u]
  BY DEF IInv, TypeOK, At, Locking, Call
<1>3. TypeOK'
  <2>1. call' \in [Thread -> Call]
    BY <1>2
  <2>2. global' \in [Field -> Value]
    BY <1>2
  <2>3. QED
    BY <1>1, <2>1, <2>2 DEF IInv, TypeOK
<1>4. Constructed'
  BY <1>1, <1>2 DEF IInv, Constructed, Listed
<1>5. HoldsMap'
  <2> SUFFICES ASSUME NEW u \in Thread PROVE call'[u].op \in Locking <=> mutex' = u
    BY DEF HoldsMap
  <2>1. call[u].op \in Locking <=> mutex = u
    BY DEF IInv, HoldsMap
  <2>2. mutex # t
    BY <1>2 DEF IInv, HoldsMap
  <2>3. None # u
    BY RegistryAssumption
  <2>4. CASE u = t
    BY <1>2, <2>2, <2>4
  <2>5. CASE u # t
    BY <1>2, <2>1, <2>3, <2>5
  <2>6. QED
    BY <2>4, <2>5
<1>6. TodoWithin'
  BY <1>1, <1>2 DEF IInv, TodoWithin, At, Listed
<1>7. c.op = "set_all" => \A u \in Thread : call[u].op \notin Locking
  BY RegistryAssumption DEF IInv, HoldsMap, Locking
<1>8. SpreadsGlobal'
  <2>1. CASE c.op = "set_all"
    <3>1. \A u \in Thread : At(u, "set_all")' => u = t
      BY <1>2, <1>7, <2>1 DEF At, Locking
    <3>2. global'[c.field] = c.value
      BY <1>2, <2>1
    <3>3. QED
      BY <1>2, <3>1, <3>2 DEF SpreadsGlobal
  <2>2. CASE c.op # "set_all"
    BY <1>2, <2>2 DEF IInv, SpreadsGlobal, At
  <2>3. QED
    BY <2>1, <2>2
<1>9. GovernedListed'
  BY <1>1, <1>2 DEF IInv, GovernedListed, At, Listed
<1>10. Following'
  <2> SUFFICES ASSUME NEW p \in governed
               PROVE  \/ setting'[p[1]][p[2]] = global'[p[2]]
                      \/ \E u \in Thread : /\ call'[u].op = "set_all"
                                            /\ p[2] = call'[u].field /\ p[1] \in call'[u].todo
    BY <1>1 DEF Following, At
  <2>1. CASE c.op = "set_all"
    <3>1. setting[p[1]][p[2]] = global[p[2]] /\ p[1] \in Listed(entries) /\ p[2] \in Field
      BY <1>7, <2>1 DEF IInv, TypeOK, Following, GovernedListed, At, Locking
    <3>2. CASE p[2] = c.field
      BY <1>2, <2>1, <3>1, <3>2
    <3>3. CASE p[2] # c.field
      BY <1>2, <2>1, <3>1, <3>3
    <3>4. QED
      BY <3>2, <3>3
  <2>2. CASE c.op # "set_all"
    BY <1>2, <2>2 DEF IInv, Following, At
  <2>3. QED
    BY <2>1, <2>2
<1>11. ServedOrExposed' /\ MapKept'
  <2>1. ShuttingDown' => ShuttingDown
    BY <1>2 DEF ShuttingDown, At
  <2>2. ServedOrExposed'
    BY <1>1, <2>1 DEF IInv, ServedOrExposed, EntersExposed, PoolAlive, Living, Listed
  <2>3. MapKept'
    BY <1>1 DEF IInv, MapKept, RootNamed, KeysKept, Listed
  <2>4. QED
    BY <2>2, <2>3
<1>12. Unfinished'
  <2>1. \A u \in Thread : At(u, "looked") => call[u].logger \notin fresh
    BY DEF IInv, Constructed
  <2>2. QED
    BY <1>1, <1>2, <2>1 DEF IInv, Unfinished, At
<1>13. QED
  BY <1>3, <1>4, <1>5, <1>6, <1>8, <1>9, <1>10, <1>11, <1>12 DEF IInv

------------------------------------------------------------------------------
(* Steps that change the map.                                               *)

\* Whoever changes the map holds the mutex or finds it free, so that no call is
\* spreading a setting or flushing all loggers.
LEMMA NobodyVisits ==
    ASSUME IInv, mutex = None \/ \E t \in Thread : At(t, "init")
    PROVE  \A u \in Thread : call[u].op \notin {"set_all", "flush_all"}
BY RegistryAssumption DEF IInv, HoldsMap, Locking, At

\* A step that leaves the pools of loggers alone, and lets constructors only end.
LEMMA UnfinishedStays ==
    ASSUME Unfinished, UNCHANGED poolOf, fresh' \subseteq fresh,
           \A u \in Thread : At(u, "looked")' => At(u, "looked") /\ call'[u] = call[u]
    PROVE  Unfinished'
<1>1. \A l \in fresh' : poolOf'[l] = 0
  BY DEF Unfinished
<1>2. ASSUME NEW t \in Thread, At(t, "looked")'
      PROVE  /\ poolOf'[call'[t].logger] = 0
             /\ \A u \in Thread \ {t} : At(u, "looked")' => call'[u].logger # call'[t].logger
  BY <1>2 DEF Unfinished
<1>3. QED
  BY <1>1, <1>2 DEF Unfinished, At

\* How a step that changes the map goes on: as one critical section, as the end
\* of initialize_logger, or as the first half of shutdown.
MapStep(l) ==
    \/ mutex = None /\ UNCHANGED <<mutex, call>>
    \/ \E t \in Thread : /\ At(t, "init") /\ l \in {call[t].logger, None} /\ mutex' = None
                         /\ call' = [call EXCEPT ![t] = Idle]
    \/ \E t \in Thread : /\ mutex = None /\ mutex' = None /\ entries' = {} /\ At(t, "idle")
                         /\ call' = [call EXCEPT ![t] = [Idle EXCEPT !.op = "removed"]]

\* The map becomes another one, in which at most the logger l is new.
LEMMA MapIInv ==
    ASSUME IInv, NEW l \in (Logger \ fresh) \cup {None}, Register(entries', l), MapStep(l),
           entries' \subseteq [key : Logger, val : Logger],
           Listed(entries') \subseteq Listed(entries) \cup ({l} \ {None}),
           root' \in {root, None, l}, MapKept', latest' \subseteq Logger \cup {None},
           UNCHANGED <<global, setting, pooled, fresh, held, fault>>
    PROVE  IInv'
<1>1. /\ governed' = {p \in governed : p[1] \in Listed(entries')}
      /\ exposed' = ((exposed \cap Listed(entries')) \ {l}) \cup {k \in {l} \cap Async : EntersExposed(k)}
      /\ UNCHANGED <<pool, pools, kept, poolOf>>
  BY DEF Register, pooled
<1>2. call \in [Thread -> Call] /\ None \notin Logger \cup Thread
  BY RegistryAssumption DEF IInv, TypeOK
<1>3. /\ call' \in [Thread -> Call] /\ mutex' = None
      /\ \A u \in Thread : \/ call'[u] = call[u] /\ call[u].op \notin Locking
                           \/ call'[u] = Idle
                           \/ call'[u] = [Idle EXCEPT !.op = "removed"] /\ entries' = {}
  <2>1. CASE mutex = None /\ UNCHANGED <<mutex, call>>
    BY <1>2, <2>1 DEF IInv, HoldsMap
  <2>2. ASSUME NEW t \in Thread, At(t, "init"), mutex' = None, call' = [call EXCEPT ![t] = Idle]
        PROVE  <1>3!:
    <3>1. mutex = t
      BY <2>2 DEF IInv, HoldsMap, Locking, At
    <3>2. \A u \in Thread \ {t} : call'[u] = call[u] /\ call[u].op \notin Locking
      BY <1>2, <2>2, <3>1 DEF IInv, HoldsMap
    <3>3. QED
      BY <1>2, <2>2, <3>2, IdleCall
  <2>3. ASSUME NEW t \in Thread, mutex = None, mutex' = None, entries' = {},
               call' = [call EXCEPT ![t] = [Idle EXCEPT !.op = "removed"]]
        PROVE  <1>3!:
    <3>1. [Idle EXCEPT !.op = "removed"] \in Call
      BY IdleCall DEF Call, Op
    <3>2. \A u \in Thread : call[u].op \notin Locking
      BY <1>2, <2>3 DEF IInv, HoldsMap
    <3>3. QED
      BY <1>2, <2>3, <3>1, <3>2
  <2>4. QED
    BY <2>1, <2>2, <2>3 DEF MapStep
<1>4. /\ "idle" \notin Locking /\ "removed" \notin Locking
      /\ Idle.op = "idle" /\ Idle.logger = None
      /\ [Idle EXCEPT !.op = "removed"].op = "removed"
      /\ [Idle EXCEPT !.op = "removed"].logger = None
  BY DEF Idle, Locking
<1>5. TypeOK'
  BY <1>1, <1>3 DEF IInv, TypeOK
<1>6. Constructed'
  BY <1>2, <1>3, <1>4 DEF IInv, TypeOK, Constructed
<1>7. HoldsMap'
  BY <1>2, <1>3, <1>4 DEF HoldsMap
<1>8. TodoWithin' /\ SpreadsGlobal'
  BY <1>3, <1>4 DEF IInv, TodoWithin, SpreadsGlobal, At, Locking
<1>9. GovernedListed'
  BY <1>1 DEF GovernedListed
<1>10. Following'
  <2>1. \A u \in Thread : call[u].op # "set_all"
    BY NobodyVisits DEF MapStep
  <2>2. QED
    BY <1>1, <2>1 DEF IInv, Following, At
<1>11. ServedOrExposed'
  <2> SUFFICES ASSUME NEW k \in Listed(entries') \cap Async
               PROVE  k \in exposed' \/ ~ EntersExposed(k)'
    BY DEF ServedOrExposed
  <2>1. ShuttingDown' => ShuttingDown
    BY <1>2, <1>3, <1>4 DEF ShuttingDown, At, Listed
  <2>2. EntersExposed(k)' => EntersExposed(k)
    BY <1>1, <2>1 DEF EntersExposed, PoolAlive, Living
  <2>3. CASE k = l
    BY <1>1, <2>2, <2>3
  <2>4. CASE k # l
    BY <1>1, <2>2, <2>4 DEF IInv, ServedOrExposed
  <2>5. QED
    BY <2>3, <2>4
<1>12. Unfinished'
  BY <1>1, <1>3, <1>4 DEF IInv, Unfinished, At
<1>13. QED
  BY <1>5, <1>6, <1>7, <1>8, <1>9, <1>10, <1>11, <1>12 DEF IInv

------------------------------------------------------------------------------
(* The actions.                                                             *)

\* The calls on the map in one critical section.
LEMMA RegistryCallIInv ==
    ASSUME IInv, RegistryCall
    PROVE  IInv'
<1>1. /\ entries \subseteq [key : Logger, val : Logger]
      /\ held \subseteq Logger \ fresh /\ None \notin Logger
  BY RegistryAssumption DEF IInv, TypeOK
<1>2. ASSUME NEW l \in Logger, RegisterLogger(l)
      PROVE  IInv'
  <2>1. /\ mutex = None /\ l \in held
        /\ UNCHANGED <<root, global, setting, mutex, pooled, fresh, held, call, fault>>
        /\ Latest(IF Under(NameOf[l]) = {} THEN latest \cup {l} ELSE latest)
    BY <1>2 DEF RegisterLogger
  <2>2. PICK e \in Found(NameOf[l]) :
          IF e = NoEntry THEN Register(entries \cup {Entry(l, l)}, l)
                         ELSE UNCHANGED <<entries, governed, exposed>>
    BY <1>2 DEF RegisterLogger
  <2>3. CASE e = NoEntry
    <3>1. entries' = entries \cup {[key |-> l, val |-> l]} /\ Register(entries', l)
      BY <2>2, <2>3 DEF Register, Entry
    <3>2. /\ entries' \subseteq [key : Logger, val : Logger]
          /\ Listed(entries') \subseteq Listed(entries) \cup {l}
          /\ RootNamed'
      BY <1>1, <2>1, <3>1 DEF IInv, MapKept, RootNamed, Listed
    <3>3. KeysKept' /\ latest' \subseteq Logger \cup {None}
      <4>1. Listed({[key |-> l, val |-> l]}) = {l}
        BY DEF Listed
      <4>2. Latest((latest \ Under(NameOf[l])) \cup Listed({[key |-> l, val |-> l]}))
        <5>1. KeysAlive /\ None \notin latest => Under(NameOf[l]) = {}
          BY <2>3, LookupExact, FoundEntry, NoEntryNowhere DEF IInv, MapKept
        <5>2. QED
          BY <2>1, <4>1, <5>1 DEF Latest
      <4>3. entries' = (entries \ {e}) \cup {[key |-> l, val |-> l]}
        BY <2>3, <3>1, NoEntryNowhere DEF IInv
      <4>4. QED
        BY <1>1, <4>2, <4>3, KeysKeptBy DEF IInv, MapKept
    <3>4. QED
      BY <1>1, <2>1, <3>1, <3>2, <3>3, MapIInv DEF MapStep, MapKept
  <2>4. CASE e # NoEntry
    <3>1. latest' \in {latest, {None}}
      BY <2>1, <2>4, LookupExact DEF IInv, MapKept, Latest
    <3>2. held' \subseteq Logger \ fresh' /\ fresh' \subseteq fresh
      BY <1>1, <2>1
    <3>3. QED
      BY <2>1, <2>2, <2>4, <3>1, <3>2, ObjectsIInv
  <2>5. QED
    BY <2>3, <2>4
<1>3. ASSUME NEW l \in Logger, RegisterOrReplaceLogger(l)
      PROVE  IInv'
  <2>1. /\ mutex = None /\ l \in held /\ RegisterOrReplaceIt(l)
        /\ UNCHANGED <<root, global, setting, mutex, pooled, fresh, held, call, fault>>
    BY <1>3 DEF RegisterOrReplaceLogger
  <2>2. MapKept'
    BY <2>1, Replaced DEF IInv, MapKept, RootNamed
  <2>3. QED
    BY <1>1, <2>1, <2>2, Replaced, MapIInv DEF MapStep, IInv, MapKept
<1>4. ASSUME NEW l \in Logger, SetRootLogger(l)
      PROVE  IInv'
  <2>1. /\ mutex = None /\ l \in held /\ RegisterOrReplaceIt(l) /\ root' = l
        /\ UNCHANGED <<global, setting, mutex, pooled, fresh, held, call, fault>>
    BY <1>4 DEF SetRootLogger
  <2>2. MapKept'
    BY <2>1, Replaced DEF IInv, MapKept, RootNamed
  <2>3. QED
    BY <1>1, <2>1, <2>2, Replaced, MapIInv DEF MapStep, IInv, MapKept
<1>5. ASSUME NEW name \in Names, RemoveLogger(name)
      PROVE  IInv'
  <2>1. PICK e \in Found(name) : Register(entries \ {e}, None)
    BY <1>5 DEF RemoveLogger
  <2>2. /\ mutex = None /\ entries' = entries \ {e} /\ Register(entries', None)
        /\ Latest(latest \ Under(name))
        /\ root' = IF root # None /\ NameOf[root] = name THEN None ELSE root
        /\ UNCHANGED <<global, setting, mutex, pooled, fresh, held, call, fault>>
    BY <1>5, <2>1 DEF RemoveLogger, Register
  <2>3. e \in entries => NameOf[e.key] = name
    BY FoundEntry, NoEntryNowhere DEF IInv
  <2>4. RootNamed' /\ Listed(entries') \subseteq Listed(entries)
    BY <2>2, <2>3 DEF IInv, MapKept, RootNamed, Listed
  <2>5. KeysKept' /\ latest' \subseteq Logger \cup {None}
    <3>1. Listed({}) = {}
      BY DEF Listed
    <3>2. Latest((latest \ Under(name)) \cup Listed({})) /\ entries' = (entries \ {e}) \cup {}
      BY <2>2, <3>1
    <3>3. QED
      BY <3>2, KeysKeptBy DEF IInv, MapKept
  <2>6. QED
    BY <1>1, <2>2, <2>4, <2>5, MapIInv DEF MapStep, MapKept
<1>6. ASSUME NEW name \in Names, GetLogger(name)
      PROVE  IInv'
  <2>1. PICK e \in Found(name) : Keep(e.val)
    BY <1>6 DEF GetLogger
  <2>2. e.val \in (Logger \ fresh) \cup {None}
    BY <1>1, FoundEntry DEF IInv, Constructed, Listed, NoEntry
  <2>3. QED
    BY <1>1, <2>1, <2>2, ObjectsIInv DEF Keep, Hold, registered, mapping
<1>7. CASE RemoveAll
  <2>1. /\ mutex = None /\ root' = None /\ entries' = {} /\ Register(entries', None) /\ latest' = {}
        /\ UNCHANGED <<global, setting, mutex, pooled, fresh, held, call, fault>>
    BY <1>7 DEF RemoveAll, RemoveAllIt, Register
  <2>2. MapKept' /\ Listed(entries') = {}
    BY <2>1 DEF MapKept, RootNamed, KeysKept, Listed
  <2>3. QED
    BY <2>1, <2>2, MapIInv DEF MapStep
<1>8. CASE RootLogger
  <2>1. root \in (Logger \ fresh) \cup {None}
    BY DEF IInv, TypeOK, Constructed
  <2>2. QED
    BY <1>1, <1>8, <2>1, ObjectsIInv DEF RootLogger, Keep, Hold, registered, mapping
<1>9. /\ pools \in 0..MaxPools /\ pool \in 0..pools /\ kept \subseteq 1..pools
      /\ poolOf \in [Logger -> 0..pools] /\ MaxPools \in Nat /\ Async \subseteq Logger
      /\ exposed \subseteq Async /\ fresh \subseteq fresh
  BY RegistryAssumption DEF IInv, TypeOK
<1>10. CASE InitRootTaskPool
  <2>1. UNCHANGED <<entries, root, latest, exposed, governed, global, setting, mutex, kept, poolOf, fresh, held, call, fault>>
    BY <1>10 DEF InitRootTaskPool, registered, mapping
  <2>2. pools' \in 0..MaxPools /\ pool' \in 0..pools' /\ kept' \subseteq 1..pools' /\ poolOf' \in [Logger -> 0..pools']
    BY <1>9, <1>10, <2>1 DEF InitRootTaskPool
  <2>3. \A l \in Async : EntersExposed(l)' => EntersExposed(l)
    <3>1. ShuttingDown' = ShuttingDown
      BY <2>1 DEF ShuttingDown, At
    <3>2. pool' = pool \/ (pool = 0 /\ pool' = pools + 1)
      BY <1>10 DEF InitRootTaskPool
    <3>3. pool' = pool \/ \A l \in Async : poolOf[l] # pool'
      BY <1>9, <3>2
    <3>4. Living \subseteq Living'
      BY <2>1, <3>2 DEF Living
    <3>5. QED
      BY <2>1, <3>1, <3>3, <3>4 DEF EntersExposed, PoolAlive
  <2>4. ServedOrExposed' /\ Unfinished'
    BY <2>1, <2>3 DEF IInv, ServedOrExposed, Unfinished, Listed, At
  <2>5. QED
    BY <1>1, <1>9, <2>1, <2>2, <2>4, PoolsIInv
<1>11. CASE CreateTaskPool \/ RootTaskPool
  <2>1. /\ UNCHANGED <<entries, root, latest, exposed, governed, global, setting, mutex, pool, poolOf, fresh, held, call, fault>>
        /\ kept \subseteq kept'
    BY <1>11 DEF CreateTaskPool, RootTaskPool, registered, mapping
  <2>2. pools' \in 0..MaxPools /\ pool' \in 0..pools' /\ kept' \subseteq 1..pools' /\ poolOf' \in [Logger -> 0..pools']
    BY <1>9, <1>11, <2>1 DEF CreateTaskPool, RootTaskPool
  <2>3. ServedOrExposed'
    <3>1. ShuttingDown' = ShuttingDown /\ Living \subseteq Living'
      BY <2>1 DEF ShuttingDown, At, Living
    <3>2. QED
      BY <2>1, <3>1 DEF IInv, ServedOrExposed, EntersExposed, PoolAlive, Listed
  <2>4. Unfinished'
    BY <2>1 DEF IInv, Unfinished, At
  <2>5. QED
    BY <1>1, <1>9, <2>1, <2>2, <2>3, <2>4, PoolsIInv
<1>12. QED
  BY <1>2, <1>3, <1>4, <1>5, <1>6, <1>7, <1>8, <1>10, <1>11 DEF RegistryCall

\* The application lets a pool go: the loggers over it are exposed, unless the
\* registry keeps the pool.
LEMMA ReleasePoolIInv ==
    ASSUME IInv, NEW p, ReleasePool(p)
    PROVE  IInv'
<1>1. /\ UNCHANGED <<entries, root, latest, governed, global, setting, mutex, pool, pools, poolOf, fresh, held, call, fault>>
      /\ kept' = kept \ {p}
      /\ exposed' = exposed \cup (IF p = pool THEN {} ELSE {l \in Listed(entries) \cap Async : poolOf[l] = p})
  BY DEF ReleasePool
<1>2. /\ pools \in 0..MaxPools /\ pool \in 0..pools /\ kept \subseteq 1..pools
      /\ poolOf \in [Logger -> 0..pools] /\ exposed \subseteq Async /\ held \subseteq Logger \ fresh
  BY DEF IInv, TypeOK
<1>3. ServedOrExposed'
  <2> SUFFICES ASSUME NEW l \in Listed(entries) \cap Async, l \notin exposed'
               PROVE  ~ EntersExposed(l)'
    BY <1>1 DEF ServedOrExposed, Listed
  <2>1. ~ EntersExposed(l) /\ (p # pool => poolOf[l] # p)
    BY <1>1 DEF IInv, ServedOrExposed
  <2>2. ShuttingDown' = ShuttingDown
    BY <1>1 DEF ShuttingDown, At
  <2>3. poolOf[l] \in Living'
    <3>1. poolOf[l] \in (({pool} \ {0}) \cup kept)
      BY <2>1 DEF EntersExposed, PoolAlive, Living
    <3>2. poolOf[l] \in ({pool} \ {0}) \/ poolOf[l] \in kept'
      <4>1. CASE p = pool
        BY <1>1, <1>2, <3>1, <4>1
      <4>2. CASE p # pool
        BY <1>1, <2>1, <3>1, <4>2
      <4>3. QED
        BY <4>1, <4>2
    <3>3. QED
      BY <1>1, <3>2 DEF Living
  <2>4. QED
    BY <1>1, <2>1, <2>2, <2>3 DEF EntersExposed, PoolAlive
<1>4. Unfinished'
  BY <1>1 DEF IInv, Unfinished, At
<1>5. exposed' \subseteq Async /\ kept' \subseteq 1..pools'
  BY <1>1, <1>2
<1>6. QED
  BY <1>1, <1>2, <1>3, <1>4, <1>5, PoolsIInv

\* The calls on the root logger begin.
LEMMA RootCallIInv ==
    ASSUME IInv, NEW t \in Thread, RootCall(t)
    PROVE  IInv'
<1>1. /\ held \subseteq Logger \ fresh /\ root \in (Logger \cup {None}) \ fresh
      /\ {"log", "raw"} \subseteq Op \ Locking
  BY RegistryAssumption DEF IInv, TypeOK, Constructed, Op, Locking
<1>2. ASSUME NEW c \in Call, c.op \in {"log", "raw"}, c.logger = root, Starts(t, c),
             UNCHANGED <<registered, global, setting, mutex, pooled, fresh, held, fault>>
      PROVE  IInv'
  BY <1>1, <1>2, BeginIInv DEF Starts
<1>3. CASE LogOnRoot(t)
  <2> DEFINE c == [Idle EXCEPT !.op = "log", !.logger = root, !.flag = TRUE]
  <2>1. c \in Call /\ c.op = "log" /\ c.logger = root
    BY <1>1, SomeField DEF Idle, Call
  <2>2. Starts(t, c) /\ UNCHANGED <<registered, global, setting, mutex, pooled, fresh, held, fault>>
    BY <1>3 DEF LogOnRoot
  <2> HIDE DEF c
  <2>3. QED
    BY <1>2, <2>1, <2>2
<1>4. CASE FlushRoot(t)
  <2> DEFINE c == [Idle EXCEPT !.op = "raw", !.logger = root, !.flag = TRUE]
  <2>1. c \in Call /\ c.op = "raw" /\ c.logger = root
    BY <1>1, SomeField DEF Idle, Call
  <2>2. Starts(t, c) /\ UNCHANGED <<registered, global, setting, mutex, pooled, fresh, held, fault>>
    BY <1>4 DEF FlushRoot
  <2> HIDE DEF c
  <2>3. QED
    BY <1>2, <2>1, <2>2
<1>5. ASSUME NEW f \in Field, CSetOnRoot(t, f)
      PROVE  IInv'
  <2> DEFINE c == [Idle EXCEPT !.op = "log", !.logger = root, !.field = f]
  <2>1. c \in Call /\ c.op = "log" /\ c.logger = root
    BY <1>1, SomeField DEF Idle, Call
  <2>2. Starts(t, c) /\ UNCHANGED <<registered, global, setting, mutex, pooled, fresh, held, fault>>
    BY <1>5 DEF CSetOnRoot
  <2> HIDE DEF c
  <2>3. QED
    BY <1>2, <2>1, <2>2
<1>6. ASSUME NEW f \in Field, SetOnRoot(t, f)
      PROVE  IInv'
  <2> DEFINE c == [Idle EXCEPT !.op = "raw", !.logger = root, !.field = f]
  <2>1. c \in Call /\ c.op = "raw" /\ c.logger = root
    BY <1>1, SomeField DEF Idle, Call
  <2>2. Starts(t, c) /\ UNCHANGED <<registered, global, setting, mutex, pooled, fresh, held, fault>>
    BY <1>6 DEF SetOnRoot
  <2> HIDE DEF c
  <2>3. QED
    BY <1>2, <2>1, <2>2
<1>7. QED
  BY <1>3, <1>4, <1>5, <1>6 DEF RootCall

\* The calls on all loggers begin, with the mutex; shutdown empties the map.
LEMMA ManagerCallIInv ==
    ASSUME IInv, NEW t \in Thread, CManagerCall(t)
    PROVE  IInv'
<1>1. /\ held \subseteq Logger \ fresh /\ None \notin Logger /\ None \notin fresh
      /\ Listed(entries) \subseteq Logger /\ {"init", "set_all", "flush_all", "pattern"} \subseteq Op
  <2>1. held \subseteq Logger \ fresh /\ fresh \subseteq Logger /\ entries \subseteq [key : Logger, val : Logger]
    BY DEF IInv, TypeOK
  <2>2. Listed(entries) \subseteq Logger
    BY <2>1 DEF Listed
  <2>3. QED
    BY <2>1, <2>2, RegistryAssumption DEF Op
<1>2. ASSUME NEW l \in Logger, NEW b \in BOOLEAN, InitializeLogger(t, l, b)
      PROVE  IInv'
  <2> DEFINE c == [Idle EXCEPT !.op = "init", !.logger = l, !.flag = b, !.todo = Field]
  <2>1. c \in Call /\ c.op = "init" /\ c.logger = l /\ c.todo = Field
    BY <1>1, SomeField DEF Idle, Call
  <2>2. /\ l \in held /\ mutex = None /\ mutex' = t /\ Starts(t, c)
        /\ UNCHANGED <<registered, global, setting, pooled, fresh, held, fault>>
    BY <1>2 DEF InitializeLogger, LockMap
  <2> HIDE DEF c
  <2>3. QED
    BY <1>1, <2>1, <2>2, BeginIInv DEF Starts, Locking
<1>3. ASSUME NEW f \in Field, NEW v \in Value, SetAll(t, f, v)
      PROVE  IInv'
  <2> DEFINE c == [Idle EXCEPT !.op = "set_all", !.field = f, !.value = v, !.todo = Listed(entries)]
  <2>1. /\ c \in Call /\ c.op = "set_all" /\ c.logger = None /\ c.todo = Listed(entries)
        /\ c.field = f /\ c.value = v
    BY <1>1, SomeField DEF Idle, Call
  <2>2. /\ mutex = None /\ mutex' = t /\ Starts(t, c) /\ global' = [global EXCEPT ![f] = v]
        /\ UNCHANGED <<registered, setting, pooled, fresh, held, fault>>
    BY <1>3 DEF SetAll, LockMap
  <2> HIDE DEF c
  <2>3. QED
    BY <1>1, <2>1, <2>2, BeginIInv DEF Starts, Locking
<1>4. CASE FlushAll(t)
  <2> DEFINE c == [Idle EXCEPT !.op = "flush_all", !.todo = Listed(entries)]
  <2>1. c \in Call /\ c.op = "flush_all" /\ c.logger = None /\ c.todo = Listed(entries)
    BY <1>1, SomeField DEF Idle, Call
  <2>2. /\ mutex = None /\ mutex' = t /\ Starts(t, c)
        /\ UNCHANGED <<registered, global, setting, pooled, fresh, held, fault>>
    BY <1>4 DEF FlushAll, LockMap
  <2> HIDE DEF c
  <2>3. QED
    BY <1>1, <2>1, <2>2, BeginIInv DEF Starts, Locking
<1>5. CASE SetPatternAll(t)
  <2> DEFINE c == [Idle EXCEPT !.op = "pattern"]
  <2>1. c \in Call /\ c.op = "pattern" /\ c.logger = None
    BY <1>1, SomeField DEF Idle, Call
  <2>2. /\ mutex = None /\ mutex' = t /\ Starts(t, c) /\ fault' = "locked twice"
        /\ UNCHANGED <<registered, global, setting, pooled, fresh, held>>
    BY <1>5 DEF SetPatternAll, LockMap
  <2> HIDE DEF c
  <2>3. QED
    BY <1>1, <2>1, <2>2, BeginIInv DEF Starts, Locking
<1>6. CASE Shutdown(t)
  <2>1. /\ mutex = None /\ root' = None /\ entries' = {} /\ Register(entries', None) /\ At(t, "idle")
        /\ latest' = {}
        /\ call' = [call EXCEPT ![t] = [Idle EXCEPT !.op = "removed"]]
        /\ UNCHANGED <<global, setting, mutex, pooled, fresh, held, fault>>
    BY <1>6 DEF Shutdown, Starts, RemoveAllIt, Register
  <2>2. MapKept' /\ Listed(entries') = {}
    BY <2>1 DEF MapKept, RootNamed, KeysKept, Listed
  <2>3. MapStep(None)
    BY <2>1 DEF MapStep
  <2>4. QED
    BY <2>1, <2>2, <2>3, MapIInv
<1>7. QED
  BY <1>2, <1>3, <1>4, <1>5, <1>6 DEF CManagerCall, ManagerCall

\* A setting is written without the mutex, by the application or at the end of a
\* call on the root logger, and no longer counts as the registry's; or such a
\* call ends without one.
LEMMA UnlockedIInv ==
    ASSUME IInv, UNCHANGED <<mapping, global, mutex, pooled, fresh, held>>,
           fault' \in {fault, "null logger", "dead logger", "no pool"},
           \/ UNCHANGED <<setting, governed>>
           \/ \E l \in Logger, f \in Field, v \in Value :
                 /\ setting' = [setting EXCEPT ![l][f] = v]
                 /\ governed' = governed \ {<<l, f>>},
           \/ UNCHANGED call
           \/ \E t \in Thread : call[t].op \in {"log", "raw"} /\ call' = [call EXCEPT ![t] = Idle]
    PROVE  IInv'
<1>1. /\ call \in [Thread -> Call] /\ None \notin Logger \cup Thread
      /\ UNCHANGED <<entries, root, latest, exposed, pool, pools, kept, poolOf>>
  BY RegistryAssumption DEF IInv, TypeOK, mapping, pooled
<1>2. /\ call' \in [Thread -> Call]
      /\ \A u \in Thread : \/ call'[u] = call[u]
                           \/ call'[u] = Idle /\ call[u].op \in {"log", "raw"}
  BY <1>1, IdleCall
<1>3. governed' \subseteq governed /\ setting' \in [Logger -> [Field -> Value]]
  <2>1. setting \in [Logger -> [Field -> Value]]
    BY DEF IInv, TypeOK
  <2>2. ASSUME NEW l \in Logger, NEW f \in Field, NEW v \in Value,
               setting' = [setting EXCEPT ![l][f] = v]
        PROVE  setting' \in [Logger -> [Field -> Value]]
    BY <2>1, <2>2
  <2>3. QED
    BY <2>1, <2>2
<1>4. \A p \in governed' : setting'[p[1]][p[2]] = setting[p[1]][p[2]]
  <2>1. CASE UNCHANGED <<setting, governed>>
    BY <2>1
  <2>2. ASSUME NEW l \in Logger, NEW f \in Field, NEW v \in Value,
               setting' = [setting EXCEPT ![l][f] = v], governed' = governed \ {<<l, f>>}
        PROVE  <1>4!:
    <3> TAKE p \in governed'
    <3>1. governed \subseteq Logger \X Field /\ p \in governed
      BY <2>2 DEF IInv, TypeOK
    <3>2. PICK k \in Logger, g \in Field : p = <<k, g>>
      BY <3>1, SettingPair
    <3>3. k # l \/ g # f
      BY <2>2, <3>2
    <3>4. setting'[k][g] = setting[k][g]
      BY <2>2, <3>3 DEF IInv, TypeOK
    <3>5. QED
      BY <3>2, <3>4
  <2>3. QED
    BY <2>1, <2>2
<1>5. "idle" \notin Locking /\ "log" \notin Locking /\ "raw" \notin Locking
  BY DEF Locking
<1>6. TypeOK'
  BY <1>1, <1>2, <1>3 DEF IInv, TypeOK
<1>7. Constructed' /\ MapKept'
  BY <1>1, <1>2, IdleCall DEF IInv, TypeOK, Constructed, MapKept, RootNamed, KeysKept, Listed
<1>8. HoldsMap'
  BY <1>2, <1>5, IdleCall DEF IInv, HoldsMap
<1>9. TodoWithin' /\ SpreadsGlobal'
  BY <1>1, <1>2, IdleCall DEF IInv, TodoWithin, SpreadsGlobal, At, Listed
<1>10. GovernedListed'
  <2> SUFFICES ASSUME NEW p \in governed'
               PROVE  \/ p[1] \in Listed(entries)
                      \/ \E u \in Thread : call'[u].op = "init" /\ p[1] = call'[u].logger
    BY <1>1 DEF GovernedListed, At, Listed
  <2>1. \A u \in Thread : call[u].op = "init" => call'[u] = call[u]
    BY <1>2
  <2>2. \/ p[1] \in Listed(entries)
        \/ \E u \in Thread : call[u].op = "init" /\ p[1] = call[u].logger
    BY <1>3 DEF IInv, GovernedListed, At
  <2>3. QED
    BY <2>1, <2>2
<1>11. Following'
  <2> SUFFICES ASSUME NEW p \in governed'
               PROVE  \/ setting'[p[1]][p[2]] = global[p[2]]
                      \/ \E u \in Thread : /\ call'[u].op = "set_all"
                                            /\ p[2] = call'[u].field /\ p[1] \in call'[u].todo
    BY DEF Following, At
  <2>1. \A u \in Thread : call[u].op = "set_all" => call'[u] = call[u]
    BY <1>2
  <2>2. QED
    BY <1>3, <1>4, <2>1 DEF IInv, Following, At
<1>12. ServedOrExposed'
  <2>1. ShuttingDown' => ShuttingDown
    BY <1>2, IdleCall DEF ShuttingDown, At
  <2>2. QED
    BY <1>1, <2>1 DEF IInv, ServedOrExposed, EntersExposed, PoolAlive, Living, Listed
<1>13. Unfinished'
  <2>1. \A u \in Thread : At(u, "looked")' => At(u, "looked") /\ call'[u] = call[u]
    BY <1>2, IdleCall DEF At
  <2>2. QED
    BY <1>1, <2>1, UnfinishedStays DEF IInv
<1>14. QED
  BY <1>6, <1>7, <1>8, <1>9, <1>10, <1>11, <1>12, <1>13 DEF IInv

\* Loggers come and go, and their own settings change.
LEMMA LoggerIInv ==
    ASSUME IInv, NEW l \in Logger,
           \/ NewSyncLogger(l) \/ Drop(l)
           \/ \E t \in Thread : NewAsyncLogger(t, l)
           \/ \E p \in 1..pools : NewAsyncLoggerOver(l, p)
           \/ \E f \in Field, v \in Value : SetOwn(l, f, v)
    PROVE  IInv'
<1>1. held \subseteq Logger \ fresh /\ fresh \subseteq Logger /\ None \notin Logger
  BY RegistryAssumption DEF IInv, TypeOK
<1>2. CASE NewSyncLogger(l) \/ Drop(l)
  BY <1>1, <1>2, ObjectsIInv DEF NewSyncLogger, Drop, Hold, registered, mapping
<1>3. ASSUME NEW t \in Thread, NewAsyncLogger(t, l)
      PROVE  IInv'
  <2> DEFINE c == [Idle EXCEPT !.op = "looked", !.logger = l]
  <2>1. c \in Call /\ c.op = "looked" /\ c.logger = l
    BY SomeField DEF Idle, Call, Op
  <2>2. /\ l \in fresh /\ fresh' = fresh \ {l} /\ Starts(t, c)
        /\ UNCHANGED <<registered, global, setting, mutex, pooled, held, fault>>
    BY <1>3 DEF NewAsyncLogger
  <2> HIDE DEF c
  <2>3. QED
    BY <1>1, <2>1, <2>2, BeginIInv DEF Starts, Locking
<1>4. ASSUME NEW f \in Field, NEW v \in Value, SetOwn(l, f, v)
      PROVE  IInv'
  BY <1>4, UnlockedIInv DEF SetOwn
<1>5. ASSUME NEW p \in 1..pools, NewAsyncLoggerOver(l, p)
      PROVE  IInv'
  <2>1. /\ UNCHANGED <<entries, root, latest, exposed, governed, global, setting, mutex, pool, pools, kept, call, fault>>
        /\ l \in fresh /\ fresh' = fresh \ {l} /\ poolOf' = [poolOf EXCEPT ![l] = p] /\ held' \subseteq held \cup {l}
    BY <1>5 DEF NewAsyncLoggerOver, Hold, registered, mapping
  <2>2. /\ pools \in 0..MaxPools /\ pool \in 0..pools /\ kept \subseteq 1..pools /\ MaxPools \in Nat
        /\ poolOf \in [Logger -> 0..pools] /\ exposed \subseteq Async /\ Async \subseteq Logger
        /\ entries \subseteq [key : Logger, val : Logger]
    BY RegistryAssumption DEF IInv, TypeOK
  <2>3. poolOf' \in [Logger -> 0..pools'] /\ \A k \in Logger \ {l} : poolOf'[k] = poolOf[k]
    BY <1>5, <2>1, <2>2
  <2>4. l \notin Listed(entries) /\ \A t \in Thread : call[t].logger # l
    BY <2>1 DEF IInv, Constructed
  <2>5. ServedOrExposed'
    <3>1. ShuttingDown' = ShuttingDown /\ Living' = Living
      BY <2>1 DEF ShuttingDown, At, Living
    <3>2. QED
      BY <2>1, <2>2, <2>3, <2>4, <3>1 DEF IInv, ServedOrExposed, EntersExposed, PoolAlive, Listed
  <2>6. Unfinished'
    <3>1. \A t \in Thread : At(t, "looked") => call[t].logger \in Logger \ {l}
      BY <2>4 DEF IInv, TodoWithin, At
    <3>2. QED
      BY <1>1, <2>1, <2>3, <3>1 DEF IInv, Unfinished, At
  <2>7. QED
    BY <1>1, <2>1, <2>2, <2>3, <2>5, <2>6, PoolsIInv
<1>6. QED
  BY <1>2, <1>3, <1>4, <1>5

\* There is a next field as long as there are fields to do.
LEMMA NextFieldTodo ==
    ASSUME NEW todo \in SUBSET Field, todo # {}
    PROVE  NextField(todo) \in todo
BY RegistryAssumption DEF NextField

\* The holder of the mutex t goes on in its call, or lets go of the mutex at the
\* end: what that leaves of the invariant for a step that changes neither the
\* map nor the pools.
LEMMA HolderStep ==
    ASSUME IInv, NEW t \in Thread, call[t].op \in {"init", "set_all", "flush_all"},
           UNCHANGED <<mapping, global, pooled, fresh, held>>,
           fault' \in {fault, "no pool"},
           governed' \subseteq Logger \X Field, setting' \in [Logger -> [Field -> Value]],
           \/ mutex' = mutex /\ \E x : call' = [call EXCEPT ![t].todo = call[t].todo \ {x}]
           \/ mutex' = None /\ call' = [call EXCEPT ![t] = Idle]
    PROVE  /\ TypeOK' /\ Constructed' /\ HoldsMap' /\ TodoWithin' /\ SpreadsGlobal'
           /\ ServedOrExposed' /\ Unfinished' /\ MapKept'
           /\ mutex = t /\ \A u \in Thread \ {t} : call[u].op \notin Locking /\ call'[u] = call[u]
<1>1. /\ UNCHANGED <<entries, root, latest, exposed, pool, pools, kept, poolOf>>
      /\ call \in [Thread -> Call] /\ None \notin Logger \cup Thread
      /\ Idle \in Call /\ Idle.op = "idle" /\ Idle.logger = None
      /\ "idle" \notin Locking /\ call[t].op \in Locking
  BY IdleCall, RegistryAssumption DEF IInv, TypeOK, Locking, mapping, pooled
<1>2. mutex = t /\ \A u \in Thread \ {t} : call[u].op \notin Locking
  BY <1>1 DEF IInv, HoldsMap
<1>3. /\ call' \in [Thread -> Call]
      /\ \A u \in Thread \ {t} : call'[u] = call[u]
      /\ \/ /\ mutex' = t
            /\ call'[t].op = call[t].op /\ call'[t].logger = call[t].logger
            /\ call'[t].field = call[t].field /\ call'[t].value = call[t].value
            /\ call'[t].todo \subseteq call[t].todo
         \/ mutex' = None /\ call'[t] = Idle
  <2>1. ASSUME NEW x, mutex' = mutex, call' = [call EXCEPT ![t].todo = call[t].todo \ {x}]
        PROVE  /\ call' \in [Thread -> Call] /\ mutex' = t
               /\ \A u \in Thread \ {t} : call'[u] = call[u]
               /\ call'[t].op = call[t].op /\ call'[t].logger = call[t].logger
               /\ call'[t].field = call[t].field /\ call'[t].value = call[t].value
               /\ call'[t].todo \subseteq call[t].todo
    <3>1. call[t] \in Call /\ mutex' = t
      BY <1>1, <1>2, <2>1
    <3>2. /\ [call[t] EXCEPT !.todo = call[t].todo \ {x}] \in Call
          /\ [call[t] EXCEPT !.todo = call[t].todo \ {x}].todo = call[t].todo \ {x}
      BY <3>1 DEF Call
    <3>3. call' = [call EXCEPT ![t] = [call[t] EXCEPT !.todo = call[t].todo \ {x}]]
      BY <2>1
    <3>4. call' \in [Thread -> Call] /\ \A u \in Thread \ {t} : call'[u] = call[u]
      BY <1>1, <3>2, <3>3
    <3>5. call'[t] = [call[t] EXCEPT !.todo = call[t].todo \ {x}]
      BY <1>1, <3>3
    <3>6. /\ call'[t].op = call[t].op /\ call'[t].logger = call[t].logger
          /\ call'[t].field = call[t].field /\ call'[t].value = call[t].value
      BY <3>1, <3>5 DEF Call
    <3>7. QED
      BY <3>1, <3>2, <3>4, <3>5, <3>6
  <2>2. CASE mutex' = None /\ call' = [call EXCEPT ![t] = Idle]
    BY <1>1, <2>2
  <2>3. QED
    BY <2>1, <2>2
<1>4. TypeOK'
  BY <1>1, <1>2, <1>3 DEF IInv, TypeOK
<1>5. Constructed'
  BY <1>1, <1>3 DEF IInv, TypeOK, Constructed, Listed
<1>6. HoldsMap'
  BY <1>1, <1>2, <1>3 DEF HoldsMap
<1>7. TodoWithin'
  BY <1>1, <1>3 DEF IInv, TodoWithin, At, Listed
<1>8. SpreadsGlobal'
  BY <1>1, <1>3 DEF IInv, SpreadsGlobal, At
<1>9. ServedOrExposed' /\ Unfinished' /\ MapKept'
  <2>1. /\ \A u \in Thread : At(u, "removed")' => At(u, "removed")
        /\ \A u \in Thread : At(u, "looked")' => At(u, "looked") /\ call'[u] = call[u]
    BY <1>1, <1>3 DEF At
  <2>2. ServedOrExposed'
    BY <1>1, <2>1 DEF IInv, ServedOrExposed, EntersExposed, PoolAlive, Living, ShuttingDown, Listed
  <2>3. Unfinished'
    BY <1>1, <2>1, UnfinishedStays DEF IInv
  <2>4. MapKept'
    BY <1>1 DEF IInv, MapKept, RootNamed, KeysKept, Listed
  <2>5. QED
    BY <2>2, <2>3, <2>4
<1>10. QED
  BY <1>2, <1>3, <1>4, <1>5, <1>6, <1>7, <1>8, <1>9

\* initialize_logger gives its logger one more setting.
LEMMA InitializeFieldIInv ==
    ASSUME IInv, NEW t \in Thread, InitializeField(t)
    PROVE  IInv'
<1> DEFINE l == call[t].logger
           f == NextField(call[t].todo)
<1>1. /\ call[t].op = "init" /\ call[t].todo # {}
      /\ setting' = [setting EXCEPT ![l][f] = global[f]]
      /\ governed' = governed \cup {<<l, f>>}
      /\ call' = [call EXCEPT ![t].todo = @ \ {f}]
      /\ UNCHANGED <<mapping, entries, global, mutex, pooled, fresh, held, fault>>
  BY DEF InitializeField, At, mapping
<1>2. l \in Logger /\ f \in Field
  BY <1>1, NextFieldTodo DEF IInv, TodoWithin, At
<1>3. call \in [Thread -> Call] /\ global \in [Field -> Value] /\ setting \in [Logger -> [Field -> Value]]
  BY DEF IInv, TypeOK
<1> HIDE DEF l, f
<1>4. governed' \subseteq Logger \X Field /\ setting' \in [Logger -> [Field -> Value]]
  <2>1. governed \subseteq Logger \X Field
    BY DEF IInv, TypeOK
  <2>2. governed' \subseteq Logger \X Field
    BY <1>1, <1>2, <2>1
  <2>3. setting' \in [Logger -> [Field -> Value]]
    BY <1>1, <1>2, <1>3
  <2>4. QED
    BY <2>2, <2>3
<1>5. call' = [call EXCEPT ![t].todo = call[t].todo \ {f}]
  BY <1>1, <1>3
<1>6. /\ TypeOK' /\ Constructed' /\ HoldsMap' /\ TodoWithin' /\ SpreadsGlobal'
      /\ ServedOrExposed' /\ Unfinished' /\ MapKept'
      /\ \A u \in Thread \ {t} : call[u].op \notin Locking /\ call'[u] = call[u]
  BY <1>1, <1>4, <1>5, HolderStep
<1>7. GovernedListed'
  <2>1. At(t, "init")' /\ call'[t].logger = l
    BY <1>1, <1>3 DEF At, Call, l
  <2>2. \A u \in Thread : At(u, "init") => u = t
    BY <1>6 DEF At, Locking
  <2>3. QED
    BY <1>1, <2>1, <2>2 DEF IInv, GovernedListed, l
<1>8. Following'
  <2>1. \A u \in Thread : call[u].op # "set_all"
    BY <1>1, <1>6 DEF Locking
  <2> SUFFICES ASSUME NEW p \in governed'
               PROVE  setting'[p[1]][p[2]] = global[p[2]]
    BY <1>1 DEF Following
  <2>2. PICK k \in Logger, g \in Field : p = <<k, g>>
    BY <1>4
  <2>3. CASE k = l /\ g = f
    BY <1>1, <1>2, <1>3, <2>2, <2>3
  <2>4. CASE k # l \/ g # f
    <3>1. p \in governed
      BY <1>1, <2>2, <2>4
    <3>2. setting[k][g] = global[g]
      BY <2>1, <2>2, <3>1 DEF IInv, Following, At
    <3>3. QED
      BY <1>1, <1>3, <2>2, <2>4, <3>2
  <2>5. QED
    BY <2>3, <2>4
<1>9. QED
  BY <1>6, <1>7, <1>8 DEF IInv

\* A *_all call gives the setting to one more logger, or ends.
LEMMA SetNextIInv ==
    ASSUME IInv, NEW t \in Thread, SetNext(t)
    PROVE  IInv'
<1> DEFINE f == call[t].field
           v == call[t].value
<1>1. /\ call[t].op = "set_all" /\ call \in [Thread -> Call]
      /\ UNCHANGED <<mapping, entries, global, pooled, fresh, held, fault>>
  BY DEF IInv, TypeOK, SetNext, At, mapping
<1>2. global \in [Field -> Value] /\ setting \in [Logger -> [Field -> Value]] /\ governed \subseteq Logger \X Field
  BY DEF IInv, TypeOK
<1>3. f \in Field /\ v = global[f] /\ v \in Value
  BY <1>1, <1>2 DEF IInv, SpreadsGlobal, At, Call
<1>4. call[t].todo \subseteq Listed(entries) /\ Listed(entries) \subseteq Logger
  <2>1. entries \subseteq [key : Logger, val : Logger]
    BY DEF IInv, TypeOK
  <2>2. QED
    BY <1>1, <2>1 DEF IInv, TodoWithin, Listed
<1>5. CASE call[t].todo = {}
  <2>1. mutex' = None /\ call' = [call EXCEPT ![t] = Idle] /\ UNCHANGED <<setting, governed>>
    BY <1>5 DEF SetNext, Release
  <2>2. /\ TypeOK' /\ Constructed' /\ HoldsMap' /\ TodoWithin' /\ SpreadsGlobal'
        /\ ServedOrExposed' /\ Unfinished' /\ MapKept'
        /\ \A u \in Thread \ {t} : call[u].op \notin Locking /\ call'[u] = call[u]
    BY <1>1, <1>2, <2>1, HolderStep
  <2>3. \A p \in governed : p[1] \in Listed(entries)
    BY <1>1, <2>2 DEF IInv, GovernedListed, At, Locking
  <2>4. \A p \in governed : setting[p[1]][p[2]] = global[p[2]]
    BY <1>1, <1>5, <2>2 DEF IInv, Following, At, Locking
  <2>5. GovernedListed' /\ Following'
    BY <1>1, <2>1, <2>3, <2>4 DEF GovernedListed, Following, Listed
  <2>6. QED
    BY <2>2, <2>5 DEF IInv
<1>6. CASE call[t].todo # {}
  <2>1. PICK l \in call[t].todo :
          /\ setting' = [setting EXCEPT ![l][f] = v]
          /\ governed' = governed \cup {<<l, f>>}
          /\ call' = [call EXCEPT ![t].todo = @ \ {l}]
          /\ UNCHANGED mutex
    BY <1>6 DEF SetNext
  <2> HIDE DEF f, v
  <2>2. l \in Logger /\ call' = [call EXCEPT ![t].todo = call[t].todo \ {l}]
    BY <1>1, <1>4, <2>1
  <2>3. governed' \subseteq Logger \X Field /\ setting' \in [Logger -> [Field -> Value]]
    BY <1>2, <1>3, <2>1, <2>2
  <2>4. /\ TypeOK' /\ Constructed' /\ HoldsMap' /\ TodoWithin' /\ SpreadsGlobal'
        /\ ServedOrExposed' /\ Unfinished' /\ MapKept'
        /\ \A u \in Thread \ {t} : call[u].op \notin Locking /\ call'[u] = call[u]
    BY <1>1, <2>1, <2>2, <2>3, HolderStep
  <2>5. GovernedListed'
    <3>1. \A p \in governed : p[1] \in Listed(entries)
      BY <1>1, <2>4 DEF IInv, GovernedListed, At, Locking
    <3>2. QED
      BY <1>1, <1>4, <2>1, <3>1 DEF GovernedListed, Listed
  <2>6. Following'
    <3>1. call'[t].op = "set_all" /\ call'[t].field = f /\ call'[t].todo = call[t].todo \ {l}
      BY <1>1, <2>2 DEF Call, f
    <3> SUFFICES ASSUME NEW p \in governed'
                 PROVE  setting'[p[1]][p[2]] = global[p[2]] \/ (p[2] = f /\ p[1] \in call[t].todo \ {l})
      BY <1>1, <3>1 DEF Following, At
    <3>2. PICK k \in Logger, g \in Field : p = <<k, g>>
      BY <2>3
    <3>3. CASE k = l /\ g = f
      BY <1>2, <1>3, <2>1, <2>2, <3>2, <3>3
    <3>4. CASE k # l \/ g # f
      <4>1. p \in governed
        BY <2>1, <3>2, <3>4
      <4>2. setting[k][g] = global[g] \/ (g = f /\ k \in call[t].todo)
        BY <2>4, <3>2, <4>1 DEF IInv, Following, At, Locking, f
      <4>3. QED
        BY <1>2, <1>3, <2>1, <2>2, <3>2, <3>4, <4>2
    <3>5. QED
      BY <3>3, <3>4
  <2>7. QED
    BY <2>4, <2>5, <2>6 DEF IInv
<1>7. QED
  BY <1>5, <1>6

\* flush_all visits one more logger, or ends.
LEMMA FlushNextIInv ==
    ASSUME IInv, NEW t \in Thread, FlushNext(t)
    PROVE  IInv'
<1>1. /\ call[t].op = "flush_all" /\ call \in [Thread -> Call]
      /\ governed \subseteq Logger \X Field /\ setting \in [Logger -> [Field -> Value]]
      /\ UNCHANGED <<mapping, entries, governed, global, setting, pooled, fresh, held>>
  BY DEF IInv, TypeOK, FlushNext, At, registered, mapping
<1>2. /\ fault' \in {fault, "no pool"}
      /\ \/ mutex' = mutex /\ \E x : call' = [call EXCEPT ![t].todo = call[t].todo \ {x}]
         \/ mutex' = None /\ call' = [call EXCEPT ![t] = Idle]
  BY <1>1 DEF FlushNext, Release
<1>3. /\ TypeOK' /\ Constructed' /\ HoldsMap' /\ TodoWithin' /\ SpreadsGlobal'
      /\ ServedOrExposed' /\ Unfinished' /\ MapKept'
      /\ \A u \in Thread \ {t} : call[u].op \notin Locking /\ call'[u] = call[u]
  BY <1>1, <1>2, HolderStep
<1>4. \A u \in Thread : call[u].op \notin {"init", "set_all"}
  BY <1>1, <1>3 DEF Locking
<1>5. GovernedListed' /\ Following'
  BY <1>1, <1>4 DEF IInv, GovernedListed, Following, At, Listed
<1>6. QED
  BY <1>3, <1>5 DEF IInv

\* The constructor of an AsyncLogger ends with the pool it found last; shutdown
\* ends without a pool.
LEMMA PoolIInv ==
    ASSUME IInv, NEW t \in Thread, TakePool(t) \/ DropPool(t)
    PROVE  IInv'
<1>1. /\ call \in [Thread -> Call] /\ None \notin Logger \cup Thread
      /\ held \subseteq Logger \ fresh /\ fresh \subseteq Logger
      /\ pools \in Nat /\ pool \in 0..pools /\ kept \subseteq 1..pools /\ poolOf \in [Logger -> 0..pools]
      /\ Idle \in Call /\ Idle.op = "idle" /\ Idle.logger = None
      /\ {"idle", "looked", "removed"} \cap Locking = {}
  <2>1. {"idle", "looked", "removed"} \cap Locking = {}
    BY DEF Locking
  <2>2. pools \in Nat /\ pool \in 0..pools /\ kept \subseteq 1..pools /\ poolOf \in [Logger -> 0..pools]
    <3>1. MaxPools \in Nat
      BY RegistryAssumption
    <3>2. pools \in 0..MaxPools /\ pool \in 0..pools /\ kept \subseteq 1..pools /\ poolOf \in [Logger -> 0..pools]
      BY DEF IInv, TypeOK
    <3>3. QED
      BY <3>1, <3>2
  <2>3. call \in [Thread -> Call] /\ held \subseteq Logger \ fresh /\ fresh \subseteq Logger
    BY DEF IInv, TypeOK
  <2>4. QED
    BY <2>1, <2>2, <2>3, IdleCall, RegistryAssumption
<1>2. /\ call[t].op \in {"looked", "removed"} /\ call' = [call EXCEPT ![t] = Idle]
      /\ UNCHANGED <<entries, root, latest, exposed, governed, global, setting, mutex, pools, kept, fresh, fault>>
  BY DEF TakePool, DropPool, At, registered, mapping
<1>3. \A u \in Thread : \/ call'[u] = call[u]
                        \/ call'[u] = Idle /\ call[u].op \in {"looked", "removed"}
  BY <1>1, <1>2
<1>4. /\ held' \subseteq Logger \ fresh /\ pool' \in 0..pools /\ poolOf' \in [Logger -> 0..pools]
  <2>1. CASE TakePool(t)
    <3>1. call[t].logger \in Logger \ fresh
      BY <2>1 DEF TakePool, IInv, TodoWithin, Constructed, At
    <3>2. QED
      BY <1>1, <2>1, <3>1 DEF TakePool, Hold
  <2>2. CASE DropPool(t)
    BY <1>1, <2>2 DEF DropPool
  <2>3. QED
    BY <2>1, <2>2
<1>5. TypeOK'
  BY <1>1, <1>2, <1>4 DEF IInv, TypeOK
<1>6. Constructed' /\ HoldsMap' /\ TodoWithin' /\ SpreadsGlobal' /\ MapKept'
  <2>1. Constructed' /\ MapKept'
    BY <1>1, <1>2, <1>3 DEF IInv, TypeOK, Constructed, MapKept, RootNamed, KeysKept, Listed
  <2>2. HoldsMap'
    BY <1>1, <1>2, <1>3 DEF IInv, HoldsMap
  <2>3. TodoWithin' /\ SpreadsGlobal'
    BY <1>1, <1>2, <1>3 DEF IInv, TodoWithin, SpreadsGlobal, At, Listed
  <2>4. QED
    BY <2>1, <2>2, <2>3
<1>7. GovernedListed' /\ Following'
  <2>1. \A u \in Thread : call[u].op \in {"init", "set_all"} => call'[u] = call[u]
    BY <1>3
  <2>2. GovernedListed'
    BY <1>2, <2>1 DEF IInv, GovernedListed, At, Listed
  <2>3. Following'
    BY <1>2, <2>1 DEF IInv, Following, At
  <2>4. QED
    BY <2>2, <2>3
<1>8. ServedOrExposed' /\ Unfinished'
  <2>1. ShuttingDown' => ShuttingDown
    BY <1>1, <1>3 DEF ShuttingDown, At
  <2>2. \A u \in Thread : At(u, "looked")' => At(u, "looked") /\ call'[u] = call[u]
    BY <1>1, <1>3 DEF At
  <2>3. Listed(entries) \subseteq Logger /\ Listed(entries') = Listed(entries)
    <3>1. entries \subseteq [key : Logger, val : Logger]
      BY DEF IInv, TypeOK
    <3>2. QED
      BY <1>2, <3>1 DEF Listed
  <2>4. CASE TakePool(t)
    <3> DEFINE l == call[t].logger
    <3>1. At(t, "looked") /\ poolOf' = [poolOf EXCEPT ![l] = pool] /\ UNCHANGED pool
      BY <2>4 DEF TakePool
    <3>2. l \in Logger \ fresh /\ poolOf[l] = 0
      BY <3>1 DEF IInv, TodoWithin, Constructed, Unfinished, At
    <3>3. \A k \in Logger \ {l} : poolOf'[k] = poolOf[k]
      BY <1>1, <3>1
    <3>4. EntersExposed(l)
      BY <1>1, <3>2 DEF EntersExposed, PoolAlive, Living
    <3>5. Unfinished'
      <4>1. \A u \in Thread \ {t} : At(u, "looked") => call[u].logger \in Logger \ {l}
        BY <3>1 DEF IInv, TodoWithin, Unfinished, At
      <4>2. ~ At(t, "looked")'
        BY <1>1, <1>2 DEF At
      <4>3. QED
        BY <1>1, <1>2, <2>2, <3>2, <3>3, <4>1, <4>2 DEF IInv, Unfinished, At
    <3>6. ServedOrExposed'
      BY <1>2, <2>1, <2>3, <3>1, <3>3, <3>4 DEF IInv, ServedOrExposed, EntersExposed, PoolAlive, Living
    <3>7. QED
      BY <3>5, <3>6
  <2>5. CASE DropPool(t)
    <3>1. ShuttingDown /\ pool' = 0 /\ poolOf' = poolOf
      BY <2>5 DEF ShuttingDown, DropPool
    <3>2. \A k \in Logger : EntersExposed(k)' => EntersExposed(k)
      BY <1>1, <1>2, <3>1 DEF EntersExposed, PoolAlive, Living
    <3>3. ServedOrExposed'
      BY <1>2, <2>3, <3>2 DEF IInv, ServedOrExposed
    <3>4. Unfinished'
      BY <1>2, <2>2, <3>1 DEF IInv, Unfinished, At
    <3>5. QED
      BY <3>3, <3>4
  <2>6. QED
    BY <2>4, <2>5
<1>9. QED
  BY <1>5, <1>6, <1>7, <1>8 DEF IInv

\* A call that is under way takes its next step.
LEMMA ContinueIInv ==
    ASSUME IInv, fault = "none", NEW t \in Thread, Continue(t)
    PROVE  IInv'
<1>1. /\ call \in [Thread -> Call] /\ None \notin Logger \cup Thread
      /\ held \subseteq Logger \ fresh /\ fresh \subseteq Logger
      /\ Idle \in Call /\ Idle.op = "idle" /\ Idle.logger = None
  BY IdleCall, RegistryAssumption DEF IInv, TypeOK
<1>2. CASE UseRoot(t)
  <2> DEFINE l == call[t].logger
             f == call[t].field
  <2>1. l \in Logger \cup {None} /\ f \in Field
    BY <1>1 DEF Call
  <2>2. /\ call[t].op \in {"log", "raw"} /\ call' = [call EXCEPT ![t] = Idle]
        /\ UNCHANGED <<mapping, global, mutex, pooled, fresh, held>>
        /\ fault' \in {fault, "null logger", "dead logger", "no pool"}
        /\ \/ UNCHANGED <<setting, governed>>
           \/ /\ fault' = fault /\ l # None
              /\ \E v \in Value : setting' = [setting EXCEPT ![l][f] = v]
              /\ governed' = governed \ {<<l, f>>}
    BY <1>2 DEF UseRoot
  <2> HIDE DEF l, f
  <2>3. QED
    BY <2>1, <2>2, UnlockedIInv
<1>3. CASE InitializeRegister(t)
  <2> DEFINE l == IF call[t].flag THEN call[t].logger ELSE None
  <2>1. /\ At(t, "init") /\ mutex' = None /\ call' = [call EXCEPT ![t] = Idle]
        /\ UNCHANGED <<root, global, setting, pooled, fresh, held, fault>>
        /\ IF call[t].flag THEN RegisterOrReplaceIt(call[t].logger) ELSE Register(entries, None) /\ UNCHANGED latest
    BY <1>3 DEF InitializeRegister, Release
  <2>2. call[t].logger \in Logger \ fresh
    BY <2>1 DEF IInv, TodoWithin, Constructed, At
  <2>3. MapStep(l)
    BY <2>1 DEF MapStep
  <2>4. CASE call[t].flag
    <3>1. MapKept'
      BY <2>1, <2>2, <2>4, Replaced DEF IInv, MapKept, RootNamed
    <3>2. QED
      BY <1>1, <2>1, <2>2, <2>3, <2>4, <3>1, Replaced, MapIInv DEF IInv, MapKept
  <2>5. CASE ~ call[t].flag
    <3>1. entries' = entries /\ Register(entries', None)
      BY <2>1, <2>5 DEF Register
    <3>2. /\ MapKept' /\ Listed(entries') = Listed(entries)
          /\ entries' \subseteq [key : Logger, val : Logger] /\ latest' \subseteq Logger \cup {None}
      BY <2>1, <2>5, <3>1 DEF IInv, TypeOK, MapKept, RootNamed, KeysKept, Listed
    <3>3. QED
      BY <2>1, <2>3, <2>5, <3>1, <3>2, MapIInv
  <2>6. QED
    BY <2>4, <2>5
<1>4. QED
  BY <1>2, <1>3, InitializeFieldIInv, SetNextIInv, FlushNextIInv, PoolIInv DEF Continue

\* Every step keeps the invariant.
LEMMA StepIInv == IInv /\ [Next]_vars => IInv'
<1> SUFFICES ASSUME IInv, [Next]_vars PROVE IInv'
  OBVIOUS
<1>1. CASE UNCHANGED vars
  <2>1. held' \subseteq Logger \ fresh' /\ fresh' \subseteq fresh
    BY <1>1 DEF vars, IInv, TypeOK
  <2>2. QED
    BY <1>1, <2>1, ObjectsIInv DEF vars, registered, mapping
<1>2. CASE Next
  <2>1. fault = "none"
    BY <1>2 DEF Next
  <2>2. ASSUME NEW t \in Thread, RootCall(t) \/ CManagerCall(t) \/ Continue(t)
        PROVE  IInv'
    BY <2>1, <2>2, RootCallIInv, ManagerCallIInv, ContinueIInv
  <2>3. QED
    BY <1>2, <2>2, RegistryCallIInv, LoggerIInv, ReleasePoolIInv DEF Next
<1>3. QED
  BY <1>1, <1>2

\* A registry just constructed satisfies the invariant.
LEMMA InitIInv == Init => IInv
<1> SUFFICES ASSUME Init PROVE IInv
  OBVIOUS
<1>1. /\ FirstRoot \in Logger /\ FirstRoot \notin Async /\ None \notin Logger \cup Thread
      /\ MaxPools \in Nat /\ Async \subseteq Logger /\ DOMAIN NameOf = Logger
  BY RegistryAssumption
<1>2. /\ Listed(entries) = {FirstRoot} /\ fresh = Logger \ {FirstRoot}
      /\ \A t \in Thread : call[t] = Idle
  BY DEF Init, Listed
<1>3. TypeOK
  <2>1. global \in [Field -> Value] /\ setting \in [Logger -> [Field -> Value]]
    BY DEF Init
  <2>2. call \in [Thread -> Call]
    BY IdleCall DEF Init
  <2>3. QED
    BY <1>1, <2>1, <2>2 DEF Init, TypeOK
<1>4. Constructed /\ HoldsMap /\ TodoWithin /\ SpreadsGlobal
  BY <1>1, <1>2, IdleCall DEF Init, Constructed, HoldsMap, TodoWithin, SpreadsGlobal, At, Locking
<1>5. GovernedListed /\ Following /\ ServedOrExposed
  BY <1>1, <1>2 DEF Init, GovernedListed, Following, ServedOrExposed
<1>6. Unfinished
  BY <1>1, <1>2, IdleCall DEF Init, Unfinished, At
<1>7. MapKept
  BY <1>1, <1>2 DEF Init, MapKept, RootNamed, KeysKept
<1>8. QED
  BY <1>3, <1>4, <1>5, <1>6, <1>7 DEF IInv

------------------------------------------------------------------------------
\* The variables keep their types (registry.h).
THEOREM TypeCorrect == Spec => []TypeOK
<1>1. IInv => TypeOK
  BY DEF IInv
<1>2. QED
  BY InitIInv, StepIInv, <1>1, PTL DEF Spec

\* As long as no change of the map has met a dangling key and none is there, a
\* lookup by name finds exactly the logger that was put there last, and the name
\* of the root logger is taken, whatever was registered, replaced or removed.
THEOREM LookupsFindLatest == Spec => []NamesFindLatest
<1>1. IInv => NamesFindLatest
  <2> SUFFICES ASSUME IInv, KeysAlive, None \notin latest
               PROVE  /\ \A name \in Names : {e.val : e \in Found(name)}
                                                = IF Under(name) = {} THEN {None} ELSE Under(name)
                      /\ root # None => Under(NameOf[root]) # {}
    BY DEF NamesFindLatest
  <2>1. TypeOK /\ KeysKept /\ RootNamed
    BY DEF IInv, MapKept
  <2>2. ASSUME NEW name \in Names
        PROVE  {e.val : e \in Found(name)} = IF Under(name) = {} THEN {None} ELSE Under(name)
    <3>1. \A e \in Found(name) : e.val \in IF Under(name) = {} THEN {None} ELSE Under(name)
      BY <2>1, LookupExact DEF NoEntry
    <3>2. \A e \in Found(name) : Under(name) \subseteq {e.val}
      BY <2>1, LookupExact
    <3>3. \E e \in Found(name) : TRUE
      BY DEF Found, KeysAlive
    <3>4. QED
      BY <3>1, <3>2, <3>3
  <2>3. ASSUME root # None
        PROVE  Under(NameOf[root]) # {}
    BY <2>1, <2>3 DEF RootNamed, KeysKept, Under, Listed
  <2>4. QED
    BY <2>2, <2>3
<1>2. QED
  BY InitIInv, StepIInv, <1>1, PTL DEF Spec

\* No logger of the map misses a setting for all loggers: outside the critical
\* sections the settings that the registry wrote last are the current ones.
THEOREM SettingsFollow == Spec => []GovernedFollow
<1>1. IInv => GovernedFollow
  <2> SUFFICES ASSUME IInv, mutex = None PROVE \A p \in governed : setting[p[1]][p[2]] = global[p[2]]
    BY DEF GovernedFollow
  <2>1. \A t \in Thread : call[t].op # "set_all"
    BY RegistryAssumption DEF IInv, HoldsMap, Locking
  <2>2. QED
    BY <2>1 DEF IInv, Following, At
<1>2. QED
  BY InitIInv, StepIInv, <1>1, PTL DEF Spec

\* flush_all meets no logger whose pool is gone, the root pool or one of the
\* application, except those that are exposed to it.
THEOREM FlushAllServed == Spec => []FlushAllFindsPools
<1>1. IInv => FlushAllFindsPools
  <2> SUFFICES ASSUME IInv, NEW t \in Thread, call[t].op = "flush_all", NEW l \in call[t].todo \cap Async
               PROVE  l \in exposed \/ PoolAlive(l)
    BY DEF FlushAllFindsPools, At
  <2>1. l \in Listed(entries) \cap Async
    BY DEF IInv, TodoWithin
  <2>2. QED
    BY <2>1 DEF IInv, ServedOrExposed, EntersExposed
<1>2. QED
  BY InitIInv, StepIInv, <1>1, PTL DEF Spec
==============================================================================
