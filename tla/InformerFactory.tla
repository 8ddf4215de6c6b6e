-------------------------- MODULE InformerFactory --------------------------
(***************************************************************************)
(* sharedInformerFactory (client/informers/externalversions/factory.go)    *)
(* used by several goroutines of one process.  The mutex is modelled, so a *)
(* method that holds it is as many steps as it has visible effects.  What  *)
(* an informer does while it runs belongs to client-go: it syncs when the  *)
(* server answers and returns after its stop channel is closed.            *)
(***************************************************************************)
EXTENDS Naturals, Sequences, FiniteSets

CONSTANTS
    Types,    \* Go types, one per resource that the API group has
    Unknown,  \* a resource outside of the API group
    Stops,    \* stop channels
    Users,    \* goroutines that call the factory
    Scripts,  \* Scripts[u]: the sequences of calls that user u may make
    None

Calls == [op : {"ForResource"}, type : Types \cup {Unknown}]
    \cup [op : {"Start", "WaitForCacheSync", "close"}, stop : Stops]
    \cup [op : {"Shutdown"}]

\* An informer is named by its type and the call of newFunc that made it.
Informers == [type : Types, by : Users]

ASSUME FactoryAssumption ==
    /\ Scripts \in [Users -> SUBSET Seq(Calls)]
    /\ Unknown \notin Types /\ None \notin Users \cup Informers \cup Stops

VARIABLES
    script,            \* script[u]: the calls user u still has to make
    pc,                \* pc[u]: where user u is in its current call
    lock,              \* who holds f.lock, or None
    informers,         \* f.informers
    startedInformers,  \* the types for which f.startedInformers is true
    wg,                \* the counter of f.wg
    shuttingDown,      \* f.shuttingDown
    todo,              \* todo[u]: what a range loop of u has yet to visit
    res,               \* res[u]: the answer of u's last WaitForCacheSync
    stopCh,            \* stopCh[i]: the channel informer i runs with
    alive,             \* informers whose goroutine has not called wg.Done
    synced,            \* informers that have synced
    closed,            \* closed stop channels
    handedOut,         \* history: informers that InformerFor returned
    runs,              \* history: runs[i], how often informer i was started
    due,               \* history: informers started before u's last wait
    shutDown           \* history: a call of Shutdown has returned

users == <<script, pc, todo, res, due>>
factory == <<lock, informers, startedInformers, wg, shuttingDown>>
goroutines == <<stopCh, alive, synced, runs>>
vars == <<users, factory, goroutines, closed, handedOut, shutDown>>

Init ==
    /\ script \in {s \in [Users -> UNION {Scripts[u] : u \in Users}] :
                      \A u \in Users : s[u] \in Scripts[u]}
    /\ pc = [u \in Users |-> "idle"]
    /\ lock = None
    /\ informers = [t \in Types |-> None]
    /\ startedInformers = {} /\ wg = 0 /\ shuttingDown = FALSE
    /\ todo = [u \in Users |-> {}] /\ res = [u \in Users |-> << >>]
    /\ stopCh = [i \in Informers |-> None] /\ alive = {} /\ synced = {}
    /\ closed = {} /\ handedOut = {} /\ shutDown = FALSE
    /\ runs = [i \in Informers |-> 0] /\ due = [u \in Users |-> {}]

-----------------------------------------------------------------------------

\* Mutant: InformerFor and Start do not take the lock.
MutNoLock(u) == UNCHANGED lock

Lock(u) == lock = None /\ lock' = u

\* Mutant: a method returns without its deferred Unlock.
MutKeepLock == UNCHANGED lock

Unlock == lock' = None

Goto(u, l) == pc' = [pc EXCEPT ![u] = l]

Arg(u) == Head(script[u])

\* u is about to make its next call, which is one of op.
Calling(u, op) ==
    /\ pc[u] = "idle" /\ script[u] # << >>
    /\ Arg(u).op = op

Return(u) ==
    /\ Goto(u, "idle")
    /\ script' = [script EXCEPT ![u] = Tail(@)]

\* u calls a method of the factory, all of which begin with f.lock.Lock().
\* From here on u waits for the lock.
Call(u) ==
    /\ \/ Calling(u, "ForResource") /\ Arg(u).type # Unknown
       \/ Calling(u, "Start") \/ Calling(u, "WaitForCacheSync") \/ Calling(u, "Shutdown")
    /\ Goto(u, "lock")
    /\ UNCHANGED <<script, todo, res, due, factory, goroutines, closed, handedOut, shutDown>>

\* f.lock.Lock() returns.
Acquire(u) ==
    /\ pc[u] = "lock" /\ Lock(u)
    /\ Goto(u, "locked")
    /\ UNCHANGED <<script, todo, res, due, informers, startedInformers, wg, shuttingDown,
                   goroutines, closed, handedOut, shutDown>>

\* u has taken the lock for a call of op.
Locked(u, op) == pc[u] = "locked" /\ Arg(u).op = op

-----------------------------------------------------------------------------
(* ForResource and InformerFor.                                            *)

ForResource(u) ==
    /\ Calling(u, "ForResource") /\ Arg(u).type = Unknown
    /\ Return(u)
    /\ UNCHANGED <<todo, res, due, factory, goroutines, closed, handedOut, shutDown>>

\* The informer that f.informers has for the type is returned.
Lookup(u) ==
    /\ Locked(u, "ForResource")
    /\ LET informer == informers[Arg(u).type]
       IN  \/ /\ informer # None
              /\ handedOut' = handedOut \cup {informer}
              /\ Unlock /\ Return(u)
           \/ /\ informer = None
              /\ Goto(u, "newFunc")
              /\ UNCHANGED <<lock, script, handedOut>>
    /\ UNCHANGED <<todo, res, due, informers, startedInformers, wg, shuttingDown,
                   goroutines, closed, shutDown>>

NewInformer(u) ==
    /\ pc[u] = "newFunc"
    /\ LET informer == [type |-> Arg(u).type, by |-> u]
       IN  /\ informers' = [informers EXCEPT ![Arg(u).type] = informer]
           /\ handedOut' = handedOut \cup {informer}
    /\ Unlock /\ Return(u)
    /\ UNCHANGED <<todo, res, due, startedInformers, wg, shuttingDown, goroutines,
                   closed, shutDown>>

-----------------------------------------------------------------------------
(* Start.                                                                  *)

\* Mutant: Start does not look at shuttingDown.
MutStartAnyway == TRUE

MayStart == ~shuttingDown

Start(u) ==
    /\ Locked(u, "Start")
    /\ \/ /\ MayStart /\ Goto(u, "start")
          /\ todo' = [todo EXCEPT ![u] = {t \in Types : informers[t] # None}]
          /\ UNCHANGED <<lock, script>>
       \/ ~MayStart /\ Unlock /\ Return(u) /\ UNCHANGED todo
    /\ UNCHANGED <<res, due, informers, startedInformers, wg, shuttingDown,
                   goroutines, closed, handedOut, shutDown>>

\* Mutant: a started informer is not marked as started.
MutUnmarked(t) == startedInformers

Mark(t) == startedInformers \cup {t}

\* One turn of the loop over the map, which Go visits in any order.
StartInformer(u, t) ==
    /\ pc[u] = "start" /\ t \in todo[u]
    /\ todo' = [todo EXCEPT ![u] = @ \ {t}]
    /\ \/ t \in startedInformers /\ UNCHANGED <<wg, startedInformers, goroutines>>
       \/ /\ t \notin startedInformers
          /\ wg' = wg + 1
          /\ startedInformers' = Mark(t)
          /\ stopCh' = [stopCh EXCEPT ![informers[t]] = Arg(u).stop]
          /\ alive' = alive \cup {informers[t]}
          /\ runs' = [runs EXCEPT ![informers[t]] = @ + 1]
          /\ UNCHANGED synced
    /\ UNCHANGED <<script, pc, res, due, lock, informers, shuttingDown, closed,
                   handedOut, shutDown>>

StartReturns(u) ==
    /\ pc[u] = "start" /\ todo[u] = {}
    /\ Unlock /\ Return(u)
    /\ UNCHANGED <<todo, res, due, informers, startedInformers, wg, shuttingDown,
                   goroutines, closed, handedOut, shutDown>>

-----------------------------------------------------------------------------
(* The goroutine of a started informer; informer.Run is client-go's.       *)

Sync(i) ==
    /\ i \in alive \ synced
    /\ synced' = synced \cup {i}
    /\ UNCHANGED <<users, factory, stopCh, alive, runs, closed, handedOut, shutDown>>

\* Mutant: wg.Done is not deferred.
MutNotDone == wg

Done == wg - 1

RunReturns(i) ==
    /\ i \in alive /\ stopCh[i] \in closed
    /\ alive' = alive \ {i}
    /\ wg' = Done
    /\ UNCHANGED <<users, lock, informers, startedInformers, shuttingDown, stopCh,
                   synced, runs, closed, handedOut, shutDown>>

-----------------------------------------------------------------------------
(* WaitForCacheSync, Shutdown, and the closing of a stop channel.          *)

\* Mutant: the filter on startedInformers is inverted.
MutNotStarted == {t \in Types : informers[t] # None} \ startedInformers

Started == {t \in Types : informers[t] # None} \cap startedInformers

WaitForCacheSync(u) ==
    /\ Locked(u, "WaitForCacheSync")
    /\ todo' = [todo EXCEPT ![u] = Started]
    /\ res' = [res EXCEPT ![u] = << >>]
    /\ due' = [due EXCEPT ![u] = {i \in Informers : runs[i] > 0}]
    /\ Unlock /\ Goto(u, "sync")
    /\ UNCHANGED <<script, informers, startedInformers, wg, shuttingDown, goroutines,
                   closed, handedOut, shutDown>>

\* cache.WaitForCacheSync polls: a closed channel ends the wait even when
\* the informer has synced since the last poll.
Synced(u, t) ==
    /\ pc[u] = "sync" /\ t \in todo[u]
    /\ todo' = [todo EXCEPT ![u] = @ \ {t}]
    /\ LET answer(b) == [s \in DOMAIN res[u] \cup {t} |-> IF s = t THEN b ELSE res[u][s]]
       IN  \/ informers[t] \in synced /\ res' = [res EXCEPT ![u] = answer(TRUE)]
           \/ Arg(u).stop \in closed /\ res' = [res EXCEPT ![u] = answer(FALSE)]
    /\ UNCHANGED <<script, pc, due, factory, goroutines, closed, handedOut, shutDown>>

WaitReturns(u) ==
    /\ pc[u] = "sync" /\ todo[u] = {}
    /\ Return(u)
    /\ UNCHANGED <<todo, res, due, factory, goroutines, closed, handedOut, shutDown>>

Shutdown(u) ==
    /\ Locked(u, "Shutdown")
    /\ shuttingDown' = TRUE
    /\ Unlock /\ Goto(u, "draining")
    /\ UNCHANGED <<script, todo, res, due, informers, startedInformers, wg,
                   goroutines, closed, handedOut, shutDown>>

Drained(u) ==
    /\ pc[u] = "draining" /\ wg = 0
    /\ shutDown' = TRUE
    /\ Return(u)
    /\ UNCHANGED <<todo, res, due, factory, goroutines, closed, handedOut>>

Close(u) ==
    /\ Calling(u, "close")
    /\ closed' = closed \cup {Arg(u).stop}
    /\ Return(u)
    /\ UNCHANGED <<todo, res, due, factory, goroutines, handedOut, shutDown>>

-----------------------------------------------------------------------------

\* Steps of a user that is inside of a call, waiting for the lock included.
Inside(u) ==
    \/ Acquire(u) \/ Lookup(u) \/ NewInformer(u) \/ Start(u) \/ StartReturns(u)
    \/ WaitForCacheSync(u) \/ WaitReturns(u) \/ Shutdown(u) \/ Drained(u)
    \/ \E t \in Types : StartInformer(u, t) \/ Synced(u, t)

Begin(u) == ForResource(u) \/ Call(u) \/ Close(u)

Next ==
    \/ \E u \in Users : Begin(u) \/ Inside(u)
    \/ \E i \in Informers : Sync(i) \/ RunReturns(i)

\* A goroutine runs on, a mutex that is free goes to one that waits for it, and
\* an informer heeds its stop channel.  But no server has to answer, and no
\* user has to make another call, not even the one that closes its channel.
Fairness ==
    /\ \A u \in Users : WF_vars(Inside(u))
    /\ \A i \in Informers : WF_vars(RunReturns(i))

Spec == Init /\ [][Next]_vars /\ Fairness

-----------------------------------------------------------------------------

TypeOK ==
    /\ \A u \in Users : script[u] \in Seq(Calls)
    /\ pc \in [Users -> {"idle", "lock", "locked", "newFunc", "start", "sync", "draining"}]
    /\ lock \in Users \cup {None}
    /\ \A t \in Types : informers[t] # None => informers[t] \in [type : {t}, by : Users]
    /\ startedInformers \subseteq {t \in Types : informers[t] # None}
    /\ wg = Cardinality(alive) /\ shuttingDown \in BOOLEAN
    /\ alive \subseteq {i \in Informers : stopCh[i] \in Stops}
    /\ synced \subseteq Informers /\ closed \subseteq Stops

\* All users share one informer per type (InformerFor): a handler that is
\* added to an informer is added to the one that Start will run.
OneInformerPerType ==
    /\ \A i, j \in handedOut : i.type = j.type => i = j
    /\ \A i \in handedOut : informers[i.type] = i

\* "This allows Start() to be called multiple times safely" (factory.go,
\* startedInformers): whoever calls Start, an informer is run at most once.
RunsOnce == \A i \in Informers : runs[i] <= 1

\* What WaitForCacheSync answered tells about every informer started before
\* the call: true only for one that has synced, false only after the stop.
SyncReportIsTrue ==
    \A u \in Users :
        (pc[u] = "sync" /\ todo[u] = {}) =>
            /\ due[u] \subseteq {informers[t] : t \in DOMAIN res[u]}
            /\ \A t \in DOMAIN res[u] :
                 IF res[u][t] THEN informers[t] \in synced
                 ELSE Arg(u).stop \in closed

Phase(t) ==
    IF informers[t] = None THEN "absent"
    ELSE IF informers[t] \in alive THEN "running"
    ELSE IF runs[informers[t]] > 0 THEN "stopped" ELSE "created"

Lifecycle == INSTANCE InformerLifecycle WITH
    phase <- [t \in Types |-> Phase(t)],
    down  <- IF shutDown THEN "done" ELSE IF shuttingDown THEN "begun" ELSE "no"

\* The factory keeps InformerLifecycle's promise: no informer starts once
\* Shutdown was called, and none runs once it has returned.
KeepsLifecycle == Lifecycle!Spec

\* What may keep a call from returning: an informer that does not sync while
\* the channel of the wait is open (WaitForCacheSync), or one that runs on
\* because its own channel is open (Shutdown).
HeldUp(u) ==
    \/ pc[u] = "sync" /\ Arg(u).stop \notin closed
       /\ \E t \in todo[u] : informers[t] \notin synced
    \/ pc[u] = "draining" /\ \E i \in alive : stopCh[i] \notin closed

\* Nothing else holds a call up, f.lock in particular, whoever waits in
\* WaitForCacheSync or Shutdown meanwhile: every call returns unless it is
\* held up so for good.
CallsReturn == \A u \in Users : pc[u] # "idle" ~> (pc[u] = "idle" \/ HeldUp(u))
=============================================================================
