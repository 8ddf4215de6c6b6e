----------------------- MODULE InformerFactoryProofs -----------------------
(***************************************************************************)
(* Proofs about the informer factory: its mutex makes "look up, make and   *)
(* store" and the loop of Start exclusive, which gives one informer per    *)
(* type, at most one run of it, and the promise of InformerLifecycle.      *)
(***************************************************************************)
EXTENDS InformerFactory, FiniteSetTheorems, TLAPS

Labels == {"idle", "lock", "locked", "newFunc", "start", "sync", "draining"}

\* Where a user holds the lock.
Holding == {"locked", "newFunc", "start"}

Typed ==
    /\ script \in [Users -> Seq(Calls)]
    /\ pc \in [Users -> Labels]
    /\ todo \in [Users -> SUBSET Types]
    /\ informers \in [Types -> Informers \cup {None}]
    /\ startedInformers \subseteq Types
    /\ handedOut \subseteq Informers
    /\ runs \in [Informers -> Nat]
    /\ shuttingDown \in BOOLEAN /\ shutDown \in BOOLEAN

\* The lock is held by a user in the middle of a method and by nobody else, and
\* what that user has read under the lock is still true.
Exclusive ==
    \A u \in Users :
        /\ pc[u] # "idle" => script[u] # << >>
        /\ lock = u <=> pc[u] \in Holding
        /\ pc[u] \in {"lock", "locked"} =>
              Arg(u).op \in {"ForResource", "Start", "WaitForCacheSync", "Shutdown"}
        /\ pc[u] \in {"lock", "locked"} /\ Arg(u).op = "ForResource" => Arg(u).type \in Types
        /\ pc[u] = "newFunc" => Arg(u).type \in Types /\ informers[Arg(u).type] = None
        /\ pc[u] = "start" => ~shuttingDown /\ \A t \in todo[u] : informers[t] # None
        /\ pc[u] = "draining" => shuttingDown

\* An informer is filed under its type for good.
Filed ==
    /\ \A t \in Types : informers[t] # None => informers[t].type = t
    /\ \A i \in handedOut : informers[i.type] = i

\* The wait group counts what runs, and what has run is marked as started.
Counted ==
    /\ alive \subseteq Informers /\ IsFiniteSet(alive) /\ wg = Cardinality(alive)
    /\ \A i \in alive : runs[i] > 0
    /\ \A i \in Informers :
          /\ runs[i] <= 1
          /\ runs[i] > 0 => i.type \in startedInformers /\ informers[i.type] = i
    /\ shutDown => shuttingDown /\ alive = {}

FactoryInv == Typed /\ Exclusive /\ Filed /\ Counted

LEMMA FactoryInit == Init => FactoryInv
  <1> SUFFICES ASSUME Init PROVE FactoryInv
    OBVIOUS
  <1>1. script \in [Users -> Seq(Calls)]
    BY FactoryAssumption DEF Init
  <1>2. Typed
    BY <1>1 DEF Init, Typed, Labels
  <1>3. Counted
    BY FS_EmptySet DEF Init, Counted
  <1> QED
    BY <1>2, <1>3, FactoryAssumption DEF Init, FactoryInv, Exclusive, Filed, Holding

\* A call of ForResource with a known resource is about one of the types.
LEMMA ArgIsType ==
    ASSUME NEW u \in Users, Typed, Calling(u, "ForResource"), Arg(u).type # Unknown
    PROVE  Arg(u).type \in Types
  <1>1. Arg(u) \in Calls
    BY DEF Typed, Calling, Arg
  <1> QED
    BY <1>1 DEF Calling, Calls

\* Returning from a call, or going on in it, leaves all scripts typed and the
\* other users where they are.
LEMMA ReturnMoves ==
    ASSUME NEW u \in Users, Typed, script[u] # << >>, Return(u)
    PROVE  /\ script' \in [Users -> Seq(Calls)]
           /\ pc' = [pc EXCEPT ![u] = "idle"]
           /\ \A v \in Users \ {u} : script'[v] = script[v]
  <1>1. Tail(script[u]) \in Seq(Calls)
    BY DEF Typed
  <1> QED
    BY <1>1 DEF Typed, Return, Goto

\* What user u does to its own variables while it holds no lock.
LEMMA QuietStep ==
    ASSUME FactoryInv, NEW u \in Users, pc[u] \notin Holding,
           script' \in [Users -> Seq(Calls)], todo' \in [Users -> SUBSET Types],
           pc' \in [Users -> Labels],
           pc'[u] \in {"idle", "sync"}, pc'[u] = "sync" => script'[u] # << >>,
           \A v \in Users \ {u} :
               script'[v] = script[v] /\ todo'[v] = todo[v] /\ pc'[v] = pc[v],
           UNCHANGED <<factory, alive, runs, handedOut, shutDown>>
    PROVE  FactoryInv'
  <1>1. Typed'
    BY DEF FactoryInv, Typed, factory
  <1>2. Exclusive'
    BY DEF FactoryInv, Exclusive, Arg, factory, Holding
  <1>3. Filed' /\ Counted'
    BY DEF FactoryInv, Filed, Counted, factory
  <1> QED
    BY <1>1, <1>2, <1>3 DEF FactoryInv

\* What user u does when it releases the lock: only Shutdown changes the
\* factory then, while nobody is in the loop of Start.
LEMMA ReleaseStep ==
    ASSUME FactoryInv, NEW u \in Users, pc[u] \in Holding, Unlock,
           script' \in [Users -> Seq(Calls)], todo' \in [Users -> SUBSET Types],
           pc' \in [Users -> Labels],
           pc'[u] \in {"idle", "sync", "draining"}, pc'[u] # "idle" => script'[u] # << >>,
           \A v \in Users \ {u} :
               script'[v] = script[v] /\ todo'[v] = todo[v] /\ pc'[v] = pc[v],
           shuttingDown' \in BOOLEAN, shuttingDown => shuttingDown',
           pc'[u] = "draining" => shuttingDown',
           UNCHANGED <<informers, startedInformers, wg, alive, runs, handedOut, shutDown>>
    PROVE  FactoryInv'
  <1>1. lock = u /\ lock' = None /\ \A v \in Users : v # None
    BY FactoryAssumption DEF FactoryInv, Exclusive, Unlock
  <1>2. Typed'
    BY DEF FactoryInv, Typed
  <1>3. Exclusive'
    <2> SUFFICES ASSUME NEW v \in Users, v # u, pc[v] \notin Holding
                 PROVE  pc'[v] \notin Holding /\ pc'[v] = pc[v] /\ Arg(v)' = Arg(v)
      BY <1>1 DEF FactoryInv, Exclusive, Holding
    <2> QED
      BY DEF Arg
  <1>4. Filed' /\ Counted'
    BY DEF FactoryInv, Filed, Counted
  <1> QED
    BY <1>2, <1>3, <1>4 DEF FactoryInv

\* u calls a method and waits for the lock.
LEMMA CallStep ==
    ASSUME FactoryInv, NEW u \in Users, Call(u)
    PROVE  FactoryInv'
  <1>1. /\ Typed /\ pc[u] = "idle" /\ script[u] # << >> /\ pc' = [pc EXCEPT ![u] = "lock"]
        /\ Arg(u).op \in {"ForResource", "Start", "WaitForCacheSync", "Shutdown"}
        /\ UNCHANGED <<script, todo, factory, goroutines, handedOut, shutDown>>
    BY DEF FactoryInv, Call, Calling, Goto
  <1>2. Arg(u).op = "ForResource" => Arg(u).type \in Types
    BY ArgIsType, <1>1 DEF Call, Calling
  <1>3. Typed'
    BY <1>1 DEF Typed, factory, goroutines, Labels
  <1>4. Exclusive'
    BY <1>1, <1>2 DEF FactoryInv, Typed, Exclusive, Arg, factory, Holding
  <1>5. Filed' /\ Counted'
    BY <1>1 DEF FactoryInv, Filed, Counted, factory, goroutines
  <1> QED
    BY <1>3, <1>4, <1>5 DEF FactoryInv

LEMMA AcquireStep ==
    ASSUME FactoryInv, NEW u \in Users, Acquire(u)
    PROVE  FactoryInv'
  <1>1. /\ Typed /\ pc[u] = "lock" /\ lock = None /\ lock' = u
        /\ pc' = [pc EXCEPT ![u] = "locked"]
        /\ UNCHANGED <<script, todo, informers, startedInformers, wg, shuttingDown,
                       goroutines, handedOut, shutDown>>
    BY DEF FactoryInv, Acquire, Lock, Goto
  <1>2. \A v \in Users : v # None /\ pc[v] \notin Holding
    BY <1>1, FactoryAssumption DEF FactoryInv, Exclusive
  <1>3. Typed'
    BY <1>1 DEF Typed, goroutines, Labels
  <1>4. Exclusive'
    BY <1>1, <1>2 DEF FactoryInv, Typed, Exclusive, Arg, Holding
  <1>5. Filed' /\ Counted'
    BY <1>1 DEF FactoryInv, Filed, Counted, goroutines
  <1> QED
    BY <1>3, <1>4, <1>5 DEF FactoryInv

LEMMA QuietReturn ==
    ASSUME FactoryInv, NEW u \in Users, pc[u] \notin Holding, script[u] # << >>, Return(u),
           UNCHANGED <<todo, factory, alive, runs, handedOut, shutDown>>
    PROVE  FactoryInv'
  <1>1. /\ script' \in [Users -> Seq(Calls)]
        /\ pc' = [pc EXCEPT ![u] = "idle"]
        /\ \A v \in Users \ {u} : script'[v] = script[v]
    BY ReturnMoves DEF FactoryInv
  <1>2. /\ pc' \in [Users -> Labels]
        /\ pc'[u] = "idle" /\ \A v \in Users \ {u} : pc'[v] = pc[v]
    BY <1>1 DEF FactoryInv, Typed, Labels
  <1>3. todo' \in [Users -> SUBSET Types] /\ \A v \in Users \ {u} : todo'[v] = todo[v]
    BY DEF FactoryInv, Typed
  <1>4. \A v \in Users \ {u} :
            script'[v] = script[v] /\ todo'[v] = todo[v] /\ pc'[v] = pc[v]
    BY <1>1, <1>2, <1>3
  <1>5. pc'[u] \in {"idle", "sync"} /\ pc'[u] # "sync"
    BY <1>2
  <1> QED
    BY <1>1, <1>2, <1>3, <1>4, <1>5, QuietStep DEF factory

\* The same under the lock.
LEMMA ReleaseReturn ==
    ASSUME FactoryInv, NEW u \in Users, pc[u] \in Holding, Unlock, Return(u),
           UNCHANGED <<todo, informers, startedInformers, wg, shuttingDown, alive, runs,
                       handedOut, shutDown>>
    PROVE  FactoryInv'
  <1>1. script[u] # << >>
    BY DEF FactoryInv, Exclusive, Holding
  <1>2. /\ script' \in [Users -> Seq(Calls)]
        /\ pc' = [pc EXCEPT ![u] = "idle"]
        /\ \A v \in Users \ {u} : script'[v] = script[v]
    BY <1>1, ReturnMoves DEF FactoryInv
  <1>3. pc' \in [Users -> Labels] /\ pc'[u] = "idle" /\ \A v \in Users \ {u} : pc'[v] = pc[v]
    BY <1>2 DEF FactoryInv, Typed, Labels
  <1>4. todo' \in [Users -> SUBSET Types] /\ \A v \in Users \ {u} : todo'[v] = todo[v]
    BY DEF FactoryInv, Typed
  <1>5. shuttingDown' \in BOOLEAN /\ shuttingDown' = shuttingDown
    BY DEF FactoryInv, Typed
  <1>6. \A v \in Users \ {u} :
            script'[v] = script[v] /\ todo'[v] = todo[v] /\ pc'[v] = pc[v]
    BY <1>2, <1>3, <1>4
  <1>7. pc'[u] \in {"idle", "sync", "draining"} /\ ~(pc'[u] # "idle") /\ pc'[u] # "draining"
    BY <1>3
  <1> QED
    BY <1>2, <1>3, <1>4, <1>5, <1>6, <1>7, ReleaseStep

LEMMA LookupStep ==
    ASSUME FactoryInv, NEW u \in Users, Lookup(u)
    PROVE  FactoryInv'
  <1> DEFINE t == Arg(u).type
  <1>1. /\ t \in Types /\ pc[u] = "locked" /\ lock = u /\ script[u] # << >>
        /\ UNCHANGED <<todo, informers, startedInformers, wg, shuttingDown, goroutines, shutDown>>
    BY DEF FactoryInv, Exclusive, Lookup, Locked, Holding
  <1>2. CASE informers[t] # None /\ handedOut' = handedOut \cup {informers[t]}
             /\ Unlock /\ Return(u)
    <2>1. /\ script' \in [Users -> Seq(Calls)]
          /\ pc' = [pc EXCEPT ![u] = "idle"]
          /\ \A v \in Users \ {u} : script'[v] = script[v]
      BY <1>1, <1>2, ReturnMoves DEF FactoryInv
    <2>2. Typed'
      BY <1>1, <1>2, <2>1 DEF FactoryInv, Typed, goroutines, Labels
    <2>3. Exclusive'
      BY <1>1, <1>2, <2>1, FactoryAssumption
         DEF FactoryInv, Typed, Exclusive, Arg, Unlock, Holding
    <2>4. Filed'
      BY <1>1, <1>2 DEF FactoryInv, Filed
    <2>5. Counted'
      BY <1>1 DEF FactoryInv, Counted, goroutines
    <2> QED
      BY <2>2, <2>3, <2>4, <2>5 DEF FactoryInv
  <1>3. CASE informers[t] = None /\ Goto(u, "newFunc") /\ UNCHANGED <<lock, script, handedOut>>
    <2>1. Typed'
      BY <1>1, <1>3 DEF FactoryInv, Typed, Goto, goroutines, Labels
    <2>2. Exclusive'
      BY <1>1, <1>3 DEF FactoryInv, Typed, Exclusive, Arg, Goto, Holding
    <2>3. Filed' /\ Counted'
      BY <1>1, <1>3 DEF FactoryInv, Filed, Counted, goroutines
    <2> QED
      BY <2>1, <2>2, <2>3 DEF FactoryInv
  <1> QED
    BY <1>2, <1>3 DEF Lookup

LEMMA NewInformerStep ==
    ASSUME FactoryInv, NEW u \in Users, NewInformer(u)
    PROVE  FactoryInv'
  <1> DEFINE t == Arg(u).type
             informer == [type |-> t, by |-> u]
  <1>1. t \in Types /\ informers[t] = None /\ lock = u /\ script[u] # << >>
    BY DEF FactoryInv, Exclusive, NewInformer, Holding
  <1>2. /\ script' \in [Users -> Seq(Calls)]
        /\ pc' = [pc EXCEPT ![u] = "idle"]
        /\ \A v \in Users \ {u} : script'[v] = script[v]
    BY <1>1, ReturnMoves DEF FactoryInv, NewInformer
  <1>3. /\ informer \in Informers /\ informer.type = t /\ informer # None
        /\ informers' = [informers EXCEPT ![t] = informer]
        /\ handedOut' = handedOut \cup {informer}
    BY <1>1, FactoryAssumption DEF NewInformer, Informers
  <1> HIDE DEF informer, t
  <1>4. Typed'
    BY <1>1, <1>2, <1>3 DEF FactoryInv, Typed, NewInformer, goroutines, Labels
  <1>5. Exclusive'
    <2>1. lock' = None /\ \A v \in Users : v # None
      BY FactoryAssumption DEF NewInformer, Unlock
    <2>2. \A v \in Users \ {u} : pc[v] \notin Holding /\ pc'[v] = pc[v] /\ Arg(v)' = Arg(v)
      BY <1>1, <1>2 DEF FactoryInv, Typed, Exclusive, Arg
    <2>3. pc'[u] = "idle" /\ UNCHANGED shuttingDown
      BY <1>2 DEF FactoryInv, Typed, NewInformer
    <2> QED
      BY <1>2, <2>1, <2>2, <2>3 DEF FactoryInv, Exclusive, Holding
  <1>6. Filed'
    BY <1>1, <1>3, FactoryAssumption DEF FactoryInv, Typed, Filed, Informers
  <1>7. Counted'
    BY <1>1, <1>3, FactoryAssumption
       DEF FactoryInv, Typed, Counted, NewInformer, goroutines, Informers
  <1> QED
    BY <1>4, <1>5, <1>6, <1>7 DEF FactoryInv

LEMMA StartInformerStep ==
    ASSUME FactoryInv, NEW u \in Users, NEW t \in Types, StartInformer(u, t)
    PROVE  FactoryInv'
  <1>1. /\ ~shuttingDown /\ ~shutDown
        /\ informers[t] # None /\ informers[t] \in Informers /\ informers[t].type = t
    BY DEF FactoryInv, Typed, Exclusive, Filed, Counted, StartInformer
  <1>2. Exclusive' /\ Filed'
    BY DEF FactoryInv, Typed, Exclusive, Filed, Arg, StartInformer, Holding
  <1>3. CASE UNCHANGED <<wg, startedInformers, goroutines>>
    BY <1>2, <1>3 DEF FactoryInv, Typed, Counted, StartInformer, goroutines
  <1>4. CASE /\ t \notin startedInformers
             /\ wg' = wg + 1 /\ startedInformers' = Mark(t)
             /\ alive' = alive \cup {informers[t]}
             /\ runs' = [runs EXCEPT ![informers[t]] = @ + 1]
    <2>1. runs[informers[t]] = 0 /\ informers[t] \notin alive
      BY <1>1, <1>4 DEF FactoryInv, Typed, Counted
    <2>2. Typed'
      BY <1>1, <1>4 DEF FactoryInv, Typed, StartInformer, Mark
    <2>3. IsFiniteSet(alive') /\ wg' = Cardinality(alive')
      BY <1>4, <2>1, FS_AddElement DEF FactoryInv, Counted
    <2>4. Counted'
      BY <1>1, <1>4, <2>1, <2>3 DEF FactoryInv, Typed, Counted, StartInformer, Mark
    <2> QED
      BY <1>2, <2>2, <2>4 DEF FactoryInv
  <1> QED
    BY <1>3, <1>4 DEF StartInformer

\* Start reads the map under the lock, or returns because of a Shutdown.
LEMMA StartStep ==
    ASSUME FactoryInv, NEW u \in Users, Start(u)
    PROVE  FactoryInv'
  <1>1. /\ pc[u] = "locked" /\ lock = u /\ script[u] # << >>
        /\ UNCHANGED <<informers, startedInformers, wg, shuttingDown, goroutines,
                       handedOut, shutDown>>
    BY DEF FactoryInv, Exclusive, Start, Locked, Holding
  <1>2. CASE /\ MayStart /\ Goto(u, "start") /\ UNCHANGED <<lock, script>>
             /\ todo' = [todo EXCEPT ![u] = {t \in Types : informers[t] # None}]
    <2>1. Typed'
      BY <1>1, <1>2 DEF FactoryInv, Typed, Goto, goroutines, Labels
    <2>2. Exclusive'
      BY <1>1, <1>2 DEF FactoryInv, Typed, Exclusive, Arg, MayStart, Goto, Holding
    <2>3. Filed' /\ Counted'
      BY <1>1 DEF FactoryInv, Filed, Counted, goroutines
    <2> QED
      BY <2>1, <2>2, <2>3 DEF FactoryInv
  <1>3. CASE Unlock /\ Return(u) /\ UNCHANGED todo
    BY <1>1, <1>3, ReleaseReturn DEF goroutines, Holding
  <1> QED
    BY <1>2, <1>3 DEF Start

LEMMA StartReturnsStep ==
    ASSUME FactoryInv, NEW u \in Users, StartReturns(u)
    PROVE  FactoryInv'
  BY ReleaseReturn DEF StartReturns, goroutines, Holding

LEMMA RunReturnsStep ==
    ASSUME FactoryInv, NEW i \in Informers, RunReturns(i)
    PROVE  FactoryInv'
  <1>1. IsFiniteSet(alive') /\ wg' = Cardinality(alive')
    BY FS_RemoveElement DEF FactoryInv, Counted, RunReturns, Done
  <1>2. Counted'
    BY <1>1 DEF FactoryInv, Counted, RunReturns
  <1>3. Typed' /\ Exclusive' /\ Filed'
    BY DEF FactoryInv, Typed, Exclusive, Filed, Arg, RunReturns, users
  <1> QED
    BY <1>2, <1>3 DEF FactoryInv

\* A Shutdown begins while nobody starts anything.
LEMMA ShutdownStep ==
    ASSUME FactoryInv, NEW u \in Users, Shutdown(u)
    PROVE  FactoryInv'
  <1>1. /\ Typed /\ pc[u] = "locked" /\ script[u] # << >>
        /\ pc' = [pc EXCEPT ![u] = "draining"]
    BY DEF FactoryInv, Exclusive, Shutdown, Locked, Goto
  <1>2. pc' \in [Users -> Labels] /\ pc'[u] = "draining" /\ \A v \in Users \ {u} : pc'[v] = pc[v]
    BY <1>1 DEF Typed, Labels
  <1>3. /\ script' \in [Users -> Seq(Calls)] /\ todo' \in [Users -> SUBSET Types]
        /\ \A v \in Users \ {u} :
              script'[v] = script[v] /\ todo'[v] = todo[v] /\ pc'[v] = pc[v]
    BY <1>1, <1>2 DEF Typed, Shutdown
  <1>4. pc[u] \in Holding /\ pc'[u] \in {"idle", "sync", "draining"} /\ script'[u] # << >>
    BY <1>1, <1>2 DEF Holding, Shutdown
  <1>5. /\ Unlock /\ shuttingDown' \in BOOLEAN /\ shuttingDown'
        /\ UNCHANGED <<informers, startedInformers, wg, alive, runs, handedOut, shutDown>>
    BY DEF Shutdown, goroutines
  <1> QED
    BY <1>2, <1>3, <1>4, <1>5, ReleaseStep

\* It returns when nothing runs.
LEMMA DrainedStep ==
    ASSUME FactoryInv, NEW u \in Users, Drained(u)
    PROVE  FactoryInv' /\ shuttingDown /\ alive = {}
  <1>1. alive = {} /\ shuttingDown /\ script[u] # << >>
    BY FS_EmptySet DEF FactoryInv, Exclusive, Counted, Drained
  <1>2. /\ script' \in [Users -> Seq(Calls)]
        /\ pc' = [pc EXCEPT ![u] = "idle"]
        /\ \A v \in Users \ {u} : script'[v] = script[v]
    BY <1>1, ReturnMoves DEF FactoryInv, Drained
  <1>3. Typed'
    BY <1>2 DEF FactoryInv, Typed, Drained, factory, goroutines, Labels
  <1>4. Exclusive'
    BY <1>2 DEF FactoryInv, Typed, Exclusive, Arg, Drained, factory, Holding
  <1>5. Filed' /\ Counted'
    BY <1>1 DEF FactoryInv, Filed, Counted, Drained, factory, goroutines
  <1> QED
    BY <1>1, <1>3, <1>4, <1>5 DEF FactoryInv

\* The other steps of a user touch neither the factory nor what runs.
LEMMA OtherStep ==
    ASSUME FactoryInv, NEW u \in Users,
           \/ ForResource(u) \/ WaitForCacheSync(u) \/ WaitReturns(u) \/ Close(u)
           \/ \E t \in Types : Synced(u, t)
    PROVE  FactoryInv'
  <1>1. CASE ForResource(u)
    BY <1>1, QuietReturn DEF ForResource, Calling, goroutines, Holding
  <1>2. CASE WaitForCacheSync(u)
    <2>1. /\ Typed /\ pc[u] = "locked" /\ script[u] # << >> /\ Unlock
          /\ pc' = [pc EXCEPT ![u] = "sync"] /\ todo' = [todo EXCEPT ![u] = Started]
          /\ UNCHANGED <<script, informers, startedInformers, wg, shuttingDown, alive, runs,
                         handedOut, shutDown>>
      BY <1>2 DEF FactoryInv, Exclusive, WaitForCacheSync, Locked, Goto, goroutines
    <2>2. pc' \in [Users -> Labels] /\ pc'[u] = "sync" /\ \A v \in Users \ {u} : pc'[v] = pc[v]
      BY <2>1 DEF Typed, Labels
    <2>3. /\ script' \in [Users -> Seq(Calls)] /\ todo' \in [Users -> SUBSET Types]
          /\ \A v \in Users \ {u} :
                script'[v] = script[v] /\ todo'[v] = todo[v] /\ pc'[v] = pc[v]
      BY <2>1, <2>2 DEF Typed, Started
    <2>4. /\ pc[u] \in Holding /\ pc'[u] \in {"idle", "sync", "draining"}
          /\ script'[u] # << >> /\ pc'[u] # "draining" /\ shuttingDown' \in BOOLEAN
      BY <2>1, <2>2 DEF Holding, Typed
    <2> QED
      BY <2>1, <2>2, <2>3, <2>4, ReleaseStep
  <1>3. CASE WaitReturns(u)
    BY <1>3, QuietReturn DEF FactoryInv, Exclusive, WaitReturns, goroutines, Holding
  <1>4. CASE Close(u)
    BY <1>4, QuietReturn DEF Close, Calling, goroutines, Holding
  <1>5. ASSUME NEW t \in Types, Synced(u, t)
        PROVE  FactoryInv'
    BY <1>5, QuietStep DEF FactoryInv, Typed, Exclusive, Synced, goroutines, Holding
  <1> QED
    BY <1>1, <1>2, <1>3, <1>4, <1>5

LEMMA FactoryStep == FactoryInv /\ [Next]_vars => FactoryInv'
  <1> SUFFICES ASSUME FactoryInv, [Next]_vars PROVE FactoryInv'
    OBVIOUS
  <1>1. ASSUME NEW u \in Users, Begin(u) PROVE FactoryInv'
    BY <1>1, CallStep, OtherStep DEF Begin
  <1>2. ASSUME NEW u \in Users, Inside(u) PROVE FactoryInv'
    BY <1>2, AcquireStep, LookupStep, NewInformerStep, StartStep, StartInformerStep,
       StartReturnsStep, ShutdownStep, DrainedStep, OtherStep DEF Inside
  <1>3. ASSUME NEW i \in Informers, Sync(i) PROVE FactoryInv'
    BY <1>3 DEF FactoryInv, Typed, Exclusive, Filed, Counted, Arg, Sync, users, factory
  <1>4. CASE UNCHANGED vars
    BY <1>4 DEF FactoryInv, Typed, Exclusive, Filed, Counted, Arg, vars, users,
                factory, goroutines
  <1> QED
    BY <1>1, <1>2, <1>3, <1>4, RunReturnsStep DEF Next

-----------------------------------------------------------------------------

LEMMA FactoryAlways == Spec => []FactoryInv
  BY FactoryInit, FactoryStep, PTL DEF Spec

\* Whatever the users of a factory call, in whatever order: a handler that is
\* added to an informer for a type is added to the only one there is.
THEOREM OneInformer == Spec => []OneInformerPerType
  <1>1. FactoryInv => OneInformerPerType
    BY DEF FactoryInv, Filed, OneInformerPerType
  <1> QED
    BY <1>1, FactoryAlways, PTL

\* Nobody keeps the lock while it waits, in Shutdown or in WaitForCacheSync, nor
\* after its call: whoever has it has yet to reach the Unlock of its method.
THEOREM LockIsNeverKept == Spec => [](\A u \in Users : lock = u => pc[u] \in Holding)
  <1>1. FactoryInv => \A u \in Users : lock = u => pc[u] \in Holding
    BY DEF FactoryInv, Exclusive
  <1> QED
    BY <1>1, FactoryAlways, PTL

\* However many goroutines call Start, and how often, an informer runs once.
THEOREM StartIsSafe == Spec => []RunsOnce
  <1>1. FactoryInv => RunsOnce
    BY DEF FactoryInv, Counted, RunsOnce
  <1> QED
    BY <1>1, FactoryAlways, PTL

-----------------------------------------------------------------------------
(* InformerFactory implements InformerLifecycle.                           *)

phases == [t \in Types |-> Phase(t)]
downs  == IF shutDown THEN "done" ELSE IF shuttingDown THEN "begun" ELSE "no"

LEMMA LifecycleInit == Init => Lifecycle!Init
  BY DEF Init, Lifecycle!Init, Phase

\* A step that moves the informer of one type, and no other.
LEMMA OneMoves ==
    ASSUME NEW t \in Types, UNCHANGED <<shuttingDown, shutDown>>,
           \A s \in Types \ {t} : Phase(s)' = Phase(s),
           \/ Phase(t) = "absent" /\ Phase(t)' = "created"
           \/ Phase(t) = "created" /\ Phase(t)' = "running" /\ downs = "no"
           \/ Phase(t) = "running" /\ Phase(t)' = "stopped"
    PROVE  Lifecycle!Next
  <1>1. phases' = [phases EXCEPT ![t] = Phase(t)'] /\ phases[t] = Phase(t)
    BY DEF phases
  <1>2. downs' = downs
    BY DEF downs
  <1> QED
    BY <1>1, <1>2 DEF phases, downs, Lifecycle!Next, Lifecycle!Create,
       Lifecycle!Run, Lifecycle!Stop, Lifecycle!Move

LEMMA Stutters ==
    ASSUME UNCHANGED <<informers, alive, runs, shuttingDown, shutDown>>
    PROVE  UNCHANGED Lifecycle!vars
  BY DEF Lifecycle!vars, Phase

LEMMA NewInformerCreates ==
    ASSUME FactoryInv, NEW u \in Users, NewInformer(u)
    PROVE  Lifecycle!Next
  <1>1. PICK t \in Types, i \in Informers :
           /\ informers[t] = None /\ i.type = t /\ i # None
           /\ informers' = [informers EXCEPT ![t] = i]
    <2> DEFINE informer == [type |-> Arg(u).type, by |-> u]
    <2>1. /\ Arg(u).type \in Types /\ informers[Arg(u).type] = None
          /\ informers' = [informers EXCEPT ![Arg(u).type] = informer]
      BY DEF FactoryInv, Exclusive, NewInformer
    <2>2. informer \in Informers /\ informer.type = Arg(u).type /\ informer # None
      BY <2>1, FactoryAssumption DEF Informers
    <2> HIDE DEF informer
    <2> QED
      BY <2>1, <2>2
  <1>2. runs[i] = 0 /\ i \notin alive
    BY <1>1 DEF FactoryInv, Typed, Counted
  <1>3. UNCHANGED <<alive, runs, shuttingDown, shutDown>>
    BY DEF NewInformer, goroutines
  <1>4. Phase(t) = "absent" /\ Phase(t)' = "created"
    BY <1>1, <1>2, <1>3 DEF FactoryInv, Typed, Phase
  <1>5. \A s \in Types \ {t} : Phase(s)' = Phase(s)
    BY <1>1, <1>3 DEF FactoryInv, Typed, Phase
  <1> QED
    BY <1>3, <1>4, <1>5, OneMoves

LEMMA StartInformerRuns ==
    ASSUME FactoryInv, NEW u \in Users, NEW t \in Types, StartInformer(u, t)
    PROVE  Lifecycle!Next \/ UNCHANGED Lifecycle!vars
  <1>1. /\ ~shuttingDown /\ ~shutDown
        /\ informers[t] # None /\ informers[t] \in Informers /\ informers[t].type = t
        /\ UNCHANGED <<informers, shuttingDown, shutDown>>
    BY DEF FactoryInv, Typed, Exclusive, Filed, Counted, StartInformer
  <1>2. CASE UNCHANGED <<wg, startedInformers, goroutines>>
    BY <1>1, <1>2, Stutters DEF goroutines
  <1>3. CASE /\ t \notin startedInformers
             /\ alive' = alive \cup {informers[t]}
             /\ runs' = [runs EXCEPT ![informers[t]] = @ + 1]
    <2>1. runs[informers[t]] = 0 /\ informers[t] \notin alive
      BY <1>1, <1>3 DEF FactoryInv, Typed, Counted
    <2>2. Phase(t) = "created" /\ Phase(t)' = "running"
      BY <1>1, <1>3, <2>1 DEF Phase
    <2>3. ASSUME NEW s \in Types \ {t} PROVE Phase(s)' = Phase(s)
      <3>1. informers[s] # informers[t]
        BY <1>1 DEF FactoryInv, Filed
      <3> QED
        BY <1>1, <1>3, <3>1 DEF FactoryInv, Typed, Phase
    <2> QED
      BY <1>1, <2>2, <2>3, OneMoves DEF downs
  <1> QED
    BY <1>2, <1>3 DEF StartInformer

LEMMA RunReturnsStops ==
    ASSUME FactoryInv, NEW i \in Informers, RunReturns(i)
    PROVE  Lifecycle!Next
  <1>1. /\ i \in alive /\ runs[i] > 0 /\ informers[i.type] = i /\ i.type \in Types
        /\ alive' = alive \ {i}
        /\ UNCHANGED <<informers, runs, shuttingDown, shutDown>>
    BY DEF FactoryInv, Counted, RunReturns, Informers
  <1>2. i # None
    BY FactoryAssumption
  <1>3. Phase(i.type) = "running" /\ Phase(i.type)' = "stopped"
    BY <1>1, <1>2 DEF Phase
  <1>4. ASSUME NEW s \in Types \ {i.type} PROVE Phase(s)' = Phase(s)
    <2>1. informers[s] # i
      BY <1>2 DEF FactoryInv, Filed
    <2> QED
      BY <1>1, <2>1 DEF Phase
  <1> QED
    BY <1>1, <1>3, <1>4, OneMoves

\* Shutdown and its return leave every informer in its phase.
LEMMA ShutdownSteps ==
    ASSUME FactoryInv, NEW u \in Users, Shutdown(u) \/ Drained(u)
    PROVE  Lifecycle!Next \/ UNCHANGED Lifecycle!vars
  <1>1. UNCHANGED <<informers, alive, runs>>
    BY DEF Shutdown, Drained, factory, goroutines
  <1>2. phases' = phases
    BY <1>1 DEF phases, Phase
  <1>3. CASE Shutdown(u)
    <2>1. shuttingDown' /\ UNCHANGED shutDown
      BY <1>3 DEF Shutdown
    <2>2. \/ downs = "no" /\ downs' = "begun"
          \/ downs' = downs
      BY <2>1 DEF FactoryInv, Counted, downs
    <2> QED
      BY <1>2, <2>2 DEF phases, downs, Lifecycle!Next, Lifecycle!BeginShutdown,
         Lifecycle!vars
  <1>4. CASE Drained(u)
    <2>1. alive = {} /\ shuttingDown /\ shutDown' /\ UNCHANGED shuttingDown
      BY <1>4, DrainedStep DEF Drained, factory
    <2>2. \/ downs = "begun" /\ downs' = "done"
          \/ downs' = downs
      BY <2>1 DEF downs
    <2>3. \A t \in Types : phases[t] # "running"
      BY <2>1 DEF phases, Phase
    <2> QED
      BY <1>2, <2>2, <2>3 DEF phases, downs, Lifecycle!Next, Lifecycle!EndShutdown,
         Lifecycle!vars
  <1> QED
    BY <1>3, <1>4

LEMMA LifecycleStep == FactoryInv /\ [Next]_vars => [Lifecycle!Next]_(Lifecycle!vars)
  <1> SUFFICES ASSUME FactoryInv, [Next]_vars
               PROVE  Lifecycle!Next \/ UNCHANGED Lifecycle!vars
    OBVIOUS
  <1>1. ASSUME NEW u \in Users,
               \/ ForResource(u) \/ Call(u) \/ Acquire(u) \/ Lookup(u) \/ Start(u)
               \/ WaitForCacheSync(u) \/ Close(u) \/ StartReturns(u) \/ WaitReturns(u)
               \/ \E t \in Types : Synced(u, t)
        PROVE  UNCHANGED Lifecycle!vars
    <2>1. UNCHANGED <<informers, alive, runs, shuttingDown, shutDown>>
      BY <1>1 DEF ForResource, Call, Acquire, Lookup, Start, WaitForCacheSync, Close,
                  StartReturns, WaitReturns, Synced, factory, goroutines
    <2> QED
      BY <2>1, Stutters
  <1>2. ASSUME NEW u \in Users, Begin(u) \/ Inside(u)
        PROVE  Lifecycle!Next \/ UNCHANGED Lifecycle!vars
    BY <1>1, <1>2, NewInformerCreates, StartInformerRuns, ShutdownSteps DEF Begin, Inside
  <1>3. ASSUME NEW i \in Informers, Sync(i)
        PROVE  UNCHANGED Lifecycle!vars
    BY <1>3, Stutters DEF Sync, factory
  <1>4. CASE UNCHANGED vars
    BY <1>4, Stutters DEF vars, factory, goroutines
  <1> QED
    BY <1>2, <1>3, <1>4, RunReturnsStops DEF Next

\* The factory keeps the promise of InformerLifecycle for any number of types,
\* users and stop channels: nothing starts once Shutdown was called, and
\* nothing runs once it has returned.
THEOREM FactoryKeepsLifecycle == Spec => KeepsLifecycle
  <1>1. Init => Lifecycle!Init
    BY LifecycleInit
  <1> QED
    BY <1>1, FactoryAlways, LifecycleStep, PTL DEF Spec, KeepsLifecycle, Lifecycle!Spec

-----------------------------------------------------------------------------
(* What WaitForCacheSync answers.                                          *)

\* Whatever was started before the wait has been visited or will be.
WaitsFor(u) ==
    /\ \A t \in todo[u] : informers[t] # None
    /\ \A i \in due[u] : informers[i.type] = i /\ i.type \in DOMAIN res[u] \cup todo[u]

Answers(u) ==
    \A t \in DOMAIN res[u] :
        /\ t \in Types /\ informers[t] # None
        /\ IF res[u][t] THEN informers[t] \in synced ELSE Arg(u).stop \in closed

WaitTyped ==
    /\ lock \in Users \cup {None} /\ stopCh \in [Informers -> Stops \cup {None}]
    /\ synced \subseteq Informers /\ closed \subseteq Stops
    /\ due \in [Users -> SUBSET Informers] /\ DOMAIN res = Users
    /\ \A t \in startedInformers : informers[t] # None
    /\ \A i \in alive : stopCh[i] \in Stops

WaitInv ==
    /\ FactoryInv /\ WaitTyped
    /\ \A u \in Users : /\ pc[u] = "start" => Arg(u).op = "Start"
                        /\ pc[u] = "sync" => WaitsFor(u) /\ Answers(u)

LEMMA WaitInit == Init => WaitInv
  BY FactoryInit DEF Init, WaitInv, WaitTyped

\* A call with a stop channel has one of them.
LEMMA ArgHasStop ==
    ASSUME Typed, NEW u \in Users, script[u] # << >>,
           Arg(u).op \in {"Start", "WaitForCacheSync", "close"}
    PROVE  Arg(u).stop \in Stops
  <1>1. Arg(u) \in Calls
    BY DEF Typed, Arg
  <1> QED
    BY <1>1 DEF Calls

\* An informer that a user waits for stays filed, whatever others do.
LEMMA FiledStays ==
    ASSUME FactoryInv, [Next]_vars, NEW t \in Types, informers[t] # None
    PROVE  informers'[t] = informers[t]
  <1>1. ASSUME NEW u \in Users, NewInformer(u)
        PROVE  informers'[t] = informers[t]
    <2>1. informers[Arg(u).type] = None
      BY <1>1 DEF NewInformer, FactoryInv, Exclusive
    <2> QED
      BY <1>1, <2>1 DEF NewInformer, FactoryInv, Typed
  <1>2. ASSUME UNCHANGED informers
        PROVE  informers'[t] = informers[t]
    BY <1>2
  <1> QED
    BY <1>1, <1>2 DEF Next, Begin, Inside, ForResource, Call, Acquire, Lookup, Start,
       WaitForCacheSync, Shutdown, Close, StartReturns, WaitReturns, Drained, StartInformer, Synced,
       Sync, RunReturns, vars, users, factory

\* A wait goes on while others, or the informers, do something.
LEMMA WaitGoesOn ==
    ASSUME WaitInv, [Next]_vars, NEW u \in Users, pc'[u] = pc[u],
           script'[u] = script[u], todo'[u] = todo[u], res'[u] = res[u], due'[u] = due[u]
    PROVE  /\ pc'[u] = "start" => (Arg(u).op = "Start")'
           /\ pc'[u] = "sync" => WaitsFor(u)' /\ Answers(u)'
  <1>1. pc'[u] = "start" => (Arg(u).op = "Start")'
    BY DEF WaitInv, Arg
  <1>2. synced \subseteq synced' /\ closed \subseteq closed'
    <2>1. ASSUME NEW v \in Users, Begin(v)
          PROVE  synced \subseteq synced' /\ closed \subseteq closed'
      BY <2>1 DEF Begin, ForResource, Call, Close, goroutines
    <2>2. ASSUME NEW v \in Users, Inside(v)
          PROVE  synced \subseteq synced' /\ closed \subseteq closed'
      BY <2>2 DEF Inside, Acquire, Lookup, NewInformer, Start, StartReturns,
                  WaitForCacheSync, WaitReturns, Shutdown, Drained, StartInformer, Synced,
                  goroutines
    <2>3. ASSUME NEW i \in Informers, Sync(i) \/ RunReturns(i)
          PROVE  synced \subseteq synced' /\ closed \subseteq closed'
      BY <2>3 DEF Sync, RunReturns
    <2>4. CASE UNCHANGED vars
      BY <2>4 DEF vars, goroutines
    <2> QED
      BY <2>1, <2>2, <2>3, <2>4 DEF Next
  <1>3. FactoryInv /\ Typed
    BY DEF WaitInv, FactoryInv
  <1>4. ASSUME pc[u] = "sync"
        PROVE  WaitsFor(u)'
    <2>1. WaitsFor(u) /\ todo[u] \subseteq Types /\ due[u] \subseteq Informers
      BY <1>3, <1>4 DEF WaitInv, WaitTyped, Typed
    <2>2. \A t \in todo[u] : informers'[t] # None
      BY <1>3, <2>1, FiledStays DEF WaitsFor
    <2>3. \A i \in due[u] : informers'[i.type] = i
      <3> TAKE i \in due[u]
      <3>1. i.type \in Types /\ informers[i.type] = i /\ i \in Informers
        BY <2>1 DEF WaitsFor, Informers
      <3>2. i # None
        BY <3>1, FactoryAssumption
      <3> QED
        BY <1>3, <3>1, <3>2, FiledStays
    <2> QED
      BY <2>1, <2>2, <2>3 DEF WaitsFor
  <1>5. ASSUME pc[u] = "sync"
        PROVE  Answers(u)'
    <2>1. Answers(u) /\ Arg(u)' = Arg(u)
      BY <1>5 DEF WaitInv, Arg
    <2>2. \A t \in DOMAIN res[u] : informers'[t] = informers[t]
      BY <1>3, <2>1, FiledStays DEF Answers
    <2> QED
      BY <1>2, <2>1, <2>2 DEF Answers
  <1> QED
    BY <1>1, <1>4, <1>5

\* The steps that begin a wait, or answer for one informer of it.
LEMMA WaitBegins ==
    ASSUME WaitInv, NEW u \in Users, WaitForCacheSync(u)
    PROVE  WaitsFor(u)' /\ Answers(u)'
  <1>1. /\ FactoryInv /\ Typed /\ Counted /\ WaitTyped
        /\ todo'[u] = Started /\ res'[u] = << >> /\ UNCHANGED informers
        /\ due'[u] = {i \in Informers : runs[i] > 0}
    BY DEF WaitInv, FactoryInv, WaitTyped, Typed, WaitForCacheSync, factory
  <1>2. \A i \in Informers : runs[i] > 0 => i.type \in startedInformers /\ informers[i.type] = i
    BY <1>1 DEF Counted
  <1>3. \A i \in Informers : i.type \in Types /\ i # None
    BY FactoryAssumption DEF Informers
  <1>4. \A i \in due'[u] : informers'[i.type] = i /\ i.type \in todo'[u]
    BY <1>1, <1>2, <1>3 DEF Started
  <1>5. WaitsFor(u)'
    BY <1>1, <1>4 DEF WaitsFor, Started
  <1> QED
    BY <1>1, <1>5 DEF Answers

LEMMA WaitAnswers ==
    ASSUME WaitInv, NEW u \in Users, NEW t \in Types, Synced(u, t)
    PROVE  WaitsFor(u)' /\ Answers(u)'
  <1>1. /\ Typed /\ WaitTyped /\ WaitsFor(u) /\ Answers(u)
        /\ pc[u] = "sync" /\ t \in todo[u] /\ todo'[u] = todo[u] \ {t}
        /\ UNCHANGED <<script, due, informers, synced, closed>>
    BY DEF WaitInv, FactoryInv, Typed, Synced, factory, goroutines
  <1>2. PICK b \in BOOLEAN :
           /\ res'[u] = [s \in DOMAIN res[u] \cup {t} |-> IF s = t THEN b ELSE res[u][s]]
           /\ IF b THEN informers[t] \in synced ELSE Arg(u).stop \in closed
    BY <1>1 DEF Synced, WaitTyped
  <1>3. /\ DOMAIN res'[u] = DOMAIN res[u] \cup {t} /\ res'[u][t] = b
        /\ \A s \in DOMAIN res[u] \ {t} : res'[u][s] = res[u][s]
    BY <1>2
  <1>4. WaitsFor(u)'
    BY <1>1, <1>3 DEF WaitsFor
  <1>5. Arg(u)' = Arg(u)
    BY <1>1 DEF Arg
  <1>6. informers[t] # None
    BY <1>1 DEF WaitsFor
  <1>7. Answers(u)'
    <2> SUFFICES ASSUME NEW s \in DOMAIN res'[u]
                 PROVE  /\ s \in Types /\ informers[s] # None
                        /\ IF res'[u][s] THEN informers[s] \in synced ELSE Arg(u).stop \in closed
      BY <1>1, <1>5 DEF Answers
    <2>1. CASE s = t
      BY <1>2, <1>3, <1>6, <2>1
    <2>2. CASE s # t
      BY <1>1, <1>3, <2>2 DEF Answers
    <2> QED
      BY <2>1, <2>2
  <1> QED
    BY <1>4, <1>7

LEMMA WaitTypes == WaitInv /\ [Next]_vars => WaitTyped'
  <1> SUFFICES ASSUME WaitInv, [Next]_vars PROVE WaitTyped'
    OBVIOUS
  <1>1. FactoryInv /\ Typed /\ Exclusive /\ WaitTyped
    BY DEF WaitInv, FactoryInv
  <1>2. \A t \in Types : informers[t] # None => informers'[t] = informers[t]
    BY <1>1, FiledStays
  <1>3. ASSUME NEW u \in Users, NEW t \in Types, StartInformer(u, t)
        PROVE  WaitTyped'
    <2>1. /\ informers[t] # None /\ informers[t] \in Informers /\ Arg(u).stop \in Stops
          /\ UNCHANGED <<lock, informers, synced, closed, due, res>>
      BY <1>1, <1>3, ArgHasStop DEF StartInformer, Exclusive, Typed, WaitInv, goroutines
    <2>2. CASE UNCHANGED <<startedInformers, stopCh, alive>>
      BY <1>1, <2>1, <2>2 DEF WaitTyped
    <2>3. CASE /\ startedInformers' = Mark(t) /\ alive' = alive \cup {informers[t]}
               /\ stopCh' = [stopCh EXCEPT ![informers[t]] = Arg(u).stop]
      <3>1. stopCh' \in [Informers -> Stops \cup {None}]
        BY <1>1, <2>1, <2>3 DEF WaitTyped
      <3>2. \A i \in alive' : stopCh'[i] \in Stops
        <4> TAKE i \in alive'
        <4>1. i \in Informers
          BY <1>1, <2>1, <2>3 DEF WaitInv, FactoryInv, Counted
        <4> QED
          BY <1>1, <2>1, <2>3, <4>1 DEF WaitTyped
      <3>3. \A s \in startedInformers' : informers'[s] # None
        BY <1>1, <2>1, <2>3 DEF WaitTyped, Mark
      <3> QED
        BY <1>1, <2>1, <3>1, <3>2, <3>3 DEF WaitTyped
    <2> QED
      BY <1>3, <2>2, <2>3 DEF StartInformer, goroutines
  <1>4. ASSUME NEW u \in Users, Close(u)
        PROVE  WaitTyped'
    <2>1. Arg(u).stop \in Stops
      BY <1>1, <1>4, ArgHasStop DEF Close, Calling
    <2> QED
      BY <1>1, <1>4, <2>1 DEF WaitTyped, Close, factory, goroutines
  <1>5. ASSUME NEW u \in Users,
               \/ Acquire(u) \/ Lookup(u) \/ NewInformer(u) \/ Start(u) \/ StartReturns(u)
        PROVE  WaitTyped'
    <2>1. /\ lock' \in Users \cup {None}
          /\ UNCHANGED <<startedInformers, stopCh, alive, synced, closed, due, res>>
      BY <1>1, <1>5 DEF WaitTyped, Acquire, Lookup, NewInformer, Start, StartReturns, Lock, Unlock,
         goroutines
    <2> QED
      BY <1>1, <1>2, <2>1 DEF WaitTyped, Typed
  <1>6. ASSUME NEW u \in Users,
               \/ ForResource(u) \/ Call(u) \/ WaitForCacheSync(u) \/ Shutdown(u) \/ Drained(u)
               \/ WaitReturns(u) \/ \E t \in Types : Synced(u, t)
        PROVE  WaitTyped'
    <2>1. /\ lock' \in Users \cup {None}
          /\ UNCHANGED <<informers, startedInformers, stopCh, alive, synced, closed>>
      BY <1>1, <1>6 DEF WaitTyped, ForResource, Call, WaitForCacheSync, Shutdown, Drained,
         WaitReturns, Synced, Unlock, factory, goroutines
    <2>2. due' \in [Users -> SUBSET Informers] /\ DOMAIN res' = Users
      BY <1>1, <1>6 DEF WaitTyped, ForResource, Call, WaitForCacheSync, Shutdown, Drained,
         WaitReturns, Synced
    <2> QED
      BY <1>1, <2>1, <2>2 DEF WaitTyped
  <1>7. ASSUME NEW i \in Informers, Sync(i) \/ RunReturns(i)
        PROVE  WaitTyped'
    BY <1>1, <1>7 DEF WaitTyped, Sync, RunReturns, users, factory
  <1>8. CASE UNCHANGED vars
    BY <1>1, <1>8 DEF WaitTyped, vars, users, factory, goroutines
  <1> QED
    BY <1>3, <1>4, <1>5, <1>6, <1>7, <1>8 DEF Next, Begin, Inside

LEMMA WaitStep == WaitInv /\ [Next]_vars => WaitInv'
  <1> SUFFICES ASSUME WaitInv, [Next]_vars,
                      NEW u \in Users
               PROVE  /\ pc'[u] = "start" => (Arg(u).op = "Start")'
                      /\ pc'[u] = "sync" => WaitsFor(u)' /\ Answers(u)'
    BY FactoryStep, WaitTypes DEF WaitInv
  <1>1. Typed /\ WaitTyped
    BY DEF WaitInv, FactoryInv
  <1>2. ASSUME NEW v \in Users \ {u}, Begin(v) \/ Inside(v)
        PROVE  /\ pc'[u] = pc[u] /\ script'[u] = script[u] /\ todo'[u] = todo[u]
               /\ res'[u] = res[u] /\ due'[u] = due[u]
    BY <1>1, <1>2 DEF Typed, WaitTyped, Begin, Inside, ForResource, Call, Acquire, Lookup,
       NewInformer, Start, WaitForCacheSync, Shutdown, Close, StartReturns, WaitReturns,
       Drained, StartInformer, Synced, Goto, Return
  <1>3. CASE WaitForCacheSync(u)
    BY <1>1, <1>3, WaitBegins DEF WaitForCacheSync, Goto, Typed
  <1>4. ASSUME NEW t \in Types, Synced(u, t)
        PROVE  WaitsFor(u)' /\ Answers(u)' /\ pc'[u] = "sync"
    BY <1>4, WaitAnswers DEF Synced
  <1>5. CASE Start(u) \/ \E t \in Types : StartInformer(u, t)
    <2>1. /\ pc'[u] # "sync"
          /\ pc'[u] = "start" => Arg(u).op = "Start" /\ script'[u] = script[u]
      BY <1>1, <1>5 DEF Start, StartInformer, Goto, Return, Locked, Typed, WaitInv
    <2> QED
      BY <2>1 DEF Arg
  <1>6. CASE \/ ForResource(u) \/ Call(u) \/ Acquire(u) \/ Lookup(u) \/ NewInformer(u)
             \/ Shutdown(u) \/ Drained(u)
             \/ Close(u) \/ StartReturns(u) \/ WaitReturns(u)
    BY <1>1, <1>6 DEF Typed, ForResource, Call, Acquire, Lookup, NewInformer, Shutdown, Close,
       StartReturns,
       WaitReturns, Drained, Goto, Return
  <1>7. CASE UNCHANGED vars \/ \E i \in Informers : Sync(i) \/ RunReturns(i)
    BY <1>7, WaitGoesOn DEF vars, users, Sync, RunReturns
  <1> QED
    BY <1>2, <1>3, <1>4, <1>5, <1>6, <1>7, WaitGoesOn DEF Next, Begin, Inside

LEMMA WaitAlways == Spec => []WaitInv
  BY WaitInit, WaitStep, PTL DEF Spec

\* The types of the factory's state: every started type has an informer, and
\* what runs has a stop channel and is what the wait group counts.
THEOREM FactoryTypes == Spec => []TypeOK
  <1>1. WaitInv => TypeOK
    <2> SUFFICES ASSUME WaitInv PROVE TypeOK
      OBVIOUS
    <2>1. \A t \in Types : informers[t] # None => informers[t] \in [type : {t}, by : Users]
      BY DEF WaitInv, FactoryInv, Typed, Filed, Informers
    <2> QED
      BY <2>1 DEF WaitInv, WaitTyped, FactoryInv, Typed, Labels, Counted, TypeOK
  <1> QED
    BY <1>1, WaitAlways, PTL

\* What WaitForCacheSync answers tells about every informer that was started
\* before the call, however many others are made, started or stopped meanwhile:
\* true only for one that has synced, false only after the stop.
THEOREM SyncReportsAreTrue == Spec => []SyncReportIsTrue
  <1>1. WaitInv => SyncReportIsTrue
    BY DEF WaitInv, WaitsFor, Answers, SyncReportIsTrue
  <1> QED
    BY <1>1, WaitAlways, PTL
=============================================================================
