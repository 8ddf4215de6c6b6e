------------------------- MODULE ProfileCacheProofs -------------------------
(***************************************************************************)
(* Theorems about ProfileCache, for any number of objects, consumers,      *)
(* changes and breaks of the watch, and all options of the factory.        *)
(***************************************************************************)
EXTENDS ProfileCache, FiniteSetTheorems, TLAPS

(***************************************************************************)
(* What the informer selects.  The cache holds only selected objects       *)
(* because everything that is under way on the watch is selected, too.     *)
(***************************************************************************)
Event == [object : Objects, state : States]

SelectedInv ==
    /\ DOMAIN cache = Objects /\ server \in [Objects -> States]
    /\ events \in Seq(Event)
    /\ \A k \in DOMAIN events :
          events[k].state # "absent" => WatchFunc(events[k].object, events[k].state)
    /\ \A o \in Objects : cache[o] # None => InNamespace(o) /\ Tweaked(cache[o].state)

LEMMA SelectedInit == Init => SelectedInv
  BY DEF Init, SelectedInv

LEMMA SelectedStep == SelectedInv /\ [Next]_vars => SelectedInv'
  <1> SUFFICES ASSUME SelectedInv, [Next]_vars PROVE SelectedInv'
    OBVIOUS
  <1>1. /\ UNCHANGED factory
        /\ \A o, state : WatchFunc(o, state)' = WatchFunc(o, state)
        /\ \A o : InNamespace(o)' = InNamespace(o)
        /\ \A state : Tweaked(state)' = Tweaked(state)
    <2>1. UNCHANGED factory
      BY DEF Next, vars, ServerChange, List, Watch, WatchBreaks, ListThroughClient, CopyHeld,
             WriteCopy, Get
    <2> QED
      BY <2>1 DEF WatchFunc, InNamespace, Tweaked
  <1>2. ASSUME UNCHANGED <<cache, server, events>> PROVE SelectedInv'
    BY <1>1, <1>2 DEF SelectedInv
  <1>3. ASSUME NEW o \in Objects, ServerChange(o) PROVE SelectedInv'
    <2>1. PICK state \in States :
             /\ server' = [server EXCEPT ![o] = state] /\ UNCHANGED cache
             /\ \/ UNCHANGED events
                \/ \E e \in Event :
                      /\ events' = Append(events, e)
                      /\ e.state # "absent" => WatchFunc(e.object, e.state)
      <3>1. PICK state \in States :
               /\ server' = [server EXCEPT ![o] = state] /\ UNCHANGED cache
               /\ events' =
                    IF phase = "watch" /\ WatchFunc(o, state)
                    THEN Append(events, [object |-> o, state |-> state])
                    ELSE IF phase = "watch" /\ WatchFunc(o, server[o])
                    THEN Append(events, [object |-> o, state |-> "absent"])
                    ELSE events
        BY <1>3 DEF ServerChange
      <3>2. /\ [object |-> o, state |-> state] \in Event
            /\ [object |-> o, state |-> "absent"] \in Event
        BY DEF Event, States
      <3> QED
        BY <3>1, <3>2
    <2>2. server' \in [Objects -> States]
      BY <2>1 DEF SelectedInv
    <2>3. CASE UNCHANGED events
      BY <1>1, <2>1, <2>2, <2>3 DEF SelectedInv
    <2>4. ASSUME NEW e \in Event, events' = Append(events, e),
                 e.state # "absent" => WatchFunc(e.object, e.state)
          PROVE  SelectedInv'
      <3>1. events' \in Seq(Event)
        BY <2>4 DEF SelectedInv
      <3>2. ASSUME NEW k \in DOMAIN events', events'[k].state # "absent"
            PROVE  WatchFunc(events'[k].object, events'[k].state)
        <4>1. \/ k \in DOMAIN events /\ events'[k] = events[k]
              \/ events'[k] = e
          BY <2>4 DEF SelectedInv
        <4> QED
          BY <2>4, <3>2, <4>1 DEF SelectedInv
      <3> QED
        BY <1>1, <2>1, <2>2, <3>1, <3>2 DEF SelectedInv
    <2> QED
      BY <2>1, <2>3, <2>4
  <1>4. CASE List
    <2>1. /\ UNCHANGED <<server, events>> /\ DOMAIN cache' = Objects
          /\ \A o \in Objects :
                cache'[o] # None => ListFunc(o, server[o]) /\ cache'[o].state = server[o]
      BY <1>4 DEF List, Object
    <2> QED
      BY <1>1, <2>1 DEF SelectedInv, ListFunc
  <1>5. CASE Watch
    <2>1. PICK e \in Event :
             /\ e = Head(events) /\ events # << >> /\ events' = Tail(events) /\ UNCHANGED server
             /\ cache' = [cache EXCEPT ![e.object] =
                    IF e.state = "absent" THEN None
                    ELSE Object(kind.type, e.state, <<NewRound, e.object>>)]
      <3>1. events \in Seq(Event) /\ events # << >>
        BY <1>5 DEF Watch, SelectedInv
      <3>2. PICK e \in Event : e = Head(events)
        BY <3>1
      <3> QED
        BY <1>5, <3>1, <3>2 DEF Watch
    <2>2. e.state # "absent" => InNamespace(e.object) /\ Tweaked(e.state)
      <3>1. 1 \in DOMAIN events /\ e = events[1]
        BY <2>1 DEF SelectedInv
      <3> QED
        BY <3>1 DEF SelectedInv, WatchFunc
    <2>3. /\ events' \in Seq(Event)
          /\ \A k \in DOMAIN events' : \E l \in DOMAIN events : events'[k] = events[l]
      BY <2>1 DEF SelectedInv
    <2>4. \A k \in DOMAIN events' :
             events'[k].state # "absent" => WatchFunc(events'[k].object, events'[k].state)
      BY <2>3 DEF SelectedInv
    <2>5. Object(kind.type, e.state, <<NewRound, e.object>>).state = e.state
      BY DEF Object
    <2>6. DOMAIN cache' = Objects
      BY <2>1 DEF SelectedInv
    <2>7. \A o \in Objects : cache'[o] # None => InNamespace(o) /\ Tweaked(cache'[o].state)
      BY <2>1, <2>2, <2>5 DEF SelectedInv
    <2> QED
      BY <1>1, <2>1, <2>3, <2>4, <2>6, <2>7 DEF SelectedInv
  <1>6. CASE WatchBreaks
    BY <1>1, <1>6 DEF WatchBreaks, SelectedInv
  <1>7. CASE \E c \in Consumers :
                \/ ListThroughClient(c) \/ CopyHeld(c) \/ WriteCopy(c)
                \/ \E o \in Objects : Get(c, o)
    BY <1>2, <1>7 DEF ListThroughClient, CopyHeld, WriteCopy, Get
  <1>8. CASE UNCHANGED vars
    BY <1>2, <1>8 DEF vars
  <1> QED
    BY <1>3, <1>4, <1>5, <1>6, <1>7, <1>8 DEF Next

\* Whatever changes on the server, and whenever the watch breaks, a consumer finds
\* in the cache only what the factory's options select (the list and watch
\* functions of the generated informers).
THEOREM CacheIsSelected == Spec => []OnlySelected
  <1>1. SelectedInv => OnlySelected
    BY DEF SelectedInv, OnlySelected, InNamespace, Tweaked
  <1> QED
    BY SelectedInit, SelectedStep, <1>1, PTL DEF Spec

(***************************************************************************)
(* What a consumer writes to.  Every object in memory was decoded or       *)
(* copied as a whole, in one round; the copies were made in rounds of      *)
(* their own, so that they share no slice with what others read.           *)
(***************************************************************************)
Whole(x, version) ==
    /\ DOMAIN x = {"type", "state", "cells"}
    /\ \E t \in Copied : \E id :
          x.type = t /\ x.cells = [p \in Paths[version][t] |-> id]

MemoryInv ==
    /\ kind \in Kinds
    /\ DOMAIN cache = Objects /\ DOMAIN held = Consumers /\ DOMAIN copy = Consumers
    /\ \A x \in Reached(cache, held) \cup Reached(cache, copy) : Whole(x, kind.version)

ApartInv ==
    /\ MemoryInv /\ dirty = {}
    /\ \A c \in Consumers : copy[c] # None =>
          \A x \in Reached(cache, held) : RoundsOf(copy[c]) \cap RoundsOf(x) = {}

LEMMA ImageFinite ==
    ASSUME NEW S, IsFiniteSet(S), NEW f PROVE IsFiniteSet({f[x] : x \in S})
  <1> DEFINE g == [x \in S |-> f[x]]
  <1>1. g \in Surjection(S, {f[x] : x \in S})
    BY DEF Surjection
  <1> QED
    BY <1>1, FS_Surjection

LEMMA ReachedFinite ==
    ASSUME NEW c, NEW h PROVE IsFiniteSet(Reached(c, h))
  <1>1. IsFiniteSet({c[o] : o \in Objects}) /\ IsFiniteSet({h[k] : k \in Consumers})
    BY CacheAssumption, ImageFinite
  <1>2. IsFiniteSet({c[o] : o \in Objects} \cup {h[k] : k \in Consumers})
    BY <1>1, FS_Union
  <1> QED
    BY <1>2, FS_Subset DEF Reached

LEMMA WholeInOneRound ==
    ASSUME NEW x, NEW version, Whole(x, version)
    PROVE  \E r : RoundsOf(x) \in SUBSET {r}
  BY DEF Whole, RoundsOf

LEMMA RoundIsNew ==
    ASSUME MemoryInv
    PROVE  NewRound \notin Rounds
  <1> DEFINE M == Reached(cache, held) \cup Reached(cache, copy)
             S == {RoundsOf(x) : x \in M}
  <1>1. IsFiniteSet(M)
    BY ReachedFinite, FS_Union
  <1>2. IsFiniteSet(S)
    <2> DEFINE f == [x \in M |-> RoundsOf(x)]
    <2>1. S = {f[x] : x \in M}
      OBVIOUS
    <2> HIDE DEF M, f
    <2> QED
      BY <1>1, <2>1, ImageFinite
  <1>3. \A s \in S : IsFiniteSet(s)
    <2>1. ASSUME NEW x \in M PROVE IsFiniteSet(RoundsOf(x))
      <3>1. PICK r : RoundsOf(x) \in SUBSET {r}
        BY WholeInOneRound DEF MemoryInv
      <3>2. IsFiniteSet({r})
        BY FS_Singleton
      <3> QED
        BY <3>1, <3>2, FS_Subset
    <2> QED
      BY <2>1
  <1>4. IsFiniteSet(UNION S)
    BY <1>2, <1>3, FS_UNION
  <1>5. Rounds = UNION S
    BY DEF Rounds
  <1> HIDE DEF M, S
  <1>6. PICK n \in Nat : n = Cardinality(Rounds)
    BY <1>4, <1>5, FS_CardinalityType
  <1>7. ASSUME 1 .. n + 1 \in SUBSET Rounds PROVE FALSE
    <2>1. Cardinality(1 .. n + 1) <= Cardinality(Rounds)
      BY <1>4, <1>5, <1>7, FS_Subset
    <2>2. Cardinality(1 .. n + 1) = n + 1
      <3>1. 1 \in Int /\ n + 1 \in Int /\ ~(1 > n + 1) /\ n + 1 - 1 + 1 = n + 1
        OBVIOUS
      <3>2. PICK b : b = n + 1
        OBVIOUS
      <3>3. Cardinality(1 .. b) = IF 1 > b THEN 0 ELSE b - 1 + 1
        BY <3>1, <3>2, FS_Interval, Zenon
      <3> QED
        BY <3>1, <3>2, <3>3
    <2> QED
      BY <1>6, <2>1, <2>2
  <1>8. \E r \in 1 .. Cardinality(Rounds) + 1 : r \notin Rounds
    BY <1>6, <1>7
  <1> QED
    BY <1>8 DEF NewRound

\* What is decoded is whole, and so is a copy that is deep.
LEMMA ObjectIsWhole ==
    ASSUME NEW t \in Copied, NEW state, NEW r, NEW o
    PROVE  /\ Whole(Object(t, state, <<r, o>>), kind.version)
           /\ RoundsOf(Object(t, state, <<r, o>>)) \in SUBSET {r}
  BY DEF Whole, Object, RoundsOf

LEMMA CopyIsWhole ==
    ASSUME CopiesAreDeep, kind \in Kinds, NEW x, Whole(x, kind.version), NEW r, NEW o
    PROVE  /\ Whole(DeepCopy(x, <<r, o>>), kind.version)
           /\ RoundsOf(DeepCopy(x, <<r, o>>)) \in SUBSET {r}
  <1>1. PICK t \in Copied : \E id :
           x.type = t /\ x.cells = [p \in Paths[kind.version][t] |-> id]
    BY DEF Whole
  <1>2. PICK paths, fresh : paths = Paths[kind.version][t] /\ fresh = Fresh[kind.version][t]
    OBVIOUS
  <1>3. paths \in SUBSET fresh
    BY <1>2 DEF CopiesAreDeep, Kinds
  <1>4. DeepCopy(x, <<r, o>>) =
          [x EXCEPT !.cells = [p \in DOMAIN @ |-> IF p \in fresh THEN <<r, o>> ELSE @[p]]]
    BY <1>1, <1>2 DEF DeepCopy
  <1>5. [p \in DOMAIN x.cells |-> IF p \in fresh THEN <<r, o>> ELSE x.cells[p]]
           = [p \in paths |-> <<r, o>>]
    BY <1>1, <1>2, <1>3
  <1>6. DeepCopy(x, <<r, o>>) = [x EXCEPT !.cells = [p \in paths |-> <<r, o>>]]
    BY <1>4, <1>5
  <1>7. PICK y : y = DeepCopy(x, <<r, o>>)
    OBVIOUS
  <1>8. /\ DOMAIN y = {"type", "state", "cells"} /\ y.type = t
        /\ y.cells = [p \in paths |-> <<r, o>>]
    BY <1>1, <1>6, <1>7 DEF Whole
  <1>9. Whole(y, kind.version)
    BY <1>2, <1>8 DEF Whole
  <1>10. RoundsOf(y) \in SUBSET {r}
    <2>1. PICK cells : cells = y.cells
      OBVIOUS
    <2>2. \A p \in DOMAIN cells : cells[p][1] = r
      BY <1>8, <2>1
    <2> QED
      BY <2>1, <2>2 DEF RoundsOf
  <1> QED
    BY <1>7, <1>9, <1>10

\* An object that the next step decodes or copies.
New(x) == Whole(x, kind.version) /\ RoundsOf(x) \in SUBSET {NewRound}

LEMMA ReachedFrom ==
    ASSUME NEW c, NEW h, NEW x
    PROVE  x \in Reached(c, h) <=>
              /\ x # None
              /\ (\E o \in Objects : x = c[o]) \/ \E k \in Consumers : x = h[k]
  BY DEF Reached

\* What a step does to memory.
LEMMA MemoryEffect ==
    ASSUME CopiesAreDeep, MemoryInv, [Next]_vars
    PROVE  /\ UNCHANGED kind
           /\ DOMAIN cache' = Objects /\ DOMAIN held' = Consumers /\ DOMAIN copy' = Consumers
           /\ \/ /\ UNCHANGED <<held, copy>>
                 /\ \A o \in Objects :
                       cache'[o] \in {None, cache[o]} \/ New(cache'[o])
              \/ /\ UNCHANGED <<cache, copy>>
                 /\ \A c \in Consumers :
                       \/ held'[c] = held[c] \/ New(held'[c])
                       \/ \E o \in Objects : held'[c] = cache[o]
              \/ /\ UNCHANGED <<cache, held>>
                 /\ \A c \in Consumers :
                       copy'[c] \in {None, copy[c]} \/ New(copy'[c])
  <1>1. kind.type \in Copied /\ ListOf[kind.type] \in Copied
    BY DEF MemoryInv, Kinds, Copied, ListOf
  <1>2. \A t \in Copied : \A state, o : New(Object(t, state, <<NewRound, o>>))
    BY ObjectIsWhole DEF New
  <1>3. /\ DOMAIN cache = Objects /\ DOMAIN held = Consumers /\ DOMAIN copy = Consumers
    BY DEF MemoryInv
  <1> HIDE DEF New
  <1>4. ASSUME NEW o \in Objects, ServerChange(o)
        PROVE  UNCHANGED <<kind, cache, held, copy>>
    BY <1>4 DEF ServerChange
  <1>5. CASE List
    BY <1>1, <1>2, <1>3, <1>5 DEF List
  <1>6. CASE Watch
    <2>1. PICK o, y : /\ UNCHANGED <<kind, held, copy>>
                      /\ y = None \/ New(y)
                      /\ cache' = [cache EXCEPT ![o] = y]
      BY <1>1, <1>2, <1>6 DEF Watch
    <2>2. DOMAIN cache' = Objects
      BY <1>3, <2>1
    <2>3. ASSUME NEW u \in Objects PROVE cache'[u] \in {None, cache[u]} \/ New(cache'[u])
      <3>1. cache'[u] = cache[u] \/ cache'[u] = y
        BY <1>3, <2>1
      <3> QED
        BY <2>1, <3>1
    <2>4. UNCHANGED <<held, copy>> /\ UNCHANGED kind
      BY <2>1
    <2>5. DOMAIN held' = Consumers /\ DOMAIN copy' = Consumers
      BY <1>3, <2>4
    <2> QED
      BY <2>2, <2>3, <2>4, <2>5
  <1>7. CASE WatchBreaks
    BY <1>3, <1>7 DEF WatchBreaks
  <1>8. ASSUME NEW c \in Consumers, NEW o \in Objects, Get(c, o)
        PROVE  /\ UNCHANGED <<kind, cache, copy>> /\ held' = [held EXCEPT ![c] = cache[o]]
    BY <1>8 DEF Get
  <1>9. ASSUME NEW c \in Consumers, ListThroughClient(c)
        PROVE  /\ UNCHANGED <<kind, cache, copy>>
               /\ \E y : New(y) /\ held' = [held EXCEPT ![c] = y]
    BY <1>1, <1>2, <1>9 DEF ListThroughClient
  <1>10. ASSUME NEW c \in Consumers, CopyHeld(c)
         PROVE  /\ UNCHANGED <<kind, cache, held>>
                /\ \E y : New(y) /\ copy' = [copy EXCEPT ![c] = y]
    <2>1. held[c] \in Reached(cache, held)
      BY <1>10, ReachedFrom DEF CopyHeld
    <2>2. Whole(held[c], kind.version) /\ kind \in Kinds
      BY <2>1 DEF MemoryInv
    <2>3. New(DeepCopy(held[c], <<NewRound, None>>))
      BY <2>2, CopyIsWhole DEF New
    <2> QED
      BY <1>10, <2>3 DEF CopyHeld
  <1>11. ASSUME NEW c \in Consumers, WriteCopy(c)
         PROVE  UNCHANGED <<kind, cache, held>> /\ copy' = [copy EXCEPT ![c] = None]
    BY <1>11 DEF WriteCopy
  <1>12. CASE UNCHANGED vars
    BY <1>3, <1>12 DEF vars
  <1>13. CASE \E o \in Objects : ServerChange(o)
    BY <1>3, <1>4, <1>13
  <1>14. CASE \E c \in Consumers : ListThroughClient(c) \/ \E o \in Objects : Get(c, o)
    BY <1>3, <1>8, <1>9, <1>14
  <1>15. CASE \E c \in Consumers : CopyHeld(c) \/ WriteCopy(c)
    BY <1>3, <1>10, <1>11, <1>15
  <1> QED
    BY <1>5, <1>6, <1>7, <1>12, <1>13, <1>14, <1>15 DEF Next

LEMMA MemoryStep ==
    ASSUME CopiesAreDeep, MemoryInv, [Next]_vars
    PROVE  MemoryInv'
  <1>1. \A x \in Reached(cache, held) \cup Reached(cache, copy) : Whole(x, kind.version)
    BY DEF MemoryInv
  <1>2. \A x : New(x) => Whole(x, kind.version)
    BY DEF New
  <1>3. ASSUME NEW x \in Reached(cache', held') \cup Reached(cache', copy')
        PROVE  Whole(x, kind.version)
    <2>1. x # None /\ \/ \E o \in Objects : x = cache'[o]
                      \/ \E c \in Consumers : x = held'[c] \/ x = copy'[c]
      BY ReachedFrom
    <2>2. \/ New(x)
          \/ \E o \in Objects : x = cache[o]
          \/ \E c \in Consumers : x = held[c] \/ x = copy[c]
      BY <2>1, MemoryEffect
    <2> QED
      BY <1>1, <1>2, <2>1, <2>2, ReachedFrom
  <1> QED
    BY <1>3, MemoryEffect DEF MemoryInv

LEMMA ApartStep == ASSUME CopiesAreDeep, ApartInv, [Next]_vars PROVE ApartInv'
  <1>1. MemoryInv /\ MemoryInv' /\ NewRound \notin Rounds
    BY MemoryStep, RoundIsNew DEF ApartInv
  <1>2. \A x \in Reached(cache, held) \cup Reached(cache, copy) :
            \A y : New(y) => RoundsOf(x) \cap RoundsOf(y) = {}
    BY <1>1 DEF Rounds, New
  <1>3. ASSUME NEW c \in Consumers, copy'[c] # None, NEW x \in Reached(cache', held')
        PROVE  RoundsOf(copy'[c]) \cap RoundsOf(x) = {}
    <2>1. x # None /\ \/ \E o \in Objects : x = cache'[o]
                      \/ \E k \in Consumers : x = held'[k]
      BY ReachedFrom
    <2>2. ASSUME UNCHANGED copy, x \in Reached(cache, held) \/ New(x)
          PROVE  RoundsOf(copy'[c]) \cap RoundsOf(x) = {}
      <3>1. copy[c] \in Reached(cache, copy) /\ copy'[c] = copy[c]
        BY <1>3, <2>2, ReachedFrom
      <3> QED
        BY <1>2, <1>3, <2>2, <3>1 DEF ApartInv
    <2>3. CASE /\ UNCHANGED <<held, copy>>
               /\ \A o \in Objects : cache'[o] \in {None, cache[o]} \/ New(cache'[o])
      <3>1. x \in Reached(cache, held) \/ New(x)
        BY <2>1, <2>3, ReachedFrom
      <3> QED
        BY <2>2, <2>3, <3>1
    <2>4. CASE /\ UNCHANGED <<cache, copy>>
               /\ \A k \in Consumers : \/ held'[k] = held[k] \/ New(held'[k])
                                       \/ \E o \in Objects : held'[k] = cache[o]
      <3>1. x \in Reached(cache, held) \/ New(x)
        BY <2>1, <2>4, ReachedFrom
      <3> QED
        BY <2>2, <2>4, <3>1
    <2>5. CASE /\ UNCHANGED <<cache, held>>
               /\ \A k \in Consumers : copy'[k] \in {None, copy[k]} \/ New(copy'[k])
      <3>1. CASE copy'[c] = copy[c]
        BY <1>3, <2>5, <3>1 DEF ApartInv
      <3>2. CASE New(copy'[c])
        BY <1>2, <1>3, <2>5, <3>2
      <3> QED
        BY <1>3, <2>5, <3>1, <3>2
    <2> QED
      BY <1>1, <2>3, <2>4, <2>5, MemoryEffect
  <1>4. dirty' = {}
    <2>1. \A d, h : Kept({}, d, h) = {}
      BY DEF Kept
    <2>2. ASSUME NEW c \in Consumers, WriteCopy(c) PROVE dirty' = {}
      <3>1. PICK cell \in Cells(copy[c]) : dirty' = Kept({cell}, cache, held)
        BY <2>2 DEF WriteCopy, ApartInv
      <3>2. \A x \in Reached(cache, held) : cell \notin Cells(x)
        <4>1. PICK p \in DOMAIN copy[c].cells : cell = <<copy[c].cells[p], p>>
          BY <3>1 DEF Cells
        <4>2. ASSUME NEW x \in Reached(cache, held), cell \in Cells(x) PROVE FALSE
          <5>1. PICK q \in DOMAIN x.cells : cell = <<x.cells[q], q>>
            BY <4>2 DEF Cells
          <5>2. copy[c].cells[p][1] = x.cells[q][1]
            BY <4>1, <5>1
          <5>3. copy[c].cells[p][1] \in RoundsOf(copy[c]) /\ x.cells[q][1] \in RoundsOf(x)
            BY DEF RoundsOf
          <5>4. RoundsOf(copy[c]) \cap RoundsOf(x) = {}
            BY <2>2 DEF WriteCopy, ApartInv
          <5> QED
            BY <5>2, <5>3, <5>4
        <4> QED
          BY <4>2
      <3> QED
        BY <3>1, <3>2 DEF Kept
    <2>3. CASE UNCHANGED dirty
      BY <2>3 DEF ApartInv
    <2>4. CASE \E d, h : dirty' = Kept(dirty, d, h)
      BY <2>1, <2>4 DEF ApartInv
    <2> QED
      BY <2>2, <2>3, <2>4
         DEF Next, vars, ServerChange, List, Watch, WatchBreaks, Get, ListThroughClient, CopyHeld
  <1> QED
    BY <1>1, <1>3, <1>4 DEF ApartInv

LEMMA ApartInit == Init => ApartInv
  <1> SUFFICES ASSUME Init PROVE ApartInv
    OBVIOUS
  <1>1. kind \in Kinds
    BY CacheAssumption DEF Init
  <1>2. Reached(cache, held) = {} /\ Reached(cache, copy) = {}
    BY DEF Init, Reached
  <1> QED
    BY <1>1, <1>2 DEF Init, ApartInv, MemoryInv

\* A consumer that writes to its deep copy changes nothing that the cache or another
\* consumer holds, for all types, provided that the generated DeepCopyInto methods
\* copy every slice.
THEOREM CopiesAreOnesOwn ==
    ASSUME CopiesAreDeep
    PROVE  Spec => []ReadOnlyObjectsUntouched
  <1>1. Init => ApartInv
    BY ApartInit
  <1>2. ApartInv /\ [Next]_vars => ApartInv'
    BY ApartStep
  <1>3. ApartInv => ReadOnlyObjectsUntouched
    BY DEF ApartInv, ReadOnlyObjectsUntouched
  <1> QED
    BY <1>1, <1>2, <1>3, PTL DEF Spec
=============================================================================
