---------------------------- MODULE ProfileCache ----------------------------
(***************************************************************************)
(* The cache behind an informer of client/informers/externalversions, and  *)
(* the consumers that read it through the listers of client/listers.  The  *)
(* informer lists and watches what the factory's options select.  A lister *)
(* hands out the cached objects themselves, "which must be treated as      *)
(* read-only": a consumer writes only to a deep copy.  The reflector and   *)
(* the indexer are client-go's.                                            *)
(***************************************************************************)
EXTENDS Naturals, FiniteSets, DeepCopies, SequencesExt

CONSTANTS
    Informers,   \* informers: [kind, options], a kind being [version, type] and
                 \* the options those that the factory was made with
    Objects,     \* objects on the server: [namespace, name]
    Consumers,   \* goroutines that read the cache
    MaxChanges,  \* bound on the changes on the server
    MaxBreaks,   \* bound on how often the watch breaks
    None

Kinds == [version : Versions, type : {"ClusterProfile", "PlacementDecision"}]

ListOf == [ClusterProfile |-> "ClusterProfileList", PlacementDecision |-> "PlacementDecisionList"]

States == {"absent", "plain", "labelled"}

ASSUME CacheAssumption ==
    /\ \A informer \in Informers : informer.kind \in Kinds
    /\ {MaxChanges, MaxBreaks} \subseteq Nat
    /\ IsFiniteSet(Objects) /\ IsFiniteSet(Consumers)

VARIABLES
    kind, factory,  \* the informer's type, and the factory's options; fixed
    server,    \* server[o]: one of States
    events,    \* what the server has yet to send on the watch
    phase,     \* "list" before the informer has listed, then "watch"
    cache,     \* cache[o]: None or the object in the indexer
    held,      \* held[c]: None or the object that c reads
    copy,      \* copy[c]: None or the deep copy that c has made
    dirty,     \* history: the slices that a consumer wrote to
    changes, breaks

vars == <<kind, factory, server, events, phase, cache, held, copy, dirty, changes, breaks>>

-----------------------------------------------------------------------------
(* Objects in memory.                                                      *)

\* cells[p] names the decoding or copying that made the slice at path p: a round,
\* and the object, because a list is decoded in one round.  Every slice is there:
\* one that is nil is shared with nobody.
Object(type, state, id) ==
    [type |-> type, state |-> state, cells |-> [p \in Paths[kind.version][type] |-> id]]

Cells(o) == {<<o.cells[p], p>> : p \in DOMAIN o.cells}

\* The objects that c and h, functions like cache and held, lead to.
Reached(c, h) == ({c[o] : o \in Objects} \cup {h[k] : k \in Consumers}) \ {None}

\* The slices of written that they share.
Kept(written, c, h) == {cell \in written : \E o \in Reached(c, h) : cell \in Cells(o)}

RoundsOf(o) == {o.cells[p][1] : p \in DOMAIN o.cells}

Rounds == UNION {RoundsOf(o) : o \in Reached(cache, held) \cup Reached(cache, copy)}

\* The next decoding or copying: one that made no slice in memory.
NewRound == CHOOSE n \in 1 .. Cardinality(Rounds) + 1 : n \notin Rounds

DeepCopy(o, id) ==
    [o EXCEPT !.cells = [p \in DOMAIN @ |->
        IF p \in Fresh[kind.version][o.type] THEN id ELSE @[p]]]

-----------------------------------------------------------------------------
(* What the informer asks the server for.                                  *)

\* NewSharedInformerFactoryWithOptions applies the options in their order.
Apply(f, option) == [f EXCEPT ![option.name] = option.value]

NewFactory(options) == FoldLeft(Apply, [namespace |-> "", tweak |-> FALSE], options)

InNamespace(o) == factory.namespace \in {"", o.namespace}

\* The tweak is one that selects a label.
Tweaked(state) == factory.tweak => state = "labelled"

ListFunc(o, state) == state # "absent" /\ InNamespace(o) /\ Tweaked(state)

\* Mutant: WatchFunc does not apply tweakListOptions.
MutWatchFunc(o, state) == state # "absent" /\ InNamespace(o)

WatchFunc(o, state) == state # "absent" /\ InNamespace(o) /\ Tweaked(state)

-----------------------------------------------------------------------------

Init ==
    /\ \E informer \in Informers :
         kind = informer.kind /\ factory = NewFactory(informer.options)
    /\ server \in [Objects -> States]
    /\ events = << >> /\ phase = "list"
    /\ cache = [o \in Objects |-> None]
    /\ held = [c \in Consumers |-> None] /\ copy = [c \in Consumers |-> None]
    /\ dirty = {} /\ changes = 0 /\ breaks = 0

\* The server sends an object that the watch selects, and for one that it no
\* longer selects a deletion.
ServerChange(o) ==
    /\ changes < MaxChanges /\ changes' = changes + 1
    /\ \E state \in States \ {server[o]} :
          /\ server' = [server EXCEPT ![o] = state]
          /\ events' =
               IF phase = "watch" /\ WatchFunc(o, state)
               THEN Append(events, [object |-> o, state |-> state])
               ELSE IF phase = "watch" /\ WatchFunc(o, server[o])
               THEN Append(events, [object |-> o, state |-> "absent"])
               ELSE events
    /\ UNCHANGED <<kind, factory, phase, cache, held, copy, dirty, breaks>>

\* The informer replaces what the cache holds by what it lists.
List ==
    /\ phase = "list" /\ phase' = "watch"
    /\ cache' = [o \in Objects |->
           IF ListFunc(o, server[o]) THEN Object(kind.type, server[o], <<NewRound, o>>)
           ELSE None]
    /\ UNCHANGED <<kind, factory, server, events, held, copy, dirty, changes, breaks>>

Watch ==
    /\ phase = "watch" /\ events # << >>
    /\ LET e == Head(events)
       IN  cache' = [cache EXCEPT ![e.object] =
               IF e.state = "absent" THEN None
               ELSE Object(kind.type, e.state, <<NewRound, e.object>>)]
    /\ events' = Tail(events)
    /\ UNCHANGED <<kind, factory, server, phase, held, copy, dirty, changes, breaks>>

\* The watch is lost with what it had to deliver, and the informer lists anew.
WatchBreaks ==
    /\ phase = "watch" /\ breaks < MaxBreaks
    /\ breaks' = breaks + 1 /\ phase' = "list" /\ events' = << >>
    /\ UNCHANGED <<kind, factory, server, cache, held, copy, dirty, changes>>

-----------------------------------------------------------------------------
(* Consumers.                                                              *)

\* Get or List of a lister.
Get(c, o) ==
    /\ cache[o] # None
    /\ held' = [held EXCEPT ![c] = cache[o]]
    /\ dirty' = Kept(dirty, cache, held')
    /\ UNCHANGED <<kind, factory, server, events, phase, cache, copy, changes, breaks>>

\* List of the typed client: what it returns is the consumer's own.
ListThroughClient(c) ==
    /\ held' = [held EXCEPT ![c] = Object(ListOf[kind.type], "listed", <<NewRound, None>>)]
    /\ dirty' = Kept(dirty, cache, held')
    /\ UNCHANGED <<kind, factory, server, events, phase, cache, copy, changes, breaks>>

CopyHeld(c) ==
    /\ held[c] # None /\ copy[c] = None
    /\ copy' = [copy EXCEPT ![c] = DeepCopy(held[c], <<NewRound, None>>)]
    /\ UNCHANGED <<kind, factory, server, events, phase, cache, held, dirty, changes, breaks>>

\* A consumer writes to its copy, in place, and is done with it.
WriteCopy(c) ==
    /\ copy[c] # None
    /\ \E cell \in Cells(copy[c]) : dirty' = Kept(dirty \cup {cell}, cache, held)
    /\ copy' = [copy EXCEPT ![c] = None]
    /\ UNCHANGED <<kind, factory, server, events, phase, cache, held, changes, breaks>>

Next ==
    \/ \E o \in Objects : ServerChange(o)
    \/ List \/ Watch \/ WatchBreaks
    \/ \E c \in Consumers :
         \/ ListThroughClient(c) \/ CopyHeld(c) \/ WriteCopy(c)
         \/ \E o \in Objects : Get(c, o)

\* The server and the connection to it do their work.
Spec == Init /\ [][Next]_vars /\ WF_vars(List) /\ WF_vars(Watch)

-----------------------------------------------------------------------------

\* What a consumer does to its deep copy shows in no cached object and in no
\* object that another consumer reads, whichever field it writes to.
ReadOnlyObjectsUntouched == dirty = {}

\* A consumer is handed only objects of the factory's namespace that the list
\* options select, as the server had them, although the cache may be behind.
OnlySelected ==
    \A o \in Objects : cache[o] # None =>
        /\ factory.namespace \in {"", o.namespace}
        /\ factory.tweak => cache[o].state = "labelled"

\* When the server rests, the cache comes to hold what the options select, all
\* of it and nothing else, although the watch was lost meanwhile.
CacheConverges ==
    <>[](\A o \in Objects :
           IF ListFunc(o, server[o])
           THEN cache[o] # None /\ cache[o].state = server[o] ELSE cache[o] = None)
=============================================================================
