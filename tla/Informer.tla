------------------------------ MODULE Informer ------------------------------
(***************************************************************************)
(* The generated informer of one resource (informers/externalversions/     *)
(* <group>/<version>/foo.go) over the typed client, restricted to what the *)
(* factory's options say (WithNamespace, WithTweakListOptions).  The       *)
(* reflector that calls ListFunc and WatchFunc is client-go's: it lists,   *)
(* watches from the version of the list, and lists again when the watch    *)
(* breaks.                                                                 *)
(***************************************************************************)
EXTENDS TypedClient, Sequences

CONSTANT MaxBreaks   \* bound on watches that break

VARIABLES
    history,   \* the API server's objects at every version
    scope,     \* [ns, labels]: the factory's namespace and tweakListOptions
    phase,     \* the reflector is about to "list", to "watch", or "watching"
    position,  \* version of the last list or event, 0 before the first
    watch,     \* the watch request
    indexer,   \* [Key -> object or None], the cache
    breaks

reflector == <<phase, position, watch, indexer, breaks>>

InitInformer ==
    /\ phase = "list" /\ position = 0 /\ watch = None /\ breaks = 0
    /\ indexer = [k \in Key |-> None]

ListFunc == List(scope.ns, scope.labels)

\* Mutant: tweakListOptions is not applied to the watch.
WatchFuncUntweaked(rv) == Watch(scope.ns, None, rv)

\* Mutant: options of its own instead of the reflector's.
WatchFuncFromStart(rv) == Watch(scope.ns, scope.labels, 0)

WatchFunc(rv) == Watch(scope.ns, scope.labels, rv)

\* The first list may be served from any version the server still has in its
\* cache; later ones ask for one that is not older than what was seen.
ListAll ==
    /\ phase = "list"
    /\ \E v \in 1 .. Len(history) :
          /\ v >= position
          /\ LET items == Answer(history[v], v, ListFunc).items IN
               indexer' = [k \in Key |-> IF history[v][k] \in items THEN history[v][k] ELSE None]
          /\ position' = v
    /\ phase' = "watch"
    /\ UNCHANGED <<history, scope, watch, breaks>>

OpenWatch ==
    /\ phase = "watch"
    /\ watch' = WatchFunc(position)
    /\ phase' = "watching"
    /\ UNCHANGED <<history, scope, position, indexer, breaks>>

\* The events of the next version that concern the request: ADDED and MODIFIED
\* for what it selects now, DELETED for what it selected before.
Event ==
    /\ phase = "watching" /\ position < Len(history)
    /\ LET old == history[position]
           new == history[position + 1]
           Sees(o) == Selects(watch.ns, watch.labels, o)
       IN indexer' = [k \in Key |-> IF new[k] = old[k] THEN indexer[k]
                                    ELSE IF Sees(new[k]) THEN new[k]
                                    ELSE IF Sees(old[k]) THEN None
                                    ELSE indexer[k]]
    /\ position' = position + 1
    /\ UNCHANGED <<history, scope, phase, watch, breaks>>

Break ==
    /\ phase # "list" /\ breaks < MaxBreaks
    /\ breaks' = breaks + 1
    /\ phase' = "list"
    /\ UNCHANGED <<history, scope, position, watch, indexer>>

Reflect == ListAll \/ OpenWatch \/ Event
=============================================================================
