---------------------------- MODULE MediaRegistry ----------------------------
(***************************************************************************)
(* The process-wide directory of media sources: s_media_source_map and its *)
(* mutex, MediaSource::regist, MediaSource::unregist and the destructor    *)
(* (src/src/Common/MediaSource.cpp).                                       *)
(*                                                                         *)
(* The map is keyed by schema/vhost/app/stream and holds weak pointers: a  *)
(* source that lost its last strong reference is still in its slot until   *)
(* its destructor takes the mutex.  regist and unregist change the map     *)
(* under the mutex and emit kBroadcastMediaChanged after they released it, *)
(* so what another thread does in between is an interleaving of the model. *)
(***************************************************************************)
EXTENDS Naturals, FiniteSets

CONSTANTS
    Sources,        \* MediaSource objects
    Keys,           \* schema/vhost/app/stream tuples
    KeyOf,          \* the tuple each object was built with
    None            \* an empty slot, a null pointer

ASSUME RegistryAssumption ==
    /\ KeyOf \in [Sources -> Keys]
    /\ None \notin Sources
    /\ IsFiniteSet(Sources)

VARIABLES
    life,           \* where each object is in its life
    slot,           \* s_media_source_map: the object the weak_ptr was made from
    on,             \* sources that emitted kBroadcastMediaChanged(true)
    off             \* sources that emitted kBroadcastMediaChanged(false)

registryVars == <<life, slot, on, off>>

(***************************************************************************)
(* fresh      not built yet                                                *)
(* built      has an owner, not registered                                 *)
(* announcing in the map, emitEvent(true) still to come                    *)
(* registered in the map and announced                                     *)
(* expired    last reference dropped, ~MediaSource waits for the mutex     *)
(* retiring   erased a slot, emitEvent(false) still to come                *)
(* dead       destroyed                                                    *)
(***************************************************************************)
Lives == {"fresh", "built", "announcing", "registered",
          "expired", "retiring", "dead"}

\* weak_ptr::lock() of a pointer to s yields s rather than null.
Alive(s) == life[s] \in {"built", "announcing", "registered"}

\* What lock() on the slot of k yields: find_l's answer.
Found(k) == IF slot[k] # None /\ Alive(slot[k]) THEN slot[k] ELSE None

RegistryTypeOK ==
    /\ life \in [Sources -> Lives]
    /\ slot \in [Keys -> Sources \cup {None}]
    /\ on \subseteq Sources
    /\ off \subseteq Sources

RegistryInit ==
    /\ life = [s \in Sources |-> "fresh"]
    /\ slot = [k \in Keys |-> None]
    /\ on = {}
    /\ off = {}

Build(s) ==
    /\ life[s] = "fresh"
    /\ life' = [life EXCEPT ![s] = "built"]
    /\ UNCHANGED <<slot, on, off>>

\* Broken variants, named after what they lack; the runs must reject them.
RegistSilent(s) ==                  \* no emitEvent over an expired slot
    /\ life[s] = "built"
    /\ Found(KeyOf[s]) = None
    /\ slot' = [slot EXCEPT ![KeyOf[s]] = s]
    /\ life' = [life EXCEPT ![s] = IF slot[KeyOf[s]] = None
                                   THEN "announcing" ELSE "registered"]
    /\ UNCHANGED <<on, off>>

ErasableAny(s) == slot[KeyOf[s]] # None         \* not even looked at

UnregistAlways(s) ==                \* emitEvent(false) without a hit
    /\ life[s] = "expired"
    /\ slot' = [slot EXCEPT ![KeyOf[s]] =
                    IF @ # None /\ (~Alive(@) \/ @ = s) THEN None ELSE @]
    /\ life' = [life EXCEPT ![s] = "retiring"]
    /\ UNCHANGED <<on, off>>

\* regist(), the part under the mutex.  A live source in the slot makes it
\* throw (another object) or return (the same object): nothing changes.
Regist(s) ==
    /\ life[s] = "built"
    /\ Found(KeyOf[s]) = None
    /\ slot' = [slot EXCEPT ![KeyOf[s]] = s]
    /\ life' = [life EXCEPT ![s] = "announcing"]
    /\ UNCHANGED <<on, off>>

\* regist(), after the mutex: emitEvent(true).
Announce(s) ==
    /\ life[s] = "announcing"
    /\ life' = [life EXCEPT ![s] = "registered"]
    /\ on' = on \cup {s}
    /\ UNCHANGED <<slot, off>>

\* The last shared_ptr goes away.  The thread in regist() holds one.
Expire(s) ==
    /\ life[s] \in {"built", "registered"}
    /\ life' = [life EXCEPT ![s] = "expired"]
    /\ UNCHANGED <<slot, on, off>>

\* ~MediaSource -> unregist(), the part under the mutex: erase the slot if
\* what it points to is gone or is this object.
Erasable(s) ==
    LET held == slot[KeyOf[s]]
    IN  held # None /\ (~Alive(held) \/ held = s)

Unregist(s) ==
    /\ life[s] = "expired"
    /\ IF Erasable(s)
       THEN /\ slot' = [slot EXCEPT ![KeyOf[s]] = None]
            /\ life' = [life EXCEPT ![s] = "retiring"]
       ELSE /\ life' = [life EXCEPT ![s] = "dead"]
            /\ UNCHANGED slot
    /\ UNCHANGED <<on, off>>

\* unregist(), after the mutex: emitEvent(false), and the object is gone.
Retire(s) ==
    /\ life[s] = "retiring"
    /\ life' = [life EXCEPT ![s] = "dead"]
    /\ off' = off \cup {s}
    /\ UNCHANGED <<slot, on>>

RegistryNext ==
    \E s \in Sources :
        Build(s) \/ Regist(s) \/ Announce(s) \/ Expire(s) \/ Unregist(s) \/ Retire(s)

\* A thread inside regist() or a destructor runs on to its end.
RegistryFairness ==
    \A s \in Sources : WF_registryVars(Announce(s) \/ Unregist(s) \/ Retire(s))

RegistrySpec == RegistryInit /\ [][RegistryNext]_registryVars /\ RegistryFairness

-----------------------------------------------------------------------------
(* What the directory promises. *)

\* A source that registered and is still alive is the one its tuple finds:
\* no other source's registration or destruction takes it out of the map.
Reachable ==
    \A s \in Sources :
        life[s] \in {"announcing", "registered"} => slot[KeyOf[s]] = s

\* When every destructor of a tuple's sources has finished, the map has no
\* slot for it left behind (the entry would be a leak, and its event lost).
NoStaleSlot ==
    \A k \in Keys :
        (\A s \in Sources : KeyOf[s] = k => life[s] \in {"fresh", "dead"})
            => slot[k] = None

Of(k, set) == {s \in set : KeyOf[s] = k}

\* Listeners that count a stream up and down by its events (hooks, players)
\* never see more unregistrations of a tuple than registrations.
NeverMoreOffThanOn ==
    \A k \in Keys : Cardinality(Of(k, off)) <= Cardinality(Of(k, on))

\* To its users the directory is the atomic one of StreamDirectory, although
\* entries outlive their source and are cleaned up later by whoever comes.
Directory == INSTANCE StreamDirectory WITH
    holder <- [k \in Keys |-> Found(k)],
    retired <- {s \in Sources : life[s] \in {"expired", "retiring", "dead"}}

ImplementsDirectory == Directory!Spec
=============================================================================
