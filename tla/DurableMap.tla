----------------------------- MODULE DurableMap -----------------------------
(***************************************************************************)
(* What a storage engine promises: one map, changed by batches of writes,  *)
(* and after a stop the map of some moment since the last sync, or, while  *)
(* writes that are not synced yet are being persisted, a mixture of that   *)
(* map and the current one.                                                *)
(***************************************************************************)
EXTENDS Naturals

CONSTANTS Keys, Slots

VARIABLES
    current,    \* the map
    fallback,   \* the maps a stop may put in its place
    stops       \* how often the engine has stopped

Maps == [Keys -> Slots]

Init ==
    /\ current \in Maps
    /\ fallback = {current}
    /\ stops = 0

\* A batch of writes takes effect as a whole; it may or may not be durable.
Write ==
    /\ UNCHANGED stops
    /\ current' \in Maps
    /\ current' \in fallback'
    /\ fallback' \subseteq fallback \cup {current'}

\* Everything written so far is durable.
Sync ==
    /\ fallback' = {current}
    /\ UNCHANGED <<current, stops>>

\* What was written is being made durable.  Until it is, a stop may undo, key by
\* key, what was not: nothing if all of it was.
Persist ==
    /\ UNCHANGED <<current, stops>>
    /\ current \in fallback'
    /\ \A m \in fallback' :
          m \in Maps /\ \E f \in fallback : \A k \in Keys : m[k] \in {f[k], current[k]}

\* A stop restores one of the maps it may restore, and only those remain.
Stop ==
    /\ stops' = stops + 1
    /\ current' \in fallback
    /\ current' \in fallback'
    /\ fallback' \subseteq fallback

Next == Write \/ Sync \/ Persist \/ Stop

Spec == Init /\ [][Next]_<<current, fallback, stops>>

============================================================================
