---------------------------- MODULE Dictionary -----------------------------
(***************************************************************************)
(* What a tree keeps for its clients: a value for each key, set once and   *)
(* never changed, and a saved copy that a crash falls back to.             *)
(***************************************************************************)

CONSTANTS Key, Value

VARIABLES
    dict,       \* the keys that can be found, with their values
    saved,      \* what a crash leaves
    event       \* what the last step did: "quiet", "closed" or "crash"

vars == <<dict, saved, event>>

NoKeys == [k \in {} |-> 0]

Init ==
    /\ dict = NoKeys
    /\ saved = NoKeys
    /\ event = "quiet"

Put ==
    /\ event' = "quiet"
    /\ \E k \in Key \ DOMAIN dict, v \in Value :
          dict' = [j \in DOMAIN dict \cup {k} |-> IF j = k THEN v ELSE dict[j]]
    /\ saved' = saved

Save ==
    /\ event' \in {"quiet", "closed"}
    /\ saved' = dict
    /\ dict' = dict

\* Whatever else happens changes neither copy; a tree is never closed so.
Other ==
    /\ event' = "quiet"
    /\ UNCHANGED <<dict, saved>>

Crash ==
    /\ event' = "crash"
    /\ dict' = saved
    /\ saved' = saved

Next ==
    \/ Put
    \/ Save
    \/ Other
    \/ Crash

Spec == Init /\ [][Next]_vars
============================================================================
