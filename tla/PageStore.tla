----------------------------- MODULE PageStore -----------------------------
(***************************************************************************)
(* What a client of the page cache relies on: it reads what was written    *)
(* last, whether the page is cached, evicted or loaded again.  Only two    *)
(* things take a write back to what the file holds: the cache is gone, or  *)
(* a write to the file failed and the failure was ignored.                 *)
(***************************************************************************)

CONSTANTS PageId, Value

VARIABLES
    current,        \* what a client reads
    durable,        \* what the file holds
    up,             \* a cache exists
    event           \* what the last step did: "write", "lost" or "quiet"

vars == <<current, durable, up, event>>

Init ==
    /\ current \in [PageId -> Value]
    /\ durable = current
    /\ up = FALSE
    /\ event = "quiet"

Write ==
    /\ up
    /\ \E p \in PageId, v \in Value : current' = [current EXCEPT ![p] = v]
    /\ event' = "write"
    /\ UNCHANGED <<durable, up>>

\* Some pages are copied to the file.
Copied == \A p \in PageId : durable'[p] \in {durable[p], current[p]}

Copy ==
    /\ up
    /\ durable' \in [PageId -> Value]
    /\ Copied
    /\ event' = "quiet"
    /\ UNCHANGED <<current, up>>

Forget ==
    /\ up
    /\ event' = "lost"
    /\ current' \in [PageId -> Value]
    /\ durable' \in [PageId -> Value]
    /\ Copied
    /\ \A p \in PageId : current'[p] \in {current[p], durable'[p]}
    /\ up' = up

Start ==
    /\ ~up
    /\ up' = TRUE
    /\ event' = "quiet"
    /\ UNCHANGED <<current, durable>>

Stop ==
    /\ up
    /\ up' = FALSE
    /\ durable' \in [PageId -> Value]
    /\ Copied
    /\ current' = durable'
    /\ event' = "quiet"

Next ==
    \/ Write
    \/ Copy
    \/ Forget
    \/ Start
    \/ Stop

Spec == Init /\ [][Next]_vars
============================================================================
