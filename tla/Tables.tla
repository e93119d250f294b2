------------------------------- MODULE Tables -------------------------------
(***************************************************************************)
(* What a session with the database keeps for its clients: tables by name, *)
(* each with its rows in the order of their insertion.  A row that was     *)
(* acknowledged is in the table it was meant for, no other statement       *)
(* touches it, and only the end of the session takes it away.              *)
(***************************************************************************)
EXTENDS Sequences

CONSTANTS Name, Row

VARIABLES
    tables,     \* the rows of every table that can be found
    event       \* the last call and its answer

vars == <<tables, event>>

NoTables == [n \in {} |-> <<>>]

Succeeds(op) == event'.op = op /\ event'.ret = "SUCCESS"

Init == tables = NoTables /\ event = [op |-> "other"]

\* CREATE TABLE adds an empty table under a new name, or nothing.
Create ==
    /\ Succeeds("create")
    /\ \/ \E n \in Name \ DOMAIN tables :
             tables' = [m \in DOMAIN tables \cup {n} |->
                           IF m = n THEN <<>> ELSE tables[m]]
       \/ tables' = tables

\* INSERT adds exactly its row, at the end of exactly its table.
Insert ==
    /\ Succeeds("insert")
    /\ event'.name \in DOMAIN tables
    /\ tables' = [tables EXCEPT ![event'.name] = Append(@, event'.row)]

End ==
    /\ event'.op \in {"close", "killed"}
    /\ tables' = NoTables

\* Whatever else is called, or fails, changes nothing.
Other ==
    /\ event'.op \notin {"close", "killed"}
    /\ ~Succeeds("create") /\ ~Succeeds("insert")
    /\ tables' = tables

Next == Create \/ Insert \/ End \/ Other

Spec == Init /\ [][Next]_vars
============================================================================
