----------------------------- MODULE MCStorage -----------------------------
(***************************************************************************)
(* The files below a database, for TLC: the pager's and the write-ahead    *)
(* log.  The code opens and writes the two independently, so a behaviour   *)
(* picks one part and the other stays as it is at the start.               *)
(***************************************************************************)
EXTENDS Pager, WAL

CONSTANT Part       \* the parts that are checked

VARIABLE part

ASSUME PartAssumption == Part \subseteq {"pager", "log"}

\* Pages hold a word that reads as a COMMIT with a payload.
MCDataWord == {[type |-> 2, size |-> 1, rest |-> <<"data">>]}

MCInit == part \in Part /\ Init /\ WALInit

MCNext ==
    /\ UNCHANGED part
    /\ \/ part = "pager" /\ Next /\ UNCHANGED walVars
       \/ part = "log" /\ WALNext /\ UNCHANGED vars

MCSpec == MCInit /\ [][MCNext]_<<part, vars, walVars>>
============================================================================
