---------------------------- MODULE MCDatabase -----------------------------
(***************************************************************************)
(* A database, for TLC: the handle with the catalog in it and its          *)
(* executors, and the catalog used by itself with its cursors.  They are   *)
(* different users of one code, so a behaviour picks one part and the      *)
(* other stays as it is at the start.                                      *)
(*                                                                         *)
(* Names: "a" and "b" have one length, "full" has 63 characters and        *)
(* "fullest" has 70, of which the first 63 are "full".                     *)
(***************************************************************************)
EXTENDS Database, Catalog

CONSTANT Part       \* the parts that are checked

VARIABLE part

ASSUME PartAssumption == Part \subseteq {"database", "catalog"}

MCName == {"a", "b", "full", "fullest", "master"}
MCCut == [n \in MCName |-> IF n = "fullest" THEN "full" ELSE n]
MCstrlen ==
    [n \in MCName |-> CASE n = "full" -> 63 [] n = "fullest" -> 70
                        [] n = "master" -> 6 [] OTHER -> 1]

\* Two names of one length, one that fits just and one that is cut to it.
GivenTable(n) == [type |-> "table", name |-> n, tbl_name |-> n, root_page |-> 2]
GivenIndex(n, t) == [type |-> "index", name |-> n, tbl_name |-> t, root_page |-> 3]
MCGiven ==
    {GivenTable("a"), GivenTable("b"), GivenTable("full"), GivenTable("master"),
     GivenIndex("a", "a"), GivenIndex("b", "full")}

MCInit == part \in Part /\ Init /\ CatalogInit

MCNext ==
    /\ UNCHANGED part
    /\ \/ part = "database" /\ Next /\ UNCHANGED catalogVars
       \/ part = "catalog" /\ CatalogNext /\ UNCHANGED vars

MCSpec == MCInit /\ [][MCNext]_<<part, vars, catalogVars>>
============================================================================
