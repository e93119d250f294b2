----------------------------- MODULE MCService -----------------------------
(***************************************************************************)
(* The processes around a database, for TLC: instances of the daemon that  *)
(* contend for its files, the accept loop of one server, the requests on   *)
(* one connection, their escaping, and the interactive client.  Each       *)
(* module has its own abstraction of what the others do to it, so a        *)
(* behaviour picks one part and the others stay as they are at the start.  *)
(***************************************************************************)
EXTENDS Instances, Client, Server, Protocol, Escaping

CONSTANT Part       \* the parts that are checked

VARIABLE part

\* Clients of the server with two requests under way, which all leave in the end.
Leaving == INSTANCE Server WITH Requests <- {"ddl", "bad", "shutdown"}, Pipelined <- 2

\* Peers that wait for each request to be returned, none of which is longer than
\* the buffer.
Patient == INSTANCE Protocol WITH Lengths <- Lengths \cap 1 .. BufferSize, Outstanding <- 1

ASSUME PartAssumption ==
    Part \subseteq {"instances", "client", "server", "leaving", "protocol", "patient", "escaping"}

allVars == <<part, vars, clientVars, serverVars, protocolVars, escapingVars>>

MCInit ==
    /\ part \in Part
    /\ Init
    /\ part = "client" \/ mode = "tty"
    /\ ClientInit
    /\ ServerInit
    /\ protocol_init
    /\ part = "escaping" \/ (src = <<>> /\ dst_size = 1)
    /\ EscapingInit

\* A stopped server, one all of whose connections are over, a client whose
\* input has ended and an escaped string stay as they are.
Ended == UNCHANGED <<vars, clientVars, serverVars, protocolVars, escapingVars>>

MCNext ==
    /\ UNCHANGED part
    /\ \/ /\ part = "instances" /\ Next
          /\ UNCHANGED <<clientVars, serverVars, protocolVars, escapingVars>>
       \/ /\ part = "client" /\ ClientNext
          /\ UNCHANGED <<vars, serverVars, protocolVars, escapingVars>>
       \/ /\ \/ part = "server" /\ ServerNext
             \/ part = "leaving" /\ Leaving!ServerNext
          /\ UNCHANGED <<vars, clientVars, protocolVars, escapingVars>>
       \/ /\ \/ part = "protocol" /\ ProtocolNext
             \/ part = "patient" /\ Patient!ProtocolNext
          /\ UNCHANGED <<vars, clientVars, serverVars, escapingVars>>
       \/ /\ part = "escaping" /\ EscapingNext
          /\ UNCHANGED <<vars, clientVars, serverVars, protocolVars>>
       \/ /\ part \in {"client", "server", "leaving", "escaping"}
          /\ Ended

MCSpec == MCInit /\ [][MCNext]_allVars

\* The fairness of each part: a started instance goes on and an ended one is
\* started again; the client reads as soon as it can and a running server answers
\* it; the server's process is scheduled; in one part every client leaves in the
\* end; and the caller of protocol_read_request calls it again.
MCFairSpec ==
    /\ MCSpec
    /\ \A i \in Instance : /\ WF_vars(part = "instances" /\ Step(i))
                           /\ WF_vars(part = "instances" /\ server_write_lock(i))
    /\ WF_clientVars(part = "client" /\ Read)
    /\ WF_clientVars(part = "client" /\ ServerAnswers)
    /\ WF_serverVars(part \in {"server", "leaving"} /\ server_run)
    /\ \A c \in Conn : WF_serverVars(part = "leaving" /\ client_leave(c))
    /\ WF_protocolVars(part = "patient" /\ protocol_read_request)
----------------------------------------------------------------------------
(* Properties of the parts, at their instances.                            *)

\* If starts are repeated and faults end, some instance of the daemon runs again
\* and again, although a killed one leaves its lock file.
DaemonRunsAgain == part = "instances" => RunsAgain

\* Nobody waits for ever: a request on the connection that is served gets its
\* answer even if no client ever leaves; if every client leaves in the end, every
\* connection that waits is accepted or the server is stopped; and a client in
\* read comes back to its prompt.
NobodyWaits ==
    /\ part # "leaving" => ServedIsAnswered
    /\ part = "leaving" => WaitingIsServed
    /\ ReadReturns

\* A peer that waits for its request to be returned before it sends the next
\* has every request returned.
AllReturned == part = "patient" => EveryLineReturned
============================================================================
