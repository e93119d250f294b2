------------------------------- MODULE Server -------------------------------
(***************************************************************************)
(* server_run and server_handle_client of src/server/server.c, with the    *)
(* connections of its clients.  The server has one thread: it accepts a    *)
(* connection, answers what it reads from it until the peer leaves, and    *)
(* only then accepts the next.  A connection is a byte stream; a request   *)
(* is one write of the client, and what one read returns may hold several  *)
(* requests or, if the request is longer than the buffer, a part of one.   *)
(***************************************************************************)
EXTENDS Naturals, Sequences

CONSTANTS
    Conn,           \* connections, each made once
    NoConn,
    Requests,       \* the requests that clients send
    Backlog,        \* SERVER_BACKLOG
    MaxRequests,    \* the bound on the requests of one connection
    Pipelined       \* the most requests a client sends before an answer

ASSUME ServerAssumption ==
    /\ NoConn \notin Conn
    /\ Requests \subseteq {"ping", "shutdown", "empty", "bad", "ddl", "query", "junk", "long"}
    /\ Backlog \in Nat /\ MaxRequests \in Nat /\ Pipelined \in Nat

VARIABLES
    running,        \* Server.running
    serving,        \* the connection in server_handle_client
    client_count,   \* Server.client_count
    backlog,        \* connections not accepted yet
    link,           \* "new", "up", or "closed" by the server
    left,           \* the client has closed its end
    arrived,        \* written by the client and not read
    asked,          \* history: the requests of a connection
    answers,        \* history: what the server wrote on it
    alone           \* history: each request fitted in the buffer and was sent
                    \* when the one before was answered

serverVars ==
    <<running, serving, client_count, backlog, link, left, arrived, asked, answers, alone>>

ServerInit ==
    /\ running = TRUE
    /\ serving = NoConn
    /\ client_count = 0
    /\ backlog = <<>>
    /\ link = [c \in Conn |-> "new"]
    /\ left = [c \in Conn |-> FALSE]
    /\ arrived = [c \in Conn |-> <<>>]
    /\ asked = [c \in Conn |-> <<>>]
    /\ answers = [c \in Conn |-> <<>>]
    /\ alone = [c \in Conn |-> TRUE]

----------------------------------------------------------------------------
(* Clients.                                                                *)

client_connect(c) ==
    /\ running
    /\ link[c] = "new"
    /\ Len(backlog) < Backlog
    /\ link' = [link EXCEPT ![c] = "up"]
    /\ backlog' = Append(backlog, c)
    /\ UNCHANGED <<running, serving, client_count, left, arrived, asked, answers, alone>>

\* A request longer than SERVER_BUFFER_SIZE - 1 bytes fills one read and
\* leaves a rest for the next.
Pieces(r) == IF r = "long" THEN <<"head", "rest">> ELSE <<r>>

client_send(c, r) ==
    /\ link[c] = "up"
    /\ ~left[c]
    /\ Len(asked[c]) < MaxRequests
    /\ Len(asked[c]) < Len(answers[c]) + Pipelined
    /\ asked' = [asked EXCEPT ![c] = Append(@, r)]
    /\ arrived' = [arrived EXCEPT ![c] = @ \o Pieces(r)]
    /\ alone' = [alone EXCEPT ![c] = @ /\ r # "long" /\ Len(asked[c]) = Len(answers[c])]
    /\ UNCHANGED <<running, serving, client_count, backlog, link, left, answers>>

client_leave(c) ==
    /\ link[c] # "new"
    /\ ~left[c]
    /\ left' = [left EXCEPT ![c] = TRUE]
    /\ UNCHANGED <<running, serving, client_count, backlog, link, arrived, asked, answers,
                   alone>>

----------------------------------------------------------------------------
(* The server.                                                             *)

\* select reports a waiting connection and accept takes the oldest.
server_accept_client ==
    /\ running
    /\ serving = NoConn
    /\ backlog # <<>>
    /\ serving' = Head(backlog)
    /\ backlog' = Tail(backlog)
    /\ client_count' = client_count + 1
    /\ UNCHANGED <<running, link, left, arrived, asked, answers, alone>>

\* What is written for a buffer that begins with a piece.  Of several requests
\* in one buffer only the first is looked at.  A statement cut by the end of
\* the buffer may or may not parse.  (On some statements the parser does not
\* return: module Parser.  They are not among the requests.)
Answer(first) ==
    CASE first = "ping" -> {"PONG"}
      [] first = "shutdown" -> {"OK shutdown"}
      [] first = "ddl" -> {"Query OK"}
      [] first = "query" -> {"OK 0 rows"}
      [] first = "head" -> {"OK 0 rows", "ERROR"}
      [] OTHER -> {"ERROR"}

\* The bytes a read leaves behind: a piece as long as the buffer comes alone.
Unread(pieces) == IF Head(pieces) = "head" THEN Tail(pieces) ELSE <<>>

\* server_shutdown closes the listening socket, and the process ends: all
\* connections are closed.
Stop ==
    /\ running' = FALSE
    /\ serving' = NoConn
    /\ backlog' = <<>>
    /\ link' = [c \in Conn |-> IF link[c] = "up" THEN "closed" ELSE link[c]]

\* Mutant: no continue after PONG, so that the error is written too.
server_handle_client_falls ==
    /\ running
    /\ serving # NoConn
    /\ arrived[serving] # <<>>
    /\ LET c == serving
           pieces == arrived[c]
       IN  /\ \E a \in Answer(Head(pieces)) :
                 answers' = [answers EXCEPT ![c] =
                    IF a = "PONG" THEN @ \o <<a, "ERROR">> ELSE Append(@, a)]
           /\ arrived' = [arrived EXCEPT ![c] = Unread(pieces)]
           /\ IF Head(pieces) = "shutdown"
              THEN Stop
              ELSE UNCHANGED <<running, serving, backlog, link>>
    /\ UNCHANGED <<client_count, left, asked, alone>>

\* One turn of the loop of server_handle_client: a read and its answer.
server_handle_client ==
    /\ running
    /\ serving # NoConn
    /\ arrived[serving] # <<>>
    /\ LET c == serving
           pieces == arrived[c]
       IN  /\ \E a \in Answer(Head(pieces)) :
                 answers' = [answers EXCEPT ![c] = Append(@, a)]
           /\ arrived' = [arrived EXCEPT ![c] = Unread(pieces)]
           /\ IF Head(pieces) = "shutdown"
              THEN Stop
              ELSE UNCHANGED <<running, serving, backlog, link>>
    /\ UNCHANGED <<client_count, left, asked, alone>>

Close(c) ==
    /\ serving' = NoConn
    /\ link' = [link EXCEPT ![c] = "closed"]
    /\ UNCHANGED <<running, client_count, backlog, left, arrived, asked, answers, alone>>

\* Mutant: the loop goes on when read returns 0.
server_close_client_spins ==
    /\ running
    /\ serving # NoConn
    /\ arrived[serving] = <<>>
    /\ left[serving]
    /\ UNCHANGED serverVars

\* read returns 0: the peer has closed.
server_close_client ==
    /\ running
    /\ serving # NoConn
    /\ arrived[serving] = <<>>
    /\ left[serving]
    /\ Close(serving)

\* A signal ends the read that waits, and with it the connection.
interrupted ==
    /\ running
    /\ serving # NoConn
    /\ arrived[serving] = <<>>
    /\ Close(serving)

server_run == server_accept_client \/ server_handle_client \/ server_close_client

ServerNext ==
    \/ \E c \in Conn : client_connect(c) \/ client_leave(c)
    \/ \E c \in Conn, r \in Requests : client_send(c, r)
    \/ server_run
    \/ interrupted

ServerSpec == ServerInit /\ [][ServerNext]_serverVars

\* The process is scheduled.
ServerFairSpec == ServerSpec /\ WF_serverVars(server_run)

\* Also, every client leaves in the end.
LeavingSpec == ServerFairSpec /\ \A c \in Conn : WF_serverVars(client_leave(c))

----------------------------------------------------------------------------
(* Properties.                                                             *)

Piece == {"ping", "shutdown", "empty", "bad", "ddl", "query", "junk", "head", "rest"}

ServerTypeOK ==
    /\ running \in BOOLEAN
    /\ serving \in Conn \cup {NoConn}
    /\ client_count \in Nat
    /\ backlog \in Seq(Conn)
    /\ link \in [Conn -> {"new", "up", "closed"}]
    /\ left \in [Conn -> BOOLEAN]
    /\ arrived \in [Conn -> Seq(Piece)]
    /\ asked \in [Conn -> Seq(Requests)]
    /\ answers \in [Conn -> Seq({"PONG", "OK shutdown", "Query OK", "OK 0 rows", "ERROR"})]
    /\ alone \in [Conn -> BOOLEAN]

\* The answer a request should get.
RightAnswer(r) ==
    CASE r = "ping" -> "PONG"
      [] r = "shutdown" -> "OK shutdown"
      [] r = "ddl" -> "Query OK"
      [] r \in {"query", "long"} -> "OK 0 rows"
      [] OTHER -> "ERROR"

\* On a connection whose requests fit in the buffer and are sent one at a time,
\* the n-th answer is the answer of the n-th request, and only what waits to be
\* read is not answered yet, whatever other connections do, those with longer
\* requests or with several under way included: no answer is lost, doubled, or
\* given on another connection, even where a connection is cut off.  With any
\* requests, what is answered is of the kinds that the server knows.
AnswersMatch ==
    /\ ServerTypeOK
    /\ \A c \in Conn : alone[c] =>
          /\ Len(asked[c]) = Len(answers[c]) + Len(arrived[c])
          /\ \A n \in 1 .. Len(answers[c]) : answers[c][n] = RightAnswer(asked[c][n])

\* If every client leaves in the end, every connection that waits is accepted
\* or the server is stopped.
WaitingIsServed ==
    \A c \in Conn : (\E n \in DOMAIN backlog : backlog[n] = c) ~> (serving = c \/ ~running)

\* A request on the connection being served gets its answer even if no client
\* ever leaves.
ServedIsAnswered ==
    \A c \in Conn : (serving = c /\ arrived[c] # <<>>) ~> (arrived[c] = <<>>)
=============================================================================
