------------------------------- MODULE Client -------------------------------
(***************************************************************************)
(* The command-line client, src/cli/cli.c and src/cli/main.c: the lines of *)
(* its user, the statement put together from them, and the exchange with   *)
(* the server over one connection.  On a terminal it runs                  *)
(* cli_interactive_loop, otherwise the loop in main.  Texts are given by   *)
(* their lengths.  The server (module Server) answers a request with one   *)
(* line of two chunks; it may stop and be started again.                   *)
(***************************************************************************)
EXTENDS Naturals, Sequences

CONSTANTS
    MaxLine,            \* CLI_MAX_LINE
    Extra,              \* what fits in a request beyond MaxLine
    Mode,               \* where the lines come from: "tty", "pipe"
    MaxStatements,      \* a bound on the requests sent
    MaxStops            \* a bound on the stops of the server

ASSUME ClientAssumption ==
    /\ MaxLine \in Nat \ {0, 1} /\ Extra \in Nat /\ Mode \subseteq {"tty", "pipe"}
    /\ MaxStatements \in Nat /\ MaxStops \in Nat

VARIABLES
    mode,               \* where the lines come from
    phase,              \* "start", "prompt", "wait" in read, "exit", "killed"
    connected,          \* cli->connected
    sock,               \* the socket: "none", "open", or "dead" after the peer has gone
    multiline, sql_len, \* of cli_interactive_loop
    got,                \* chunks of the response read so far
    up,                 \* the server runs
    inbox,              \* the request at the server, or 0
    stream,             \* chunks on the way to the client, each with its request
    sent,               \* history: the requests, [full, len]
    shown,              \* history: the requests whose answer was shown
    stops               \* the stops of the server

clientVars == <<mode, phase, connected, sock, multiline, sql_len, got, up, inbox, stream,
                sent, shown, stops>>
world == <<up, inbox, stream, stops>>
cli == <<mode, phase, connected, sock, multiline, sql_len, got, sent, shown>>

SqlBuf == 2 * MaxLine           \* sizeof(sql_buf)

\* What fgets gives: a line of at most MaxLine - 1 characters.  A longer line comes
\* in pieces that are lines of their own.
Line ==
    [kind : {"sql"}, len : 1 .. MaxLine - 1, ends : BOOLEAN]
    \cup [kind : {"empty"}, len : {0}, ends : {FALSE}]
    \cup [kind : {"meta", "quit"}, len : {MaxLine - 1}, ends : {FALSE}]

ClientInit ==
    /\ mode \in Mode
    /\ phase = "start"
    /\ connected = FALSE /\ sock = "none"
    /\ multiline = FALSE /\ sql_len = 0
    /\ got = <<>>
    /\ up \in BOOLEAN /\ inbox = 0 /\ stream = <<>>
    /\ sent = <<>> /\ shown = <<>>
    /\ stops = 0

\* cli_connect.  After a failure the client goes on without.
cli_connect ==
    IF up THEN connected' = TRUE /\ sock' = "open" ELSE UNCHANGED <<connected, sock>>

\* cli_init, and the first connection: on a terminal only.
Start ==
    /\ phase = "start"
    /\ phase' = "prompt"
    /\ IF mode = "tty" THEN cli_connect ELSE UNCHANGED <<connected, sock>>
    /\ UNCHANGED <<mode, multiline, sql_len, got, sent, shown, world>>

\* The request for a statement of n characters: what snprintf leaves of it.
Request(n) == [full |-> n, len |-> IF n > MaxLine + Extra THEN MaxLine + Extra ELSE n]

\* cli_execute_sql up to its read.  It connects if it never has; a write to a peer
\* that has gone raises SIGPIPE, which nothing handles.
cli_execute_sql(n) ==
    /\ IF connected THEN UNCHANGED <<connected, sock>> ELSE cli_connect
    /\ IF ~connected' THEN phase' = "prompt" /\ UNCHANGED <<sent, inbox, got>>
       ELSE IF sock' = "dead" THEN phase' = "killed" /\ UNCHANGED <<sent, inbox, got>>
       ELSE /\ phase' = "wait"
            /\ sent' = Append(sent, Request(n))
            /\ inbox' = Len(sent')
            /\ got' = <<>>

Forget == multiline' = FALSE /\ sql_len' = 0

\* Mutant: the space before the line is not counted.
FitsTight(n) == sql_len + n < SqlBuf

\* The check against the size of sql_buf, for a line of n characters.
Fits(n) == sql_len + n + 1 < SqlBuf

\* A line on a terminal.  A line that begins with a point is a command unless a
\* statement is pending.  It still has its newline: no command that is compared as
\* a whole is known, so that .quit does not end the loop.
interactive_line(line) ==
    CASE line.kind = "empty" -> Forget /\ UNCHANGED <<phase, connected, sock, sent, inbox, got>>
      [] line.kind \in {"meta", "quit"} /\ ~multiline ->
            UNCHANGED <<phase, connected, sock, sent, inbox, got, multiline, sql_len>>
      [] OTHER ->
         LET n == IF sql_len > 0 THEN sql_len + 1 + line.len ELSE line.len
         IN  IF ~Fits(line.len)
             THEN Forget /\ UNCHANGED <<phase, connected, sock, sent, inbox, got>>
             ELSE IF line.ends THEN Forget /\ cli_execute_sql(n)
             ELSE /\ multiline' = TRUE
                  /\ sql_len' = n
                  /\ UNCHANGED <<phase, connected, sock, sent, inbox, got>>

\* A line of a file or a pipe is a command or a statement; what a command returns
\* is not looked at.
piped_line(line) ==
    /\ IF line.kind = "sql" THEN cli_execute_sql(line.len)
       ELSE UNCHANGED <<phase, connected, sock, sent, inbox, got>>
    /\ UNCHANGED <<multiline, sql_len>>

ReadLine(line) ==
    /\ phase = "prompt"
    /\ Len(sent) < MaxStatements
    /\ IF mode = "tty" THEN interactive_line(line) ELSE piped_line(line)
    /\ UNCHANGED <<mode, shown, up, stream, stops>>

\* The end of the input.
EndOfFile ==
    /\ phase = "prompt"
    /\ phase' = "exit"
    /\ connected' = FALSE /\ sock' = "none"
    /\ UNCHANGED <<mode, multiline, sql_len, got, sent, shown, world>>

\* Mutant: one read takes the response for whole.
ResponseWhole_any(chunks) == Len(chunks) > 0

\* The response ends with a newline.
ResponseWhole(chunks) == Len(chunks) > 0 /\ chunks[Len(chunks)].end

\* A read returns some of the chunks that have come; the loop goes on until the
\* response is whole, or ends at a peer that has gone.
Read ==
    /\ phase = "wait"
    /\ \/ \E k \in 1 .. Len(stream) :
            /\ got' = got \o SubSeq(stream, 1, k)
            /\ stream' = SubSeq(stream, k + 1, Len(stream))
            /\ IF ResponseWhole(got')
               THEN phase' = "prompt" /\ shown' = Append(shown, got'[1].of)
               ELSE UNCHANGED <<phase, shown>>
       \/ /\ stream = <<>>
          /\ sock = "dead"
          /\ phase' = "prompt"
          /\ UNCHANGED <<got, stream, shown>>
    /\ UNCHANGED <<mode, connected, sock, multiline, sql_len, sent, up, inbox, stops>>

\* The server answers (module Server), stops and starts.
ServerAnswers ==
    /\ up /\ inbox # 0
    /\ stream' = stream \o <<[of |-> inbox, end |-> FALSE], [of |-> inbox, end |-> TRUE]>>
    /\ inbox' = 0
    /\ UNCHANGED <<cli, up, stops>>

ServerStops ==
    /\ up
    /\ stops < MaxStops
    /\ up' = FALSE
    /\ stops' = stops + 1
    /\ inbox' = 0
    /\ sock' = IF sock = "open" THEN "dead" ELSE sock
    /\ UNCHANGED <<mode, phase, connected, multiline, sql_len, got, sent, shown, stream>>

ServerStarts ==
    /\ ~up
    /\ stops < MaxStops
    /\ up' = TRUE
    /\ UNCHANGED <<cli, inbox, stream, stops>>

ClientNext ==
    \/ Start
    \/ \E line \in Line : ReadLine(line)
    \/ EndOfFile
    \/ Read
    \/ ServerAnswers \/ ServerStops \/ ServerStarts

ClientSpec == ClientInit /\ [][ClientNext]_clientVars

----------------------------------------------------------------------------
(* Properties.                                                             *)

\* A statement that was sent fitted in sql_buf with its end.
SentFits == \A i \in DOMAIN sent : sent[i].full < SqlBuf

\* The response shown for a statement is the server's answer to this statement,
\* however the stream was cut, and each is shown at most once.
AnswersInStep ==
    /\ phase = "prompt" /\ shown # <<>> /\ got # <<>> => got[1].of = Len(sent)
    /\ \A i, j \in DOMAIN shown : i < j => shown[i] < shown[j]

\* A client in read comes back to its prompt: the server answers, or goes.
ReadReturns == phase = "wait" ~> phase # "wait"
=============================================================================
