------------------------------ MODULE Protocol ------------------------------
(***************************************************************************)
(* The line protocol of src/server/protocol.c: protocol_read_request cuts  *)
(* a byte stream into requests through a buffer, the protocol_write_*      *)
(* functions send a response in one or more writes, and the escaping pair  *)
(* protects the separators of a response.  Nothing in the repository calls *)
(* it yet; its caller is taken to pass a sql_buf of PROTOCOL_BUFFER_SIZE   *)
(* bytes and to call again after -1.                                       *)
(***************************************************************************)
EXTENDS Integers, Sequences

CONSTANTS
    BufferSize,     \* PROTOCOL_BUFFER_SIZE
    Lengths,        \* lengths of the requests that the peer sends
    MaxLines,       \* a bound on their number
    Outstanding     \* how many the peer sends before one is returned

ASSUME ProtocolAssumption ==
    /\ BufferSize \in Nat /\ BufferSize > 1
    /\ Lengths \subseteq Nat \ {0}
    /\ MaxLines \in Nat /\ Outstanding \in Nat \ {0}

VARIABLES
    incoming,       \* bytes the peer wrote and read has not returned
    ended,          \* the peer has closed
    buffer,         \* the first data_len bytes of ProtocolBuffer.buffer
    result,         \* what protocol_read_request last returned
    lengths,        \* history: the length of each request
    returned,       \* history: the lines given to the caller
    out,            \* what was written for the peer
    failed          \* history: a write function returned -1

protocolVars == <<incoming, ended, buffer, result, lengths, returned, out, failed>>
outVars == <<out, failed>>

\* The bytes of the n-th request are n; a newline is 0.
LineOf(n, length) == [i \in 1 .. length |-> n]
Newline == 0

protocol_init ==
    /\ incoming = <<>>
    /\ ended = FALSE
    /\ buffer = <<>>
    /\ result = 1
    /\ lengths = <<>>
    /\ returned = <<>>
    /\ out = <<>>
    /\ failed = FALSE

peer_send(length) ==
    /\ ~ended
    /\ Len(lengths) < MaxLines
    /\ Len(lengths) < Len(returned) + Outstanding
    /\ lengths' = Append(lengths, length)
    /\ incoming' = incoming \o Append(LineOf(Len(lengths) + 1, length), Newline)
    /\ UNCHANGED <<ended, buffer, result, returned, outVars>>

peer_close ==
    /\ ~ended
    /\ ended' = TRUE
    /\ UNCHANGED <<incoming, buffer, result, lengths, returned, outVars>>

\* Mutant: the last byte is not looked at.
FirstNewline_short(s) ==
    IF \E i \in 1 .. Len(s) - 1 : s[i] = Newline
    THEN CHOOSE i \in 1 .. Len(s) - 1 :
            s[i] = Newline /\ \A j \in 1 .. i - 1 : s[j] # Newline
    ELSE 0

\* The place of the first newline, or 0.
FirstNewline(s) ==
    IF \E i \in 1 .. Len(s) : s[i] = Newline
    THEN CHOOSE i \in 1 .. Len(s) :
            s[i] = Newline /\ \A j \in 1 .. i - 1 : s[j] # Newline
    ELSE 0

\* Mutant: the newline stays in the buffer.
Remaining_keeps_newline(s) == SubSeq(s, FirstNewline(s), Len(s))

\* What stays in the buffer behind the first line.
Remaining(s) == SubSeq(s, FirstNewline(s) + 1, Len(s))

\* A buffer that is full and has no newline is thrown away.
TooLarge(s) == Len(s) >= BufferSize - 1

\* One read, of as many bytes as there are or fewer, then at most one line.
protocol_read_request ==
    /\ \/ /\ incoming = <<>> /\ ended
          /\ result' = 0
          /\ UNCHANGED <<incoming, buffer, returned>>
       \/ \E n \in 1 .. BufferSize - Len(buffer) - 1 :
             /\ n <= Len(incoming)
             /\ incoming' = SubSeq(incoming, n + 1, Len(incoming))
             /\ LET data == buffer \o SubSeq(incoming, 1, n)
                    newline == FirstNewline(data)
                IN  IF newline > 0
                    THEN /\ returned' = Append(returned, SubSeq(data, 1, newline - 1))
                         /\ buffer' = Remaining(data)
                         /\ result' = 1
                    ELSE /\ buffer' = IF TooLarge(data) THEN <<>> ELSE data
                         /\ result' = -1
                         /\ UNCHANGED returned
    /\ UNCHANGED <<ended, lengths, outVars>>

----------------------------------------------------------------------------
(* Responses.                                                              *)

\* One response: its header, and the length and the text of an error message.
MaxFrames == 2

Wrote(words) == out' = out \o words /\ UNCHANGED failed
Failed(words) == out' = out \o words /\ failed' = TRUE

\* The header of protocol_write_response, or of protocol_write_rows.
protocol_write_response(type) ==
    /\ ~failed /\ Len(out) <= 3 * (MaxFrames - 1)
    /\ Wrote(<<type>>) \/ Failed(<<>>)
    /\ UNCHANGED <<incoming, ended, buffer, result, lengths, returned>>

\* Three writes, each of which may fail.
protocol_write_error ==
    /\ ~failed /\ Len(out) <= 3 * (MaxFrames - 1)
    /\ \/ Wrote(<<"error", "length", "text">>)
       \/ \E k \in 0 .. 2 : Failed(SubSeq(<<"error", "length", "text">>, 1, k))
    /\ UNCHANGED <<incoming, ended, buffer, result, lengths, returned>>

ProtocolNext ==
    \/ \E length \in Lengths : peer_send(length)
    \/ peer_close
    \/ protocol_read_request
    \/ \E type \in {"ok", "rows"} : protocol_write_response(type)
    \/ protocol_write_error

ProtocolSpec == protocol_init /\ [][ProtocolNext]_protocolVars

\* The caller calls again.
ProtocolFairSpec == ProtocolSpec /\ WF_protocolVars(protocol_read_request)

----------------------------------------------------------------------------
(* Properties.                                                             *)

ProtocolTypeOK ==
    /\ incoming \in Seq(Nat)
    /\ ended \in BOOLEAN
    /\ buffer \in Seq(Nat)
    /\ result \in {-1, 0, 1}
    /\ lengths \in Seq(Lengths)
    /\ returned \in Seq(Seq(Nat))
    /\ out \in Seq({"ok", "rows", "error", "length", "text"})
    /\ failed \in BOOLEAN
    /\ Len(buffer) < BufferSize

\* A request that fits in the buffer.
LineFits(length) == length <= BufferSize - 2

\* However the reads cut the stream, the k-th line returned comes from the k-th
\* request: all of it if it fits, else its end, with no byte of another.
LinesIntact ==
    \A k \in DOMAIN returned :
       /\ k <= Len(lengths)
       /\ returned[k] = LineOf(k, Len(returned[k]))
       /\ Len(returned[k]) <= lengths[k]
       /\ LineFits(lengths[k]) => Len(returned[k]) = lengths[k]

\* There is always room for a read, so that a read of 0 bytes, which would be
\* taken for the end of the stream, is never asked for.
RoomToRead == Len(buffer) < BufferSize - 1

\* A peer that waits for its request to be returned before it sends the next
\* has every request returned.
EveryLineReturned ==
    \A n \in 1 .. MaxLines : (Len(lengths) >= n) ~> (Len(returned) >= n)

\* As long as no write function fails, what is written is whole responses.
FramesWhole ==
    ~failed =>
       \A k \in DOMAIN out :
          /\ out[k] = "error" => k + 2 <= Len(out) /\ out[k + 1] = "length" /\ out[k + 2] = "text"
          /\ out[k] = "length" => k > 1 /\ out[k - 1] = "error"
          /\ out[k] = "text" => k > 2 /\ out[k - 1] = "length"
\* The two directions of a connection keep their messages apart: however the
\* reads cut the stream, the k-th line that protocol_read_request returns comes
\* from the k-th request with no byte of another, no read is for 0 bytes, which
\* would look like the end of the stream, and as long as no write function
\* fails, what is written is whole responses.
StreamsWhole == ProtocolTypeOK /\ LinesIntact /\ RoomToRead /\ FramesWhole
=============================================================================
