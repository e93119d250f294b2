-------------------------------- MODULE WAL --------------------------------
(***************************************************************************)
(* The write-ahead log of src/storage/wal.c.  The file is a sequence of    *)
(* words of 8 bytes and every offset counts words.  The header is 5 words  *)
(* long, but the code takes it for 4 (WAL_HEADER_SIZE); an entry is a word *)
(* with type, size and checksum followed by the word of its transaction.   *)
(* A read or write takes place where the descriptor's offset, fd, is;      *)
(* log_offset is only a count.                                             *)
(***************************************************************************)
EXTENDS Integers, Sequences

CONSTANTS
    PageNum,        \* page numbers
    DataWord,       \* words that pages, and the unset part of a frame, hold
    FrameData,      \* such words in a frame: 514
    MaxTx,          \* bounds on the transactions of a session,
    MaxEntries,     \* on its entries since the last truncation,
    MaxFrames,      \* on its frames
    MaxLength       \* and on the length of the file

ASSUME WALAssumption ==
    /\ FrameData \in Nat /\ FrameData % 2 = 0
    /\ MaxTx \in 1 .. 255 /\ PageNum \subseteq 1 .. 255
    /\ MaxEntries \in Nat /\ MaxFrames \in Nat
    /\ MaxLength \in Nat /\ MaxLength >= 5
    /\ \A w \in DataWord : w.type \in 0 .. 255 /\ w.size \in Nat

VARIABLES
    exists,         \* there is a log file
    log_file,       \* its words
    log_is_open,
    fd,             \* where the next read or write takes place
    log_offset,
    log_file_size,  \* wal->file_size
    frame_count,
    current_tx_id,
    info,           \* the answer of the last call, when it was a recovery scan
    acked,          \* history: the entries acknowledged in this session
    committed,      \* history: the last transaction whose commit was acknowledged
    moved           \* history: a scan or truncation of this session moved fd

walVars == <<exists, log_file, log_is_open, fd, log_offset, log_file_size,
             frame_count, current_tx_id, info, acked, committed, moved>>

WALHeaderSize == 5             \* sizeof(WALHeader)
WAL_HEADER_SIZE == 4

\* A word as the scan reads it: the type in its first byte, the size in the
\* next, and what tells it from other words.  (No scan reads a word of the
\* header that holds an offset or a count, so these may pass a byte.)
Number(n) == [type |-> n, size |-> 0, rest |-> <<>>]
Zero == Number(0)

\* The header of an entry; the checksum is a function of type and transaction.
EntryWord(type, tx_id) == [type |-> type, size |-> 0, rest |-> <<type, tx_id>>]
Entry(type, tx_id) == <<EntryWord(type, tx_id), Number(tx_id)>>

\* The header of a frame starts with the page number; a frame has no entry
\* header of its own.
Frame(page, data) ==
    <<[type |-> page, size |-> 0, rest |-> <<"page">>],
      [type |-> 0, size |-> 0, rest |-> <<"sum", page, data>>]>> \o data

WALHeader(end_offset, frames) ==
    <<[type |-> 66, size |-> 0, rest |-> <<"magic">>], Number(WAL_HEADER_SIZE),
      Number(end_offset), Number(frames), Zero>>

Resize(words, n) ==
    IF n <= Len(words) THEN SubSeq(words, 1, n)
    ELSE words \o [i \in 1 .. n - Len(words) |-> Zero]

\* The file after words were written at an offset; a gap reads as zeros.
WriteAt(words, offset, new) ==
    Resize(words, offset) \o new \o SubSeq(words, offset + Len(new) + 1, Len(words))

NoInfo == [scanned |-> FALSE]

WALInit ==
    /\ exists = FALSE /\ log_file = <<>>
    /\ log_is_open = FALSE /\ fd = 0
    /\ log_offset = 0 /\ log_file_size = 0 /\ frame_count = 0
    /\ current_tx_id = 0
    /\ info = NoInfo
    /\ acked = <<>> /\ committed = 0 /\ moved = FALSE

----------------------------------------------------------------------------
(* Lifecycle.                                                              *)

\* A new session: the structure comes from calloc.
Session ==
    /\ log_is_open' = TRUE
    /\ fd' = WALHeaderSize
    /\ log_file_size' = Len(log_file')
    /\ current_tx_id' = 0
    /\ acked' = <<>> /\ moved' = FALSE
    /\ info' = NoInfo
    /\ UNCHANGED committed

wal_open_new ==
    /\ ~log_is_open /\ ~exists
    /\ exists' = TRUE
    /\ log_file' = WALHeader(WAL_HEADER_SIZE, 0)
    /\ log_offset' = WAL_HEADER_SIZE /\ frame_count' = 0
    /\ Session

\* The log exists; where it ends is taken from the header.
wal_open_existing ==
    /\ ~log_is_open /\ exists
    /\ Len(log_file) >= WALHeaderSize /\ log_file[1] = WALHeader(0, 0)[1]
    /\ log_offset' = log_file[3].type /\ frame_count' = log_file[4].type
    /\ UNCHANGED <<exists, log_file>>
    /\ Session

\* The header cannot be read or is not one.
wal_open_fails ==
    /\ ~log_is_open /\ exists
    /\ Len(log_file) < WALHeaderSize \/ log_file[1] # WALHeader(0, 0)[1]
    /\ UNCHANGED walVars

\* Closed, or the process is killed: what was written stays.
wal_close ==
    /\ log_is_open
    /\ log_is_open' = FALSE /\ fd' = 0
    /\ log_offset' = 0 /\ log_file_size' = 0 /\ frame_count' = 0
    /\ current_tx_id' = 0
    /\ info' = NoInfo
    /\ acked' = <<>> /\ moved' = FALSE
    /\ UNCHANGED <<exists, log_file, committed>>

----------------------------------------------------------------------------
(* Writing.                                                                *)

\* Mutant: the write takes place where log_offset says.
WriteAtLogOffset(new, written) ==
    /\ fd + Len(new) <= MaxLength /\ Len(acked) < MaxEntries
    /\ log_file' = WriteAt(log_file, log_offset, SubSeq(new, 1, written))
    /\ fd' = fd + written

\* Words are written at fd.  A failing write may have written some of them.
Write(new, written) ==
    /\ fd + Len(new) <= MaxLength /\ Len(acked) < MaxEntries
    /\ log_file' = WriteAt(log_file, fd, SubSeq(new, 1, written))
    /\ fd' = fd + written

\* write_exact, then the counters; they stay when the write fails.
Log(new, written) ==
    /\ log_is_open
    /\ Write(new, written)
    /\ IF written = Len(new)
       THEN /\ log_offset' = log_offset + Len(new)
            /\ log_file_size' = Len(log_file')
            /\ acked' = Append(acked, [at |-> fd, words |-> new])
       ELSE UNCHANGED <<log_offset, log_file_size, acked>>
    /\ info' = NoInfo
    /\ UNCHANGED <<exists, log_is_open, moved>>

wal_append(type, tx_id, written) ==
    /\ Log(Entry(type, tx_id), written)
    /\ committed' = IF type = 2 /\ written = 2 THEN tx_id ELSE committed
    /\ UNCHANGED frame_count

wal_begin_tx(written) ==
    /\ current_tx_id < MaxTx
    /\ current_tx_id' = current_tx_id + 1
    /\ wal_append(1, current_tx_id + 1, written)

wal_commit_tx(written) ==
    /\ UNCHANGED current_tx_id
    /\ wal_append(2, current_tx_id, written)

wal_rollback_tx(written) ==
    /\ UNCHANGED current_tx_id
    /\ wal_append(3, current_tx_id, written)

wal_checkpoint(written) ==
    /\ UNCHANGED current_tx_id
    /\ wal_append(5, current_tx_id, written)

wal_write_page(page, data, written) ==
    /\ frame_count < MaxFrames
    /\ Log(Frame(page, data), written)
    /\ frame_count' = IF written = FrameData + 2 THEN frame_count + 1 ELSE frame_count
    /\ UNCHANGED <<current_tx_id, committed>>
----------------------------------------------------------------------------
(* Recovery.                                                               *)


\* One entry header of the scan: a BEGIN opens a transaction, a COMMIT with
\* the same transaction closes it as the last committed one.
ScanEntry(s, header, tx_id) ==
    CASE header.type = 1 -> [s EXCEPT !.tx_id = tx_id, !.in_tx = TRUE]
      [] header.type = 2 /\ s.in_tx /\ s.tx_id = tx_id ->
            [s EXCEPT !.last_tx_id = tx_id, !.in_tx = FALSE]
      [] header.type = 3 -> [s EXCEPT !.in_tx = FALSE]
      [] header.type = 5 -> [s EXCEPT !.has_checkpoint = TRUE]
      [] OTHER -> s

\* A round of the scan.  It ends at file_size or when a read fails; a round
\* after that changes nothing.
ScanRound(s) ==
    IF s.offset >= log_file_size THEN s
    ELSE IF s.offset + 2 > Len(log_file)
         THEN [s EXCEPT !.fd = IF s.offset > Len(log_file) THEN s.offset ELSE Len(log_file)]
         ELSE LET header == log_file[s.offset + 1]
              IN  [ScanEntry(s, header, log_file[s.offset + 2])
                     EXCEPT !.offset = s.offset + 2 + header.size, !.fd = s.offset + 2]

ScanStart == [offset |-> WAL_HEADER_SIZE, tx_id |-> Zero, in_tx |-> FALSE,
              last_tx_id |-> Zero, has_checkpoint |-> FALSE, fd |-> fd]

\* The scan after n rounds.  Every round passes a word, so no more are needed
\* than the file has words.
Scan[n \in 0 .. Len(log_file)] == IF n = 0 THEN ScanStart ELSE ScanRound(Scan[n - 1])

wal_recovery_info ==
    /\ log_is_open
    /\ LET s == Scan[Len(log_file)]
       IN  /\ fd' = s.fd
           /\ info' = [scanned |-> TRUE, last_tx_id |-> s.last_tx_id,
                       has_checkpoint |-> s.has_checkpoint,
                       end_offset |-> log_offset, frame_count |-> frame_count]
    /\ moved' = TRUE
    /\ UNCHANGED <<exists, log_file, log_is_open, log_offset, log_file_size, frame_count,
                   current_tx_id, acked, committed>>

\* Mutant: the header is written back without having been read.
truncate_clears_header(offset) ==
    /\ log_is_open
    /\ offset \in WALHeaderSize .. MaxLength
    /\ log_file' = WriteAt(Resize(log_file, offset), 0, [WALHeader(offset, 0) EXCEPT ![1] = Zero])
    /\ fd' = WALHeaderSize
    /\ log_offset' = offset
    /\ acked' = <<>> /\ committed' = 0 /\ moved' = TRUE
    /\ info' = NoInfo
    /\ UNCHANGED <<exists, log_is_open, log_file_size, frame_count, current_tx_id>>

\* A caller knows start_offset and end_offset from a scan.
\* The file is cut first, then the header is read and written back.  A log cut
\* shorter than its header fails there, and stays so.
wal_truncate(offset) ==
    /\ log_is_open
    /\ offset <= MaxLength
    /\ LET cut == Resize(log_file, offset)
       IN  IF offset >= WALHeaderSize
           THEN /\ log_file' = WriteAt(cut, 0, WALHeader(offset, 0))
                /\ fd' = WALHeaderSize
           ELSE /\ log_file' = cut
                /\ fd' = offset
    /\ log_offset' = offset
    /\ acked' = <<>> /\ committed' = 0 /\ moved' = TRUE
    /\ info' = NoInfo
    /\ UNCHANGED <<exists, log_is_open, log_file_size, frame_count, current_tx_id>>

WALNext ==
    \/ wal_open_new
    \/ wal_open_existing
    \/ wal_open_fails
    \/ wal_close
    \/ \E written \in 0 .. 2 :
          \/ wal_begin_tx(written)
          \/ wal_commit_tx(written)
          \/ wal_rollback_tx(written)
          \/ wal_checkpoint(written)
    \/ \E page \in PageNum, data \in [1 .. FrameData -> DataWord],
          written \in 0 .. FrameData + 2 : wal_write_page(page, data, written)
    \/ wal_recovery_info
    \/ \E offset \in {WAL_HEADER_SIZE, log_offset} : wal_truncate(offset)

WALSpec == WALInit /\ [][WALNext]_walVars

----------------------------------------------------------------------------
(* Properties.                                                             *)

LogTypeOK ==
    /\ exists \in BOOLEAN /\ log_is_open \in BOOLEAN /\ moved \in BOOLEAN
    /\ \A i \in 1 .. Len(log_file) : log_file[i].type \in Nat /\ log_file[i].size \in Nat
    /\ fd \in Nat /\ log_offset \in Nat /\ frame_count \in Nat
    /\ Len(log_file) <= MaxLength
    /\ current_tx_id \in 0 .. MaxTx

\* What a session was told is in the log is in the log: every acknowledged
\* entry and frame is in the file, whole, at the place where it was written,
\* behind the entries before it, whatever writes failed halfway in between, as
\* long as nothing but writes used the descriptor.
AckedIntact ==
    log_is_open /\ ~moved =>
       /\ \A k \in 1 .. Len(acked) :
             /\ acked[k].at >= WALHeaderSize
             /\ \A i \in 1 .. Len(acked[k].words) :
                   log_file[acked[k].at + i] = acked[k].words[i]
       /\ \A k \in 1 .. Len(acked) - 1 :
             acked[k].at + Len(acked[k].words) <= acked[k + 1].at

\* log_offset counts, from where the header says the log ends, exactly the
\* words that were acknowledged: none of a failed write, none twice.
AckedWords[k \in 0 .. Len(acked)] ==
    IF k = 0 THEN 0 ELSE AckedWords[k - 1] + Len(acked[k].words)
OffsetCounts ==
    log_is_open /\ ~moved => log_offset = log_file[3].type + AckedWords[Len(acked)]

\* What a session of the log acknowledged is in its file, whole and in order, and
\* log_offset counts exactly that, whatever writes failed halfway.
LogIntact == LogTypeOK /\ AckedIntact /\ OffsetCounts

\* A log can always be opened again, unless it was cut shorter than its header.
Reopens ==
    exists /\ Len(log_file) >= WALHeaderSize =>
       /\ log_file[1] = WALHeader(0, 0)[1]
       /\ log_file[3].type >= WAL_HEADER_SIZE

\* "on restart the committed changes SHALL be recovered from WAL"
\* (transaction-support/spec.md:37): a scan finds the last transaction whose
\* commit was acknowledged.
CommitsRecovered ==
    info.scanned /\ committed # 0 => info.last_tx_id = Number(committed)
============================================================================
