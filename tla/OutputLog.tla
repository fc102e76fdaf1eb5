------------------------------ MODULE OutputLog ------------------------------
(***************************************************************************)
(* The bounded output log of one Managed Process and the clients that page *)
(* through it (crates/kody-core/src/process.rs).  The logger appends what  *)
(* the readers of stdout and stderr send, drops the oldest bytes at the    *)
(* byte and record limits, and replaces the file; a page is always read    *)
(* from the file.                                                          *)
(*                                                                         *)
(* A byte is modelled by its position in everything the process has        *)
(* written, so a byte under a wrong cursor shows.                          *)
(***************************************************************************)
EXTENDS Naturals, SequencesExt, FiniteSetsExt

CONSTANTS
  Streams,      \* stdout and stderr
  Readers,      \* clients that page through the output
  MaxBytes,     \* max_retained_output_bytes
  MaxRecords,   \* max_output_records
  MaxReadBytes, \* max_read_bytes
  ChunkBytes,   \* read_chunk_bytes: the largest read of a stream
  MaxTotal,     \* bound: bytes the process writes
  MaxErrors     \* bound: failing replacements of the file

ASSUME LimitsAssumption ==
  /\ \A limit \in {MaxBytes, MaxRecords, MaxReadBytes, ChunkBytes} : limit \in Nat \ {0}
  /\ MaxTotal \in Nat /\ MaxErrors \in Nat

VARIABLES
  mem,     \* the logger's OutputLog
  file,    \* the encoded log on disk
  written, \* the logger has replaced the file and not yet told the snapshot
  shown,   \* output_end_cursor of the snapshot, announced by the last Output event
  place,   \* per reader: <<the cursor it will ask for next>>, <<>> for none
  page,    \* per reader: the last page it was given
  errors

logVars == <<mem, file, written, shown, place, page, errors>>

EmptyLog == [records |-> <<>>, end |-> 0, retained |-> 0]

RecordEnd(r) == r.cursor + Len(r.bytes)
StartCursor(log) == IF log.records = <<>> THEN log.end ELSE Head(log.records).cursor

-----------------------------------------------------------------------------
(***************************************************************************)
(* append and enforce_limits                                               *)
(***************************************************************************)
\* The bytes of the first k records, for each k.
BytesIn(records) ==
  LET total[k \in 0..Len(records)] == IF k = 0 THEN 0 ELSE total[k - 1] + Len(records[k].bytes)
  IN total

\* The log after k turns of pop_front.
Popped(log, k) ==
  [log EXCEPT !.records = SubSeq(@, k + 1, Len(@)), !.retained = @ - BytesIn(log.records)[k]]

DropRecords(log) ==
  IF Len(log.records) > MaxRecords THEN Popped(log, Len(log.records) - MaxRecords) ELSE log

\* Mutant: the cursor of a record that lost its first bytes stays.
TrimBytesOnly(log, excess) ==
  [log EXCEPT !.records[1].bytes = SubSeq(@, excess + 1, Len(@)), !.retained = @ - excess]

CutFront(record, excess) ==
  [record EXCEPT !.bytes = SubSeq(@, excess + 1, Len(@)), !.cursor = @ + excess]

TrimFront(log, excess) ==
  [log EXCEPT !.records[1] = CutFront(@, excess), !.retained = @ - excess]

\* Is the front record popped no more?
FrontStays(log) ==
  log.retained <= MaxBytes \/ Len(Head(log.records).bytes) > log.retained - MaxBytes

DropBytes(log) ==
  LET left == Popped(log, Min({k \in 0..Len(log.records) : FrontStays(Popped(log, k))}))
  IN IF left.retained <= MaxBytes THEN left ELSE TrimFront(left, left.retained - MaxBytes)

EnforceLimits(log) == DropBytes(DropRecords(log))

\* Bytes of the stream that wrote last extend its record.
AppendOutput(log, stream, bytes) ==
  LET n    == Len(log.records)
      same == n > 0 /\ log.records[n].stream = stream /\ RecordEnd(log.records[n]) = log.end
      grown == IF same THEN [log EXCEPT !.records[n].bytes = @ \o bytes]
                       ELSE [log EXCEPT !.records = Append(@, [stream |-> stream, cursor |-> log.end,
                                                               bytes |-> bytes])]
  IN EnforceLimits([grown EXCEPT !.end = @ + Len(bytes), !.retained = @ + Len(bytes)])

-----------------------------------------------------------------------------
(***************************************************************************)
(* encode and decode.  The file holds a header and the records with their  *)
(* own cursors and lengths; decode accepts contiguous, non-empty records   *)
(* that end at the end cursor of the header, and enforces the limits.      *)
(***************************************************************************)
Encode(log) ==
  [start |-> StartCursor(log), end |-> log.end, count |-> Len(log.records),
   body |-> [i \in 1..Len(log.records) |->
               [tag |-> log.records[i].stream, cursor |-> log.records[i].cursor,
                length |-> Len(log.records[i].bytes), data |-> log.records[i].bytes]]]

\* Where record i of a file must begin.
Expected(f, i) == IF i = 1 THEN f.start ELSE f.body[i - 1].cursor + f.body[i - 1].length

Decodes(f) ==
  /\ f.count = Len(f.body)
  /\ \A i \in 1..f.count : /\ f.body[i].cursor = Expected(f, i)
                          /\ f.body[i].length = Len(f.body[i].data) /\ f.body[i].data # <<>>
  /\ Expected(f, f.count + 1) = f.end

Decode(f) ==
  LET records == [i \in 1..f.count |-> [stream |-> f.body[i].tag, cursor |-> f.body[i].cursor,
                                        bytes |-> f.body[i].data]]
  IN EnforceLimits([records |-> records, end |-> f.end, retained |-> BytesIn(records)[f.count]])

-----------------------------------------------------------------------------
(***************************************************************************)
(* OutputLog::read: the page a cursor and a limit select.  A cursor past   *)
(* the end is refused; one that was evicted is clamped and flagged.        *)
(***************************************************************************)
NoPage  == [start |-> 0, next |-> 0, end |-> 0, truncated |-> FALSE, more |-> FALSE, chunks |-> <<>>]

\* Mutant: records that end before the page are counted against the limit.
TakeRecordCountingAll(acc, r) ==
  IF acc.left = 0 \/ RecordEnd(r) <= acc.next THEN [acc EXCEPT !.left = 0]
  ELSE [next |-> RecordEnd(r), left |-> acc.left - 1,
        chunks |-> Append(acc.chunks, [stream |-> r.stream, cursor |-> acc.next,
                     bytes |-> SubSeq(r.bytes, acc.next - r.cursor + 1, Len(r.bytes))])]

\* One record of the loop: acc is the page built so far.
TakeRecord(acc, r) ==
  IF acc.left = 0 \/ RecordEnd(r) <= acc.next THEN acc
  ELSE LET offset == acc.next - r.cursor
           available == Len(r.bytes) - offset
           take == IF acc.left < available THEN acc.left ELSE available
       IN [next |-> acc.next + take, left |-> acc.left - take,
           chunks |-> Append(acc.chunks, [stream |-> r.stream, cursor |-> acc.next,
                                          bytes |-> SubSeq(r.bytes, offset + 1, offset + take)])]

TakeRecords(acc, records) ==
  LET taken[k \in 0..Len(records)] ==
        IF k = 0 THEN acc ELSE TakeRecord(taken[k - 1], records[k])
  IN taken[Len(records)]

\* Mutant: an evicted cursor is not reported.
NotFlagged(requested, retained) == FALSE

Clamped(requested, retained) == requested < retained

FirstByte(requested, retained) == IF requested < retained THEN retained ELSE requested

InLog(log, cursor) == cursor # <<>> => cursor[1] <= log.end

ReadPage(log, cursor, limit) ==
  LET retained  == StartCursor(log)
      requested == IF cursor = <<>> THEN retained ELSE cursor[1]
      first     == FirstByte(requested, retained)
      taken     == TakeRecords([next |-> first, left |-> limit, chunks |-> <<>>], log.records)
  IN [start |-> first, next |-> taken.next, end |-> log.end,
      truncated |-> Clamped(requested, retained),
      more |-> taken.next < log.end, chunks |-> taken.chunks]

-----------------------------------------------------------------------------
\* The actor persists the empty log before the command is spawned.
LogInit ==
  /\ mem = EmptyLog /\ file = Encode(EmptyLog)
  /\ written = FALSE /\ shown = 0
  /\ place = [r \in Readers |-> <<>>] /\ page = [r \in Readers |-> NoPage]
  /\ errors = 0

\* Mutant: the snapshot is told although the file was not replaced.
TellAnyway(log) == file' \in {file, Encode(log)} /\ written' = TRUE

NotPersisted(log) == file' \in {file, Encode(log)} /\ UNCHANGED written

\* run_output_logger: append and persist.  A failed persist keeps the bytes in
\* memory; it fails before the rename or, at the directory fsync, after it.
Log(stream, n) ==
  LET bytes == [i \in 1..n |-> mem.end + i - 1]
      log   == AppendOutput(mem, stream, bytes)
  IN /\ ~written /\ mem.end + n <= MaxTotal
     /\ mem' = log
     /\ \/ file' = Encode(log) /\ written' = TRUE /\ UNCHANGED errors
        \/ /\ errors < MaxErrors /\ errors' = errors + 1
           /\ NotPersisted(log)
     /\ UNCHANGED <<shown, place, page>>

\* The snapshot takes the end cursor and the Output event announces it.
Announce ==
  /\ written /\ written' = FALSE
  /\ shown' = mem.end
  /\ UNCHANGED <<mem, file, place, page, errors>>

\* ProcessManager::read_output: the log is loaded from the file and checked
\* against the snapshot, then the page at the reader's cursor is cut.
Read(r, limit) ==
  LET log == Decode(file)
      got == ReadPage(log, place[r], limit)
  IN /\ Decodes(file) /\ ~(shown > 0 /\ log.end = 0)
     /\ InLog(log, place[r])
     /\ page' = [page EXCEPT ![r] = got]
     /\ place' = [place EXCEPT ![r] = <<got.next>>]
     /\ UNCHANGED <<mem, file, written, shown, errors>>

\* A client continues from the cursor of an event instead.
Jump(r) ==
  /\ shown > 0
  /\ place' = [place EXCEPT ![r] = <<shown>>]
  /\ page' = [page EXCEPT ![r] = NoPage]
  /\ UNCHANGED <<mem, file, written, shown, errors>>

LogNext ==
  \/ \E stream \in Streams, n \in 1..ChunkBytes : Log(stream, n)
  \/ Announce
  \/ \E r \in Readers : Jump(r) \/ \E limit \in 1..MaxReadBytes : Read(r, limit)

LogSpec == LogInit /\ [][LogNext]_logVars

-----------------------------------------------------------------------------
Cursors == 0..MaxTotal
Chunk   == [stream : Streams, cursor : Cursors, bytes : Seq(Cursors)]

\* Types of all variables.
LogTypeOK ==
  /\ mem \in [records : Seq(Chunk), end : Cursors, retained : 0..MaxBytes]
  /\ file \in [start : Cursors, end : Cursors, count : 0..MaxRecords,
               body : Seq([tag : Streams, cursor : Cursors, length : Cursors, data : Seq(Cursors)])]
  /\ written \in BOOLEAN /\ shown \in Cursors /\ errors \in 0..MaxErrors
  /\ place \in [Readers -> {<<>>} \cup {<<c>> : c \in Cursors}]
  /\ page \in [Readers -> [start : Cursors, next : Cursors, end : Cursors,
                           truncated : BOOLEAN, more : BOOLEAN, chunks : Seq(Chunk)]]

\* The chunks lie end to end from one cursor to another, none of them empty,
\* and each byte stands under its own cursor.
Edge(chunks, from, i) == IF i = 1 THEN from ELSE RecordEnd(chunks[i - 1])

Tiles(chunks, from, to) ==
  /\ \A i \in 1..Len(chunks) :
       /\ chunks[i].cursor = Edge(chunks, from, i) /\ chunks[i].bytes # <<>>
       /\ \A j \in 1..Len(chunks[i].bytes) : chunks[i].bytes[j] = chunks[i].cursor + j - 1
  /\ Edge(chunks, from, Len(chunks) + 1) = to

\* The log holds exactly the last bytes written, each under its own cursor,
\* and gives up no more than the limits demand: once something was dropped
\* one of them is used up.
KeepsTheTail ==
  /\ Tiles(mem.records, StartCursor(mem), mem.end)
  /\ mem.retained = mem.end - StartCursor(mem)
  /\ StartCursor(mem) > 0 => mem.retained = MaxBytes \/ Len(mem.records) = MaxRecords

\* A page is the unbroken stretch of output from its start cursor to its next
\* cursor, and each of its chunks carries the cursor of its first byte.
PagesAreExact == \A r \in Readers : Tiles(page[r].chunks, page[r].start, page[r].next)

\* What reaches the disk is what the logger holds or held: the file always
\* decodes, and to a log within the limits.
FileDecodes ==
  /\ Decodes(file)
  /\ Encode(Decode(file)) = file
  /\ written => Decode(file) = mem

\* A cursor a client was given, by a page or by an Output event, is never past
\* the end of the file, so its next request is not refused.
CursorsStayValid ==
  /\ shown <= file.end
  /\ \A r \in Readers : place[r] # <<>> => place[r][1] <= file.end

\* A reader that pages on with next_cursor misses bytes only when the page
\* says truncated, and sees no byte twice.
GapsAreFlagged ==
  [][\A r \in Readers : page'[r] # page[r] /\ page'[r] # NoPage /\ place[r] # <<>> =>
       /\ page'[r].start >= place[r][1]
       /\ page'[r].start > place[r][1] <=> page'[r].truncated]_logVars

\* A page that says has_more brought at least one byte, so a client that pages
\* while has_more is set always gets further, however the log was cut.
MorePagesAdvance == \A r \in Readers : page[r].more => page[r].next > page[r].start

\* The log in memory and the file behind it hold the tail of the output
\* (OutputLog::append, enforce_limits, encode_output_log, decode_output_log).
LogIsExact == LogTypeOK /\ KeepsTheTail /\ FileDecodes

\* A page brings what it says, and brings a client further (OutputLog::page).
PagesAreSound == PagesAreExact /\ MorePagesAdvance
=============================================================================
