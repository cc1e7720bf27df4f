------------------------------ MODULE RawJournal -----------------------------
(***************************************************************************)
(* The raw journal file (src/journal/raw_journal.cpp): a header and framed *)
(* records, written through a buffered stream, read frame by frame.        *)
(*                                                                         *)
(* The file is a sequence of units: the two parts of the header, and two   *)
(* units per frame, so that a crash can leave a header or a frame torn.    *)
(* Nothing is synced: what the stream holds is lost in a crash.            *)
(***************************************************************************)
EXTENDS Integers, Sequences

CONSTANTS
  JournalRecord,   \* records a caller may append
  MaxRecords       \* bound: records appended over all lives of the writer

ASSUME JournalConstants == MaxRecords \in Nat

VARIABLES
  disk,             \* the file's units; NoFile before it is created
  buffer,           \* units in the stream, not yet in the file
  writing,          \* a RawJournalWriter exists
  broken,           \* its stream has failed
  records_written   \* records_written_

journalVars == <<disk, buffer, writing, broken, records_written>>

NoFile == <<[part |-> "none"]>>
Header == <<[part |-> "magic"], [part |-> "version"]>>
Frame(r) == <<[part |-> "body", record |-> r], [part |-> "checksum", record |-> r]>>
Corrupt == [part |-> "corrupt"]

-----------------------------------------------------------------------------
(* Reading. *)

HeaderReads(units) == Len(units) >= 2 /\ SubSeq(units, 1, 2) = Header

FrameCount(units) == (Len(units) - 2) \div 2

\* The k-th frame is whole and its checksum matches.
FrameReads(units, k) ==
  LET body == units[2 * k + 1]
      check == units[2 * k + 2]
  IN  /\ body.part = "body"
      /\ check.part = "checksum"
      /\ check.record = body.record

\* read_next reaches EndOfJournal: every frame reads, and the file ends at a
\* frame boundary (anything else is truncated_record or checksum_mismatch).
Reads(units) ==
  /\ HeaderReads(units)
  /\ Len(units) % 2 = 0
  /\ \A k \in 1..FrameCount(units) : FrameReads(units, k)

RecordsOf(units) == [k \in 1..FrameCount(units) |-> units[2 * k + 1].record]

-----------------------------------------------------------------------------
(* Writing. *)

JournalInit ==
  /\ disk = NoFile
  /\ buffer = <<>>
  /\ writing = FALSE
  /\ broken = FALSE
  /\ records_written = 0

\* open_raw_journal_writer succeeds on a missing or empty file, to which it
\* writes the header, and on one that reads to its end.
CanOpen == disk = NoFile \/ disk = <<>> \/ Reads(disk)

OpenWriter ==
  /\ ~writing
  /\ CanOpen
  /\ writing' = TRUE
  /\ broken' = FALSE
  /\ IF disk = NoFile \/ disk = <<>>
     THEN disk' = <<>> /\ buffer' = Header /\ records_written' = 0
     ELSE UNCHANGED disk /\ buffer' = <<>> /\ records_written' = FrameCount(disk)

\* append returning no error.
AppendRecord(r) ==
  /\ writing /\ ~broken
  /\ buffer' = buffer \o Frame(r)
  /\ records_written' = records_written + 1
  /\ UNCHANGED <<disk, writing, broken>>

\* append returning io_error: the stream is bad from now on, and some of the
\* frame may have reached the buffer.
AppendFails(r) ==
  /\ writing
  /\ \E n \in 0..1 : buffer' = IF broken THEN buffer ELSE buffer \o SubSeq(Frame(r), 1, n)
  /\ broken' = TRUE
  /\ UNCHANGED <<disk, writing, records_written>>

\* The stream passes some of its units on, whenever it likes.
Drain ==
  /\ writing /\ buffer # <<>>
  /\ disk' = Append(disk, Head(buffer))
  /\ buffer' = Tail(buffer)
  /\ UNCHANGED <<writing, broken, records_written>>

\* flush() returning no error.
Flush ==
  /\ writing /\ ~broken
  /\ disk' = disk \o buffer
  /\ buffer' = <<>>
  /\ UNCHANGED <<writing, broken, records_written>>

-----------------------------------------------------------------------------
(* Properties. *)

\* While a writer is healthy the file and what its stream holds make a
\* readable journal of exactly records_written records: a crash in an earlier
\* life never leaves bytes a later append is written behind, because opening
\* scans the file and refuses a torn one.
WriterExtendsReadableJournal ==
  writing /\ ~broken =>
    /\ Reads(disk \o buffer)
    /\ records_written = FrameCount(disk \o buffer)
==============================================================================
