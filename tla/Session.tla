------------------------------- MODULE Session -------------------------------
(***************************************************************************)
(* A capture session directory (src/session/capture_session.cpp): created, *)
(* appended to, finalized by one attempt that ends in the rename of        *)
(* manifest.json, and verified by any later reader.  The writing process   *)
(* may die between any two steps; afterwards the files may be damaged, or  *)
(* lose their unsynced ends.                                               *)
(*                                                                         *)
(* A fingerprint is modelled as the content it was taken of: two contents  *)
(* have the same fingerprint exactly when they are equal.                  *)
(***************************************************************************)
EXTENDS RawJournal

CONSTANT Version   \* the session's metadata version; a record has its own

VARIABLES
  metadata,   \* metadata.json: "absent", "torn" or "whole"
  pending,    \* manifest.pending
  manifest,   \* manifest.json
  closed,     \* closed_
  step,       \* what the writing process does next
  outcome,    \* what finalize returned: "none", "error" or "manifest"
  appended,   \* every record an append reported as written
  harmed      \* a power loss or outside damage has touched the files

sessionVars == <<metadata, pending, manifest, closed, step, outcome, appended, harmed>>
svars == <<disk, buffer, writing, broken, records_written,
           metadata, pending, manifest, closed, step, outcome, appended, harmed>>

NoManifest == [state |-> "absent"]
TornManifest == [state |-> "torn"]
Manifest(n, units) == [state |-> "complete", records |-> n, journal |-> units]

SessionInit ==
  /\ JournalInit
  /\ metadata = "absent"
  /\ pending = NoManifest /\ manifest = NoManifest
  /\ closed = FALSE
  /\ step = "create" /\ outcome = "none"
  /\ appended = <<>>
  /\ harmed = FALSE

-----------------------------------------------------------------------------
(* Validation, used by finalize and by verify_session. *)

\* validate_journal: reads to its end, holds records of this version only,
\* and as many as expected.
ValidJournal(units, n) ==
  /\ Reads(units)
  /\ \A k \in 1..FrameCount(units) : RecordsOf(units)[k].version = Version
  /\ FrameCount(units) = n

\* Mutant of VerifyResult: a complete manifest is believed.
VerifyTrustsManifest ==
  CASE manifest.state = "absent" -> "incomplete_session"
    [] manifest.state = "torn" -> "invalid_manifest"
    [] OTHER -> "verified"

\* verify_session, with its checks in order.
VerifyResult ==
  CASE manifest.state = "absent" -> "incomplete_session"
    [] manifest.state = "torn" -> "invalid_manifest"
    [] manifest.state = "complete" /\ metadata # "whole" -> "fingerprint_mismatch"
    [] manifest.state = "complete" /\ metadata = "whole" /\ disk # manifest.journal
         -> "fingerprint_mismatch"
    [] OTHER -> IF ValidJournal(disk, manifest.records)
                THEN "verified" ELSE "invalid_journal"

-----------------------------------------------------------------------------
(* The writing process: create_session and append. *)

\* The directory is new, the process its only owner.  write_new_file of the
\* metadata may stop half way; then there is no session to write to.
CreateMetadata ==
  /\ step = "create"
  /\ \/ metadata' = "whole" /\ step' = "open"
     \/ metadata' \in {"absent", "torn"} /\ step' = "gone"
  /\ UNCHANGED <<journalVars, pending, manifest, closed, outcome, appended, harmed>>

OpenJournal ==
  /\ step = "open"
  /\ OpenWriter
  /\ step' = "append"
  /\ UNCHANGED <<metadata, pending, manifest, closed, outcome, appended, harmed>>

\* An append of another metadata version is refused and changes nothing.
AppendOk(r) ==
  /\ step = "append" /\ ~closed
  /\ r.version = Version
  /\ AppendRecord(r)
  /\ appended' = Append(appended, r)
  /\ UNCHANGED <<metadata, pending, manifest, closed, step, outcome, harmed>>

\* An io_error poisons the session.
AppendIoError(r) ==
  /\ step = "append" /\ ~closed
  /\ r.version = Version
  /\ AppendFails(r)
  /\ closed' = TRUE
  /\ UNCHANGED <<metadata, pending, manifest, step, outcome, appended, harmed>>

StreamDrains == Drain /\ UNCHANGED sessionVars

-----------------------------------------------------------------------------
(* The writing process: finalize, one attempt. *)

\* finalize returns an error; the stream, if still open, is closed with the
\* writer some time later.
FinalizeError ==
  /\ outcome' = "error"
  /\ step' = "gone"
  /\ UNCHANGED <<metadata, pending, manifest, appended, harmed>>

FinalizeClosed ==
  /\ step = "append" /\ closed
  /\ FinalizeError
  /\ UNCHANGED <<journalVars, closed>>

\* flush() returning no error, and writer_.reset().
FlushAndReset ==
  /\ writing /\ ~broken
  /\ disk' = disk \o buffer
  /\ buffer' = <<>>
  /\ writing' = FALSE
  /\ UNCHANGED <<broken, records_written>>

FinalizeFlush ==
  /\ step = "append" /\ ~closed
  /\ closed' = TRUE
  /\ \/ /\ FlushAndReset
        /\ step' = "validate"
        /\ UNCHANGED <<metadata, pending, manifest, outcome, appended, harmed>>
     \/ /\ FinalizeError          \* the flush fails
        /\ broken' = TRUE
        /\ UNCHANGED <<disk, buffer, writing, records_written>>

\* Metadata fingerprint, journal validation and journal fingerprint.
FinalizeValidate ==
  /\ step = "validate"
  /\ \/ /\ metadata = "whole" /\ ValidJournal(disk, records_written)
        /\ step' = "write_pending"
        /\ UNCHANGED <<metadata, pending, manifest, outcome, appended, harmed>>
     \/ /\ FinalizeError
        /\ ~(metadata = "whole" /\ ValidJournal(disk, records_written))
  /\ UNCHANGED <<journalVars, closed>>

\* Mutant of WritePending: the manifest is written under its final name.
WriteInPlace ==
  /\ step = "write_pending"
  /\ manifest' = Manifest(records_written, disk)
  /\ pending' = Manifest(records_written, disk)
  /\ step' = "rename"
  /\ UNCHANGED <<journalVars, metadata, closed, outcome, appended, harmed>>

\* write_new_file refuses an existing manifest.pending, or fails half way.
WritePending ==
  /\ step = "write_pending"
  /\ \/ /\ pending.state = "absent"
        /\ pending' = Manifest(records_written, disk)
        /\ step' = "rename"
        /\ UNCHANGED outcome
     \/ /\ pending' \in {pending, TornManifest}
        /\ outcome' = "error" /\ step' = "gone"
  /\ UNCHANGED <<journalVars, metadata, manifest, closed, appended, harmed>>

\* manifest.json must not exist; the rename is the publication.
Rename ==
  /\ step = "rename"
  /\ \/ /\ manifest.state = "absent"
        /\ manifest' = pending
        /\ pending' = NoManifest
        /\ outcome' = "manifest" /\ step' = "gone"
        /\ UNCHANGED <<metadata, appended, harmed>>
     \/ FinalizeError
  /\ UNCHANGED <<journalVars, closed>>

-----------------------------------------------------------------------------
(* Failure. *)

\* The process dies at any step; what its stream held is gone.
ProcessDies ==
  /\ step # "gone"
  /\ step' = "gone"
  /\ writing' = FALSE /\ buffer' = <<>>
  /\ UNCHANGED <<disk, broken, records_written,
                 metadata, pending, manifest, closed, outcome, appended, harmed>>

\* Unsynced ends of files are lost, or a stray write damages them, once the
\* writing process is gone.
Damage ==
  /\ step = "gone"
  /\ disk # NoFile
  /\ harmed' = TRUE
  /\ \/ /\ \E n \in 0..(Len(disk) - 1) : disk' = SubSeq(disk, 1, n)
        /\ UNCHANGED <<metadata, manifest>>
     \/ /\ \E i \in DOMAIN disk : disk' = [disk EXCEPT ![i] = Corrupt]
        /\ UNCHANGED <<metadata, manifest>>
     \/ /\ metadata' = "torn"
        /\ UNCHANGED <<disk, manifest>>
     \/ /\ manifest.state = "complete" /\ manifest' = TornManifest
        /\ UNCHANGED <<disk, metadata>>
  /\ UNCHANGED <<buffer, writing, broken, records_written,
                 pending, closed, step, outcome, appended>>

-----------------------------------------------------------------------------
(* Later lives of the journal file: once the session is over, its file is a  *)
(* journal that open_raw_journal_writer opens for any caller of the library. *)

LaterOpens ==
  /\ step = "gone"
  /\ OpenWriter
  /\ step' = "later" /\ harmed' = TRUE
  /\ UNCHANGED <<metadata, pending, manifest, closed, outcome, appended>>

LaterWrites ==
  /\ step = "later"
  /\ \/ \E r \in JournalRecord :
          records_written < MaxRecords /\ (AppendRecord(r) \/ AppendFails(r))
     \/ Flush
  /\ UNCHANGED sessionVars

SessionNext ==
  \/ CreateMetadata \/ OpenJournal
  \/ \E r \in JournalRecord :
       Len(appended) < MaxRecords /\ (AppendOk(r) \/ AppendIoError(r))
  \/ StreamDrains
  \/ FinalizeClosed \/ FinalizeFlush \/ FinalizeValidate \/ WritePending \/ Rename
  \/ ProcessDies \/ Damage \/ LaterOpens \/ LaterWrites

SessionSpec == SessionInit /\ [][SessionNext]_svars

-----------------------------------------------------------------------------
(* Properties. *)

\* A session that verifies holds exactly the records its writer reported as
\* written, all of them and in order, whatever died or was damaged.
VerifiedIsExactlyAppended ==
  VerifyResult = "verified" => RecordsOf(disk) = appended /\ metadata = "whole"

\* A session verifies when finalize published it, unless its files were
\* touched, and never otherwise: not after a finalize that reported an error,
\* nor when the process died before the rename.
VerifiesIffPublished ==
  /\ outcome # "manifest" => VerifyResult = "incomplete_session"
  /\ outcome = "manifest" /\ ~harmed => VerifyResult = "verified"

\* While the writer lives it extends a journal that can be read back, and what verifies
\* afterwards is what it wrote.
JournalIsWhole == WriterExtendsReadableJournal /\ VerifiedIsExactlyAppended
==============================================================================
