----------------------------- MODULE CaptureLog ------------------------------
(***************************************************************************)
(* What AsyncCaptureWriter promises its caller, without threads or rings:  *)
(* records are accepted in an order, written in that order, and a capture  *)
(* is published only when all it accepted is written and nothing failed.   *)
(***************************************************************************)
EXTENDS Integers, Sequences

CONSTANT Record

VARIABLES
  accepted,   \* records the caller was told are queued, in order
  journal,    \* records in the journal
  failed,     \* the capture will never be published
  published   \* the manifest exists

logVars == <<accepted, journal, failed, published>>

LogInit ==
  /\ accepted = <<>>
  /\ journal = <<>>
  /\ failed = FALSE
  /\ published = FALSE

\* "Queued" is no promise of durability: the caller may be told so after the
\* capture has already failed.
Accept(r) ==
  /\ ~published
  /\ accepted' = Append(accepted, r)
  /\ UNCHANGED <<journal, failed, published>>

\* A failure does not stop the record that is being written.
Write ==
  /\ ~published
  /\ Len(journal) < Len(accepted)
  /\ journal' = Append(journal, accepted[Len(journal) + 1])
  /\ UNCHANGED <<accepted, failed, published>>

Fail ==
  /\ ~published /\ ~failed
  /\ failed' = TRUE
  /\ UNCHANGED <<accepted, journal, published>>

Publish ==
  /\ ~failed /\ ~published
  /\ journal = accepted
  /\ published' = TRUE
  /\ UNCHANGED <<accepted, journal, failed>>

LogNext ==
  \/ \E r \in Record : Accept(r)
  \/ Write
  \/ Fail
  \/ Publish

LogSpec == LogInit /\ [][LogNext]_logVars
==============================================================================
