------------------------------ MODULE Uploads ------------------------------
(***************************************************************************)
(* Uploading revisions (FilesTab, RevisionsService.upload, the storage     *)
(* services).  The file goes to storage first, under a key made from the   *)
(* fresh id of the revision, then the row of the revision is created, then *)
(* the audit event: no transaction spans storage and database, so what a   *)
(* failure leaves behind depends on this order.                            *)
(***************************************************************************)
EXTENDS RevisionEditing

CONSTANTS
  Slot,       \* a document, a revision label and a language
  SlotOf,     \* the slot each revision is uploaded for
  Existing,   \* revisions there are at the start, with their files
  Uploader    \* upload requests that may be in flight

ASSUME UploadAssumption ==
  /\ SlotOf \in [Revision -> Slot]
  /\ Existing \subseteq Revision
  /\ \A r, s \in Existing : SlotOf[r] = SlotOf[s] => r = s

VARIABLES
  rows,      \* revisions that have a row
  stored,    \* how much of its file storage holds, per revision
  upload     \* per request: how far it is

uploadVars == <<rows, stored, upload>>

NoUpload == [pc |-> "idle", revision |-> Null]

\* pc: unique (about to look for the slot), put, write (file half written),
\* insert, audit
RunningUpload ==
  [pc : {"unique", "put", "write", "insert", "audit"}, revision : Revision]

UploadsTypeOK ==
  /\ rows \subseteq Revision
  /\ stored \in [Revision -> {"none", "part", "whole"}]
  /\ upload \in [Uploader -> {NoUpload} \cup RunningUpload]

UploadsInit ==
  /\ rows = Existing
  /\ stored = [r \in Revision |-> IF r \in Existing THEN "whole" ELSE "none"]
  /\ upload = [u \in Uploader |-> NoUpload]

Goto(u, pc) == upload' = [upload EXCEPT ![u].pc = pc]

Finish(u) == upload' = [upload EXCEPT ![u] = NoUpload]

SlotTaken(r) == \E s \in rows : SlotOf[s] = SlotOf[r]

----------------------------------------------------------------------------
\* A file of an allowed size and type is sent; the document is found.  Who
\* retries after a failure sends a new request: the id is drawn anew.
RequestUpload(u, r) ==
  /\ upload[u].pc = "idle"
  /\ r \notin rows /\ stored[r] = "none"
  /\ \A v \in Uploader : upload[v].revision # r
  /\ upload' = [upload EXCEPT ![u] = [pc |-> "unique", revision |-> r]]
  /\ UNCHANGED <<rows, stored>>

\* The handler looks for the slot before it stores anything ...
CheckSlot(u) ==
  /\ upload[u].pc = "unique"
  /\ IF SlotTaken(upload[u].revision) THEN Finish(u) ELSE Goto(u, "put")
  /\ UNCHANGED <<rows, stored>>

\* Mutant: the row is created as soon as storage is asked for the file.
OpenFileAndInsertRow(u) ==
  /\ upload[u].pc = "put"
  /\ ~SlotTaken(upload[u].revision)
  /\ stored' = [stored EXCEPT ![upload[u].revision] = "part"]
  /\ rows' = rows \cup {upload[u].revision}
  /\ Goto(u, "write")

OpenFile(u) ==
  /\ upload[u].pc = "put"
  /\ stored' = [stored EXCEPT ![upload[u].revision] = "part"]
  /\ Goto(u, "write")
  /\ UNCHANGED rows

WriteFile(u) ==
  /\ upload[u].pc = "write"
  /\ stored' = [stored EXCEPT ![upload[u].revision] = "whole"]
  /\ Goto(u, "insert")
  /\ UNCHANGED rows

\* Mutant: the first look at the slot is relied on.
InsertRowUnchecked(u) ==
  /\ upload[u].pc = "insert"
  /\ rows' = rows \cup {upload[u].revision}
  /\ Goto(u, "audit")
  /\ UNCHANGED stored

\* ... and the unique key of the table has the last word.
InsertRow(u) ==
  /\ upload[u].pc = "insert"
  /\ ~SlotTaken(upload[u].revision)
  /\ rows' = rows \cup {upload[u].revision}
  /\ Goto(u, "audit")
  /\ UNCHANGED stored

\* The file of the loser stays in storage, and nothing refers to it.
RefuseSlot(u) ==
  /\ upload[u].pc = "insert"
  /\ SlotTaken(upload[u].revision)
  /\ Finish(u)
  /\ UNCHANGED <<rows, stored>>

RecordUpload(u) ==
  /\ upload[u].pc = "audit"
  /\ audit' = audit \cup {<<"REVISION_CREATED", upload[u].revision>>}
  /\ Finish(u)
  /\ UNCHANGED <<status, rules, edit, rows, stored>>

UploadFails(u) ==
  /\ Crashes
  /\ upload[u].pc # "idle"
  /\ Finish(u)
  /\ UNCHANGED <<rows, stored>>

UploadStep(u) ==
  \/ /\ \/ \E r \in Revision : RequestUpload(u, r)
        \/ CheckSlot(u)
        \/ OpenFile(u)
        \/ WriteFile(u)
        \/ InsertRow(u)
        \/ RefuseSlot(u)
        \/ UploadFails(u)
     /\ UNCHANGED editingVars
  \/ RecordUpload(u)

----------------------------------------------------------------------------
\* Properties

\* Every revision anybody can see has its whole file in storage, whenever an
\* upload fails or two of them meet (revisions.service.ts:71-73).
RowsHaveFiles == \A r \in rows : stored[r] = "whole"

\* A document never has two revisions of one label and language, however many
\* uploads looked for the slot before any of them created its row
\* (revisions.service.ts:58-63, schema.prisma:352).
OneRowPerSlot == \A r, s \in rows : SlotOf[r] = SlotOf[s] => r = s
=============================================================================
