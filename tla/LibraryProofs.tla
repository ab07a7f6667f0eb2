---------------------------- MODULE LibraryProofs ----------------------------
(***************************************************************************)
(* What holds of the library for any number of uploads, publications and   *)
(* visitors: no slot has two revisions, nothing is published without its   *)
(* file, and what was revoked is not served to whoever asks for it later.  *)
(***************************************************************************)
EXTENDS PublicAccess, PublishingProofs

----------------------------------------------------------------------------
\* The steps of the library

LEMMA LibrarySteps ==
  ASSUME [LibraryNext]_libraryVars
  PROVE  \/ /\ [Next]_vars /\ UNCHANGED <<rows, stored, upload, visit>>
            /\ OfExistingRevisions' \/ UNCHANGED vars
         \/ \E u \in Uploader : UploadStep(u) /\ UNCHANGED <<publishingVars, visit>>
         \/ \E v \in Visitor : VisitStep(v)
  BY DEF LibraryNext, libraryVars, uploadVars

\* An upload touches nothing of publishing but the audit trail.
LEMMA UploadsBesidesPublishing ==
  ASSUME NEW u \in Uploader, UploadStep(u), UNCHANGED <<publishingVars, visit>>
  PROVE  UNCHANGED <<status, rules, edit, pub, tx, lockQueue, revocation, now, visit>>
  BY DEF UploadStep, RecordUpload, editingVars, publishingVars

LEMMA VisitsReadOnly ==
  ASSUME NEW v \in Visitor, VisitStep(v)
  PROVE  UNCHANGED <<status, rules, edit, pub, tx, lockQueue, revocation, now,
                     rows, stored, upload>>
  BY DEF VisitStep, vars, editingVars, publishingVars, uploadVars

LEMMA TypeInvKept ==
  ASSUME TypeInv, UNCHANGED <<status, rules, edit, pub, tx, lockQueue, revocation, now>>
  PROVE  TypeInv'
<1>1. EditingTypeOK'
  BY DEF TypeInv, TypeOK, EditingTypeOK
<1>2. PublishingTypeOK'
  BY DEF TypeInv, TypeOK, PublishingTypeOK
<1>3. RevocationsRefer'
  BY DEF TypeInv, RevocationsRefer, Published
<1> QED BY <1>1, <1>2, <1>3 DEF TypeInv, TypeOK

LEMMA TypeInvLibraryStep ==
  ASSUME TypeInv, [LibraryNext]_libraryVars
  PROVE  TypeInv'
  BY LibrarySteps, NextTypeInv, UploadsBesidesPublishing, VisitsReadOnly, TypeInvKept

----------------------------------------------------------------------------
\* One row per slot

\* Every row is of a revision, and no two rows are of one slot.
SlotInv == rows \subseteq Revision /\ OneRowPerSlot

LEMMA InitSlotInv == LibraryInit => SlotInv
  BY UploadAssumption DEF LibraryInit, UploadsInit, SlotInv, OneRowPerSlot

LEMMA UploadKeepsSlots ==
  ASSUME SlotInv, UploadsTypeOK, NEW u \in Uploader, UploadStep(u)
  PROVE  SlotInv'
<1>1. CASE InsertRow(u)
  <2>1. upload[u].revision \in Revision
    BY <1>1 DEF InsertRow, UploadsTypeOK, RunningUpload, NoUpload
  <2> QED BY <1>1, <2>1 DEF InsertRow, SlotTaken, SlotInv, OneRowPerSlot
<1>2. CASE UNCHANGED rows
  BY <1>2 DEF SlotInv, OneRowPerSlot
<1> QED BY <1>1, <1>2
        DEF UploadStep, RequestUpload, CheckSlot, OpenFile, WriteFile, RefuseSlot,
            UploadFails, RecordUpload

----------------------------------------------------------------------------
\* Files

\* An upload about to create its row has stored its file, no row or other
\* upload has its revision before that.
UploadsHold ==
  \A u \in Uploader : upload[u].pc # "idle" =>
    /\ upload[u].pc = "insert" => stored[upload[u].revision] = "whole"
    /\ upload[u].pc # "audit" => upload[u].revision \notin rows
    /\ \A x \in Uploader \ {u} : upload[x].revision # upload[u].revision

FilesInv == UploadsTypeOK /\ SlotInv /\ RowsHaveFiles /\ UploadsHold

LEMMA InitFilesInv == LibraryInit => FilesInv
<1> SUFFICES ASSUME LibraryInit PROVE FilesInv
  OBVIOUS
<1>1. UploadsTypeOK /\ RowsHaveFiles /\ UploadsHold
  BY UploadAssumption
     DEF LibraryInit, UploadsInit, UploadsTypeOK, RowsHaveFiles, UploadsHold, NoUpload
<1> QED BY <1>1, InitSlotInv DEF FilesInv

LEMMA RunningUploads ==
  ASSUME UploadsTypeOK, NEW u \in Uploader, upload[u].pc # "idle"
  PROVE  upload[u] \in RunningUpload
  BY DEF UploadsTypeOK, NoUpload

\* A step of an upload that goes on, by what it writes.
LEMMA UploadMoves ==
  ASSUME UploadsTypeOK, NEW u \in Uploader, upload[u].pc # "idle",
         NEW pc \in {"unique", "put", "write", "insert", "audit"}, Goto(u, pc)
  PROVE  /\ upload' \in [Uploader -> {NoUpload} \cup RunningUpload]
         /\ upload'[u].pc = pc /\ upload'[u].revision = upload[u].revision
         /\ \A x \in Uploader \ {u} : upload'[x] = upload[x]
<1>1. upload[u] \in RunningUpload
  BY RunningUploads
<1>2. [upload[u] EXCEPT !.pc = pc] \in RunningUpload
  BY <1>1 DEF RunningUpload
<1> QED BY <1>1, <1>2 DEF Goto, UploadsTypeOK, RunningUpload

LEMMA UploadEnds ==
  ASSUME UploadsTypeOK, RowsHaveFiles, UploadsHold, NEW u \in Uploader,
         Finish(u), UNCHANGED <<rows, stored>>
  PROVE  UploadsTypeOK' /\ RowsHaveFiles' /\ UploadsHold'
<1>1. UploadsTypeOK'
  BY DEF Finish, UploadsTypeOK
<1>2. upload'[u].pc = "idle" /\ \A x \in Uploader \ {u} : upload'[x] = upload[x]
  BY DEF Finish, UploadsTypeOK, NoUpload
<1>3. upload'[u].revision = Null
  BY DEF Finish, UploadsTypeOK, NoUpload
<1>4. \A x \in Uploader : upload[x].pc # "idle" => upload[x].revision # Null
  BY RunningUploads, PublishingAssumption DEF RunningUpload
<1> QED BY <1>1, <1>2, <1>3, <1>4 DEF RowsHaveFiles, UploadsHold

LEMMA UploadKeepsFiles ==
  ASSUME FilesInv, NEW u \in Uploader, UploadStep(u)
  PROVE  UploadsTypeOK' /\ RowsHaveFiles' /\ UploadsHold'
<1> USE DEF FilesInv
<1>1. ASSUME NEW r \in Revision, RequestUpload(u, r)
      PROVE  UploadsTypeOK' /\ RowsHaveFiles' /\ UploadsHold'
  <2>1. [pc |-> "unique", revision |-> r] \in RunningUpload
    BY DEF RunningUpload
  <2>2. UploadsTypeOK'
    BY <1>1, <2>1 DEF RequestUpload, UploadsTypeOK
  <2>3. upload'[u].pc = "unique" /\ upload'[u].revision = r
    BY <1>1 DEF RequestUpload, UploadsTypeOK
  <2>4. \A x \in Uploader \ {u} : upload'[x] = upload[x]
    BY <1>1 DEF RequestUpload, UploadsTypeOK
  <2> QED BY <1>1, <2>2, <2>3, <2>4 DEF RequestUpload, RowsHaveFiles, UploadsHold
<1>2. ASSUME CheckSlot(u), ~SlotTaken(upload[u].revision)
      PROVE  UploadsTypeOK' /\ RowsHaveFiles' /\ UploadsHold'
  BY <1>2, UploadMoves DEF CheckSlot, UploadsTypeOK, RowsHaveFiles, UploadsHold
<1>3. ASSUME OpenFile(u) \/ WriteFile(u)
      PROVE  UploadsTypeOK' /\ RowsHaveFiles' /\ UploadsHold'
  <2>1. PICK pc \in {"write", "insert"} : Goto(u, pc) /\ (pc = "insert" => WriteFile(u))
    BY <1>3 DEF OpenFile, WriteFile
  <2>2. upload[u].pc \in {"put", "write"} /\ UNCHANGED rows
    BY <1>3 DEF OpenFile, WriteFile
  <2>3. /\ upload' \in [Uploader -> {NoUpload} \cup RunningUpload]
        /\ upload'[u].pc = pc /\ upload'[u].revision = upload[u].revision
        /\ \A x \in Uploader \ {u} : upload'[x] = upload[x]
    BY <2>1, <2>2, UploadMoves
  <2>4. upload[u].revision \in Revision
    BY <2>2, RunningUploads DEF RunningUpload
  <2>5. /\ stored' \in [Revision -> {"none", "part", "whole"}]
        /\ \A r \in Revision \ {upload[u].revision} : stored'[r] = stored[r]
    BY <1>3, <2>4 DEF OpenFile, WriteFile, UploadsTypeOK
  <2>6. pc = "insert" => stored'[upload[u].revision] = "whole"
    BY <2>1, <2>4 DEF WriteFile, UploadsTypeOK
  <2>7. upload[u].revision \notin rows
    BY <2>2 DEF UploadsHold
  <2>8. UploadsTypeOK'
    BY <2>2, <2>3, <2>5 DEF UploadsTypeOK
  <2>9. RowsHaveFiles'
    BY <2>2, <2>5, <2>7 DEF RowsHaveFiles, UploadsTypeOK
  <2>10. \A x \in Uploader \ {u} : upload[x].pc # "idle" =>
           upload[x].revision \in Revision \ {upload[u].revision}
    BY RunningUploads, <2>2 DEF RunningUpload, UploadsHold
  <2> QED BY <2>1, <2>2, <2>3, <2>5, <2>6, <2>8, <2>9, <2>10 DEF UploadsHold
<1>4. ASSUME InsertRow(u)
      PROVE  UploadsTypeOK' /\ RowsHaveFiles' /\ UploadsHold'
  <2>1. /\ upload' \in [Uploader -> {NoUpload} \cup RunningUpload]
        /\ upload'[u].pc = "audit" /\ upload'[u].revision = upload[u].revision
        /\ \A x \in Uploader \ {u} : upload'[x] = upload[x]
    BY <1>4, UploadMoves DEF InsertRow
  <2>2. upload[u].revision \in Revision
    BY <1>4, RunningUploads DEF InsertRow, RunningUpload
  <2>3. stored[upload[u].revision] = "whole"
    BY <1>4 DEF InsertRow, UploadsHold
  <2> QED BY <1>4, <2>1, <2>2, <2>3 DEF InsertRow, UploadsTypeOK, RowsHaveFiles, UploadsHold
<1>5. ASSUME Finish(u), UNCHANGED <<rows, stored>>
      PROVE  UploadsTypeOK' /\ RowsHaveFiles' /\ UploadsHold'
  BY <1>5, UploadEnds
<1> QED BY <1>1, <1>2, <1>3, <1>4, <1>5
        DEF UploadStep, CheckSlot, RefuseSlot, UploadFails, RecordUpload

LEMMA FilesInvStep ==
  ASSUME FilesInv, [LibraryNext]_libraryVars
  PROVE  FilesInv'
<1>1. ASSUME UNCHANGED <<rows, stored, upload>> PROVE FilesInv'
  BY <1>1 DEF FilesInv, UploadsTypeOK, SlotInv, OneRowPerSlot, RowsHaveFiles, UploadsHold
<1>2. ASSUME NEW u \in Uploader, UploadStep(u) PROVE FilesInv'
  BY <1>2, UploadKeepsFiles, UploadKeepsSlots DEF FilesInv
<1> QED BY <1>1, <1>2, LibrarySteps, VisitsReadOnly

\* A document never has two revisions of one label and language, however many
\* uploads race for them (revisions.service.ts:58-90).
THEOREM OneRowPerSlotEver == LibrarySpec => []OneRowPerSlot
<1>1. FilesInv => OneRowPerSlot
  BY DEF FilesInv, SlotInv
<1> QED BY <1>1, InitFilesInv, FilesInvStep, PTL DEF LibrarySpec

----------------------------------------------------------------------------
\* Nothing is published without its file

\* What is published, and what is about to be, are revisions that exist.
RowsInv ==
  /\ \A w \in Publisher : tx[w].pc # "idle" => tx[w].revision \in rows
  /\ \A p \in Published : pub[p].revision \in rows

LEMMA UploadsOnlyAddRows ==
  ASSUME NEW u \in Uploader, UploadStep(u)
  PROVE  rows \subseteq rows'
  BY DEF UploadStep, RequestUpload, CheckSlot, OpenFile, WriteFile, InsertRow, RefuseSlot,
         UploadFails, RecordUpload

LEMMA RowsInvStep ==
  ASSUME TypeInv, RowsInv, [LibraryNext]_libraryVars
  PROVE  RowsInv'
<1>1. ASSUME [Next]_vars, UNCHANGED rows, OfExistingRevisions' \/ UNCHANGED vars
      PROVE  RowsInv'
  <2>1. \A w \in Publisher : tx'[w].pc # "idle" => tx'[w].revision \in rows'
    BY <1>1 DEF OfExistingRevisions, RowsInv, vars, publishingVars
  <2>2. ASSUME NEW p \in Published', p \in Published PROVE pub'[p].revision \in rows'
    BY <1>1, <2>2, PublicationsAreFrozen DEF Frozen, RowsInv
  <2>3. ASSUME NEW p \in Published', p \notin Published PROVE pub'[p].revision \in rows'
    <3>1. PICK w \in Publisher :
            \E q \in PubId, t \in tx[w].since .. now : CommitPublish(w, q, t)
      BY <1>1, <2>3, NewIsCommitted DEF Published
    <3>2. PICK q \in PubId, t \in tx[w].since .. now : CommitPublish(w, q, t)
      BY <3>1
    <3>3. p = q
      BY <2>3, <3>2 DEF CommitPublish, Published, TypeInv, TypeOK, PublishingTypeOK
    <3>4. pub'[p].revision = tx[w].revision
      BY <3>2, <3>3 DEF CommitPublish, TypeInv, TypeOK, PublishingTypeOK
    <3> QED BY <1>1, <3>2, <3>4 DEF CommitPublish, RowsInv
  <2> QED BY <2>1, <2>2, <2>3 DEF RowsInv
<1>2. ASSUME NEW u \in Uploader, UploadStep(u), UNCHANGED <<publishingVars, visit>>
      PROVE  RowsInv'
  BY <1>2, UploadsOnlyAddRows DEF RowsInv, Published, publishingVars
<1>3. ASSUME NEW v \in Visitor, VisitStep(v) PROVE RowsInv'
  BY <1>3, VisitsReadOnly DEF RowsInv, Published
<1> QED BY <1>1, <1>2, <1>3, LibrarySteps

\* What a download has found can be read: no publication is without its whole
\* file, whatever uploads fail or meet (public.service.ts:131).
THEOREM PublishedHaveFilesEver == LibrarySpec => []PublishedHaveFiles
<1> DEFINE I == TypeInv /\ FilesInv /\ RowsInv
<1>1. LibraryInit => I
  BY InitTypeInv, InitFilesInv DEF LibraryInit, Init, RowsInv, Published, NoTx
<1>2. I /\ [LibraryNext]_libraryVars => I'
  BY TypeInvLibraryStep, FilesInvStep, RowsInvStep
<1>3. I => PublishedHaveFiles
  BY DEF FilesInv, RowsHaveFiles, RowsInv, PublishedHaveFiles
<1> QED BY <1>1, <1>2, <1>3, PTL DEF LibrarySpec

----------------------------------------------------------------------------
\* Visitors

VisitsInv == visit \in [Visitor -> Visit]

LEMMA OpenVisits ==
  ASSUME VisitsInv, NEW v \in Visitor, visit[v].pc # "away"
  PROVE  visit[v] \in OpenVisit
  BY DEF VisitsInv, Visit, Away

LEMMA VisitKeepsType ==
  ASSUME TypeInv, VisitsInv, NEW v \in Visitor, VisitStep(v)
  PROVE  VisitsInv'
<1> USE DEF VisitsInv
<1>0. now \in Nat /\ Away \in Visit /\ Published \subseteq PubId /\ Ended \subseteq PubId
  BY PublishingAssumption
     DEF TypeInv, TypeOK, PublishingTypeOK, Visit, Published, Ended
<1>1. ASSUME NEW target \in ContextPool, RequestPage(v, target)
      PROVE  VisitsInv'
  <2>1. [Away EXCEPT !.pc = "resolve", !.target = target, !.at = now] \in OpenVisit
    BY <1>0, <1>1 DEF Away, OpenVisit
  <2> QED BY <1>1, <2>1 DEF RequestPage, Visit
<1>2. ASSUME NEW found \in SUBSET PubId, ShowPage(v, found)
      PROVE  VisitsInv'
  <2>1. [visit[v] EXCEPT !.pc = "page", !.links = found] \in OpenVisit
    BY <1>2, OpenVisits DEF ShowPage, OpenVisit
  <2> QED BY <1>2, <2>1 DEF ShowPage, Visit
<1>3. ASSUME NEW found \in SUBSET PubId, ResolveAgain(v, found)
      PROVE  VisitsInv'
  <2>1. [visit[v] EXCEPT !.pc = IF visit[v].wanted \in found THEN "fetch" ELSE "page"] \in OpenVisit
    BY <1>3, OpenVisits DEF ResolveAgain, OpenVisit
  <2> QED BY <1>3, <2>1 DEF ResolveAgain, Visit
<1>4. ASSUME NEW p \in PubId, RequestDownload(v, p)
      PROVE  VisitsInv'
  <2>1. [visit[v] EXCEPT !.pc = "find", !.wanted = p, !.gone = Ended] \in OpenVisit
    BY <1>0, <1>4, OpenVisits DEF RequestDownload, OpenVisit
  <2> QED BY <1>4, <2>1 DEF RequestDownload, Visit
<1>5. ASSUME FixMoment(v) PROVE VisitsInv'
  <2>1. [visit[v] EXCEPT !.pc = "again", !.at = now] \in OpenVisit
    BY <1>0, <1>5, OpenVisits DEF FixMoment, OpenVisit
  <2> QED BY <1>5, <2>1 DEF FixMoment, Visit
<1>6. ASSUME NEW pc \in {"page", "served"}, visit[v].pc # "away",
             visit' = [visit EXCEPT ![v].pc = pc]
      PROVE  VisitsInv'
  <2>1. [visit[v] EXCEPT !.pc = pc] \in OpenVisit
    BY <1>6, OpenVisits DEF OpenVisit
  <2> QED BY <1>6, <2>1 DEF Visit
<1>7. ASSUME Serve(v) \/ BackToPage(v) PROVE VisitsInv'
  BY <1>6, <1>7 DEF Serve, BackToPage
<1>8. ASSUME LeavePage(v) PROVE VisitsInv'
  BY <1>0, <1>8 DEF LeavePage
<1> QED BY <1>1, <1>2, <1>3, <1>4, <1>5, <1>7, <1>8 DEF VisitStep

LEMMA VisitsInvStep ==
  ASSUME TypeInv, VisitsInv, [LibraryNext]_libraryVars
  PROVE  VisitsInv'
  BY LibrarySteps, VisitKeepsType DEF VisitsInv

LEMMA InitVisitsInv == LibraryInit => VisitsInv
  BY DEF LibraryInit, VisitsInv, Visit

\* The library keeps to its types.
THEOREM LibraryTypeCorrect == LibrarySpec => []LibraryTypeOK
<1> DEFINE I == TypeInv /\ FilesInv /\ VisitsInv
<1>1. LibraryInit => I
  BY InitTypeInv, InitFilesInv, InitVisitsInv DEF LibraryInit
<1>2. I /\ [LibraryNext]_libraryVars => I'
  BY TypeInvLibraryStep, FilesInvStep, VisitsInvStep
<1>3. I => LibraryTypeOK
  BY DEF TypeInv, FilesInv, VisitsInv, LibraryTypeOK
<1> QED BY <1>1, <1>2, <1>3, PTL DEF LibrarySpec

----------------------------------------------------------------------------
\* Revoked documents are not served

\* From its request on, a download knows of publications that had ended; the
\* moment it resolves for is past their end.
GoneInv ==
  \A v \in Visitor :
    /\ visit[v].pc \in {"find", "again"} => visit[v].gone \subseteq Ended
    /\ visit[v].pc = "again" => \A p \in visit[v].gone : pub[p].revokedAt <= visit[v].at
    /\ visit[v].pc \in {"fetch", "served"} => visit[v].wanted \notin visit[v].gone

\* What had ended by the moment of a lookup is not what the lookup finds.
LEMMA EndedNotFound ==
  ASSUME TypeInv, NEW p \in Ended, NEW context, NEW at \in Nat, NEW found,
         IsResolution(found, context, at), pub[p].revokedAt \in Nat, pub[p].revokedAt <= at
  PROVE  p \notin found
<1> SUFFICES ASSUME p \in found PROVE FALSE
  OBVIOUS
<1>1. p \in Published
  BY DEF Ended
<1>2. KeyOfPub(p) \in Key
  BY <1>1, PublishingAssumption
     DEF KeyOfPub, Published, TypeInv, TypeOK, PublishingTypeOK, Publication
<1>3. p \in Top(KeyOfPub(p), context, at)
  BY <1>2 DEF IsResolution
<1>4. InForce(p, at)
  BY <1>3 DEF Top, Candidates
<1>5. pub[p].revokedAt # Null
  BY NullAssumption
<1> QED BY <1>4, <1>5 DEF InForce

LEMMA VisitKeepsGone ==
  ASSUME TypeInv, TimeInv, VisitsInv, GoneInv, NEW v \in Visitor, VisitStep(v)
  PROVE  GoneInv'
<1> USE DEF VisitsInv
<1>1. UNCHANGED <<pub, now>> /\ Ended' = Ended
  BY VisitsReadOnly DEF Ended, Published
<1>2. \A x \in Visitor \ {v} : visit'[x] = visit[x]
  BY DEF VisitStep, RequestPage, ShowPage, ResolveAgain, RequestDownload, FixMoment,
         Serve, BackToPage, LeavePage
<1>3. ASSUME NEW found \in SUBSET PubId, ResolveAgain(v, found)
      PROVE  visit'[v].pc = "fetch" => visit[v].wanted \notin visit[v].gone
  <2>1. \A p \in visit[v].gone :
          p \in Ended /\ pub[p].revokedAt \in Nat /\ pub[p].revokedAt <= visit[v].at
    BY <1>3 DEF ResolveAgain, GoneInv, Ended, TimeInv
  <2>2. visit[v].at \in Nat
    BY <1>3, OpenVisits DEF ResolveAgain, OpenVisit
  <2>3. visit'[v].pc = "fetch" => visit[v].wanted \in found
    <3>1. visit[v] \in OpenVisit
      BY <1>3, OpenVisits DEF ResolveAgain
    <3>2. visit'[v].pc = IF visit[v].wanted \in found THEN "fetch" ELSE "page"
      BY <1>3, <3>1 DEF ResolveAgain, OpenVisit
    <3> QED BY <3>2
  <2> QED BY <1>3, <2>1, <2>2, <2>3, EndedNotFound DEF ResolveAgain
<1>4. CASE \E found \in SUBSET PubId : ResolveAgain(v, found)
  <2>1. PICK found \in SUBSET PubId : ResolveAgain(v, found)
    BY <1>4
  <2>2. /\ visit'[v].pc \in {"fetch", "page"}
        /\ visit'[v].wanted = visit[v].wanted /\ visit'[v].gone = visit[v].gone
    BY <2>1 DEF ResolveAgain, Visit, Away
  <2> QED BY <1>1, <1>2, <1>3, <2>1, <2>2 DEF GoneInv
<1>5. CASE \E p \in PubId : RequestDownload(v, p)
  <2>1. visit'[v].pc = "find" /\ visit'[v].gone = Ended
    BY <1>5 DEF RequestDownload, Visit, Away
  <2> QED BY <1>1, <1>2, <2>1 DEF GoneInv
<1>6. CASE FixMoment(v)
  <2>1. /\ visit[v].pc = "find" /\ visit'[v].pc = "again"
        /\ visit'[v].at = now /\ visit'[v].gone = visit[v].gone
    BY <1>6 DEF FixMoment, Visit, Away
  <2>2. \A p \in visit[v].gone : pub[p].revokedAt <= now
    BY <2>1 DEF GoneInv, TimeInv, Ended
  <2> QED BY <1>1, <1>2, <2>1, <2>2 DEF GoneInv
<1>7. CASE Serve(v)
  <2>1. /\ visit[v].pc = "fetch" /\ visit'[v].pc = "served"
        /\ visit'[v].wanted = visit[v].wanted /\ visit'[v].gone = visit[v].gone
    BY <1>7 DEF Serve, Visit, Away
  <2> QED BY <1>1, <1>2, <2>1 DEF GoneInv
<1>8. CASE visit'[v].pc \in {"away", "resolve", "page"}
  BY <1>1, <1>2, <1>8 DEF GoneInv
<1>9. ASSUME \/ \E target \in ContextPool : RequestPage(v, target)
             \/ \E found \in SUBSET PubId : ShowPage(v, found)
             \/ BackToPage(v)
             \/ LeavePage(v)
      PROVE  visit'[v].pc \in {"away", "resolve", "page"}
  <2>1. visit[v].pc # "away" => visit[v] \in OpenVisit
    BY OpenVisits
  <2>2. CASE \E target \in ContextPool : RequestPage(v, target)
    BY <2>2 DEF RequestPage, Away
  <2>3. CASE \E found \in SUBSET PubId : ShowPage(v, found)
    BY <2>1, <2>3 DEF ShowPage, OpenVisit
  <2>4. CASE BackToPage(v)
    BY <2>1, <2>4 DEF BackToPage, OpenVisit
  <2>5. CASE LeavePage(v)
    BY <2>5 DEF LeavePage, Away
  <2> QED BY <1>9, <2>2, <2>3, <2>4, <2>5
<1> QED BY <1>4, <1>5, <1>6, <1>7, <1>8, <1>9 DEF VisitStep

LEMMA GoneInvStep ==
  ASSUME TypeInv, TimeInv, VisitsInv, GoneInv, [LibraryNext]_libraryVars
  PROVE  GoneInv'
<1>1. ASSUME [Next]_vars, UNCHANGED visit PROVE GoneInv'
  <2>1. \A p \in Ended : p \in Ended' /\ pub'[p] = pub[p]
    BY <1>1, EndedStays
  <2> QED BY <1>1, <2>1 DEF GoneInv
<1>2. ASSUME UNCHANGED <<pub, revocation, visit>> PROVE GoneInv'
  BY <1>2 DEF GoneInv, Ended, Published
<1> QED BY <1>1, <1>2, LibrarySteps, UploadsBesidesPublishing, VisitKeepsGone

\* A download requested after a publication was revoked, and no other request to
\* revoke it was about to write, does not serve it, however many revoke, publish
\* and look up at once (public.service.ts:113-131).
THEOREM RevokedNotServedEver == LibrarySpec => []RevokedNotServed
<1> DEFINE I == TypeInv /\ TimeInv /\ VisitsInv /\ GoneInv
<1>1. LibraryInit => I
  BY InitTypeInv, InitVisitsInv
     DEF LibraryInit, Init, TimeInv, Published, GoneInv, Away
<1>2. ASSUME TypeInv, TimeInv, [LibraryNext]_libraryVars
      PROVE  TimeInv'
  <2>1. ASSUME UNCHANGED <<pub, now, revocation>> PROVE TimeInv'
    BY <1>2, <2>1 DEF TimeInv, Published
  <2> QED BY <1>2, <2>1, LibrarySteps, TimeInvStep, UploadsBesidesPublishing, VisitsReadOnly
<1>3. I /\ [LibraryNext]_libraryVars => I'
  BY <1>2, TypeInvLibraryStep, VisitsInvStep, GoneInvStep
<1>4. I => RevokedNotServed
  BY DEF GoneInv, RevokedNotServed
<1> QED BY <1>1, <1>3, <1>4, PTL DEF LibrarySpec
=============================================================================
