---------------------------- MODULE RevisionsPage ----------------------------
(***************************************************************************)
(* The revisions of a document (DocumentDetailPage, RevisionsTab): what    *)
(* the page offers follows the status it has read, and every move that     *)
(* succeeds reads the document again.                                      *)
(***************************************************************************)
EXTENDS Desk

VARIABLE document   \* the page, once it is open

\* busy: the row with a move under way; there is place for one.  own: the moves
\* that the tab now on the page has sent.
OpenedDocument ==
  [shown |-> Null, loading |-> TRUE, error |-> FALSE, busy |-> Null, own |-> {}]

DocumentInit == document = Null

\* Ask for the document and its revisions.  While they load, and when that has
\* failed, the page shows nothing else: the tab, and what it knew, is gone.
OpenDocument(c) ==
  /\ document = Null
  /\ Send(c, Request("revisions", Null, "document"))
  /\ document' = OpenedDocument
  /\ UNCHANGED deskVars

DocumentArrives(c) ==
  /\ Answered(c, "revisions") /\ call[c].input = "document"
  /\ document' = [document EXCEPT !.shown = call[c].answer, !.loading = FALSE, !.error = FALSE]
  /\ Forget(c)
  /\ UNCHANGED deskVars

DocumentFails(c) ==
  /\ Failed(c, "revisions") /\ call[c].input = "document"
  /\ document' = [document EXCEPT !.loading = FALSE, !.error = TRUE,
                                  !.busy = Null, !.own = {}]
  /\ Forget(c)
  /\ UNCHANGED deskVars

DocumentCalls ==
  {c \in Call : \/ IsFor(c, {"move"})
                \/ IsFor(c, {"revisions"}) /\ call[c].input = "document"}

\* The user goes away, and may come back.
CloseDocument ==
  /\ document # Null
  /\ document' = Null
  /\ ClosePage(DocumentCalls)
  /\ UNCHANGED deskVars

\* "Einreichen", "Freigeben", "Zurückziehen"
StartMove(r, target, c) ==
  /\ document # Null /\ ~document.loading /\ ~document.error
  /\ target \in Follows[document.shown[r]]
  /\ document.busy # r
  /\ Send(c, Request("move", r, target))
  /\ document' = [document EXCEPT !.busy = r, !.own = @ \cup {c}]
  /\ UNCHANGED deskVars

\* Mutant: only a move that succeeds frees the place.
NeverFreed(c) == document.busy

\* A move that has ended frees the place, whichever row holds it by now; one that
\* an earlier tab had sent does not.
Freed(c) == IF c \in document.own THEN Null ELSE document.busy

MoveDone(c) ==
  /\ Answered(c, "move") /\ call[c].answer = "done"
  /\ document' = [document EXCEPT !.busy = Null, !.own = {}, !.loading = TRUE]
  /\ call' = [call EXCEPT ![c] = Request("revisions", Null, "document")]
  /\ UNCHANGED deskVars

MoveFailed(c) ==
  /\ \/ Answered(c, "move") /\ call[c].answer = "refused" /\ Forget(c)
     \/ Failed(c, "move") /\ LeaveToApi(c)
  /\ document' = [document EXCEPT !.busy = Freed(c), !.own = @ \ {c}]
  /\ UNCHANGED deskVars

DocumentHears(c) ==
  \/ DocumentArrives(c) \/ DocumentFails(c) \/ MoveDone(c) \/ MoveFailed(c)

DocumentStep ==
  \/ CloseDocument
  \/ \E c \in Call :
       \/ OpenDocument(c) \/ DocumentHears(c)
       \/ \E r \in Revision, target \in DOMAIN Follows : StartMove(r, target, c)

----------------------------------------------------------------------------
\* Properties

\* The page waits only for what is under way: a row is disabled by its own move,
\* and the page loads while a reload runs, though moves of several rows, and the
\* reloads they lead to, end in any order or fail (RevisionsTab.tsx:34-46,
\* DocumentDetailPage.tsx:37-49).
NeverWaitsInVain ==
  document # Null =>
    /\ document.busy # Null =>
         \E c \in document.own : IsFor(c, {"move"}) /\ call[c].subject = document.busy
    /\ document.loading => \E c \in DocumentCalls : IsFor(c, {"revisions"})
=============================================================================
