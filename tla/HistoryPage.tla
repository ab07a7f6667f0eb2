----------------------------- MODULE HistoryPage -----------------------------
(***************************************************************************)
(* The history of publications (PublicationHistoryPage, usePaginated): a   *)
(* list by filter and page, and the drawer of one publication, where it is *)
(* revoked (PublicationDetailDrawer).  An answer to a question the page    *)
(* has dropped is not taken, but for the read that follows a revoke.       *)
(***************************************************************************)
EXTENDS Desk, Naturals

CONSTANTS
  Filter,    \* filters the user may choose
  LastPage   \* bound on the page numbers

ASSUME FilterAssumption == Null \notin Filter

VARIABLES
  list,     \* the list; the page is not open while it has no filter
  detail    \* the drawer of a publication

\* asked: the request whose answer is waited for.  revoking and reported (the
\* publications the page said it revoked) belong to the drawer, which stays
\* mounted when it is closed.
OpenedList(filter, c) ==
  [filter |-> filter, page |-> 1, shown |-> Null, asked |-> c, error |-> FALSE]

NoDetail ==
  [opened |-> Null, shown |-> Null, asked |-> Null, error |-> FALSE, confirming |-> FALSE,
   revoking |-> FALSE, reported |-> {}]

HistoryInit == list = OpenedList(Null, Null) /\ detail = NoDetail

HistoryOpen == list.filter # Null

\* The table and the buttons to other pages are shown.
Settled == HistoryOpen /\ list.asked = Null /\ ~list.error

----------------------------------------------------------------------------
\* The list.  A new filter, page or reload cancels the request under way.

\* Mutant: the answer of a cancelled request is taken.
CancelledListHeard(d) == call[d]

CancelledList(d) == Null

AskForList(c, filter, page) ==
  /\ call' = [d \in Call |-> IF d = c THEN Request("history", filter, page)
                             ELSE IF d = list.asked THEN CancelledList(d) ELSE call[d]]
  /\ list' = [list EXCEPT !.filter = filter, !.page = page, !.asked = c, !.error = FALSE]

OpenHistory(filter, c) ==
  /\ ~HistoryOpen
  /\ Send(c, Request("history", filter, 1))
  /\ list' = OpenedList(filter, c)
  /\ UNCHANGED <<detail, deskVars>>

\* A new filter leads back to the first page.
ChooseFilter(filter, c) ==
  /\ HistoryOpen /\ filter # list.filter /\ detail.opened = Null
  /\ call[c] = Null
  /\ AskForList(c, filter, 1)
  /\ UNCHANGED <<detail, deskVars>>

ChoosePage(page, c) ==
  /\ Settled /\ page \in {list.page - 1, list.page + 1} /\ detail.opened = Null
  /\ call[c] = Null
  /\ AskForList(c, list.filter, page)
  /\ UNCHANGED <<detail, deskVars>>

ListArrives(c) ==
  /\ Answered(c, "history")
  /\ list' = [list EXCEPT !.shown = call[c].answer, !.asked = Null]
  /\ Forget(c)
  /\ UNCHANGED <<detail, deskVars>>

ListFails(c) ==
  /\ Failed(c, "history")
  /\ list' = [list EXCEPT !.asked = Null, !.error = TRUE]
  /\ Forget(c)
  /\ UNCHANGED <<detail, deskVars>>

----------------------------------------------------------------------------
\* The drawer

OpenDetail(p, c) ==
  /\ Settled /\ detail.opened = Null
  /\ \E item \in list.shown.items : item.id = p
  /\ Send(c, Request("publication", p, "opened"))
  /\ detail' = [detail EXCEPT !.opened = p, !.asked = c, !.error = FALSE]
  /\ UNCHANGED <<list, deskVars>>

\* Mutant: the drawer takes the answer for the publication it was closed with.
CancelledDetailHeard(d) == call[d]

CancelledDetail(d) == Null

\* Escape closes the dialog and the drawer at once; a revoke goes on.
CloseDetail ==
  /\ detail.opened # Null
  /\ detail' = [NoDetail EXCEPT !.revoking = detail.revoking, !.reported = detail.reported]
  /\ call' = [d \in Call |-> IF d = detail.asked THEN CancelledDetail(d) ELSE call[d]]
  /\ UNCHANGED <<list, deskVars>>

DetailArrives(c) ==
  /\ Answered(c, "publication") /\ call[c].input = "opened"
  /\ detail' = [detail EXCEPT !.shown = call[c].answer, !.asked = Null]
  /\ Forget(c)
  /\ UNCHANGED <<list, deskVars>>

DetailFails(c) ==
  /\ Failed(c, "publication") /\ call[c].input = "opened"
  /\ detail' = [detail EXCEPT !.asked = Null, !.error = TRUE]
  /\ Forget(c)
  /\ UNCHANGED <<list, deskVars>>

AskToRevoke ==
  /\ detail.opened # Null /\ detail.asked = Null /\ ~detail.error
  /\ detail.shown # Null /\ detail.shown.status = "ACTIVE"
  /\ detail' = [detail EXCEPT !.confirming = TRUE]
  /\ UNCHANGED <<list, call, deskVars>>

CloseConfirmation ==
  /\ detail.confirming
  /\ detail' = [detail EXCEPT !.confirming = FALSE]
  /\ UNCHANGED <<list, call, deskVars>>

\* What is revoked is what the drawer shows; what it was opened for is kept
\* with the request for RevokesWhatWasOpened.
ConfirmRevoke(c) ==
  /\ detail.confirming /\ ~detail.revoking
  /\ Send(c, Request("revoke", detail.shown.id, detail.opened))
  /\ detail' = [detail EXCEPT !.revoking = TRUE]
  /\ UNCHANGED <<list, deskVars>>

\* The publication is read again, whatever the drawer shows by then ...
RevokeDone(c) ==
  /\ Answered(c, "revoke") /\ call[c].answer = "done"
  /\ call' = [call EXCEPT ![c] = Request("publication", @.subject, "revoked")]
  /\ UNCHANGED <<list, detail, deskVars>>

\* Mutant: the list stays as it is.
KeepList(c) == Forget(c) /\ UNCHANGED list

\* ... and then the list, by the filter and page chosen by then.
ReloadList(c) == AskForList(c, list.filter, list.page)

RevokeShown(c) ==
  /\ Answered(c, "publication") /\ call[c].input = "revoked"
  /\ detail' = [detail EXCEPT !.shown = call[c].answer, !.revoking = FALSE,
                              !.confirming = FALSE, !.reported = @ \cup {call[c].subject}]
  /\ ReloadList(c)
  /\ UNCHANGED deskVars

\* A revoke that was done is reported as failed when the read fails.
RevokeReportedFailed(c) ==
  /\ \/ Answered(c, "revoke") /\ call[c].answer = "refused" /\ Forget(c)
     \/ Failed(c, "revoke") /\ LeaveToApi(c)
     \/ Failed(c, "publication") /\ call[c].input = "revoked" /\ Forget(c)
  /\ detail' = [detail EXCEPT !.revoking = FALSE, !.confirming = FALSE]
  /\ UNCHANGED <<list, deskVars>>

HistoryHears(c) ==
  \/ ListArrives(c) \/ ListFails(c)
  \/ DetailArrives(c) \/ DetailFails(c)
  \/ RevokeDone(c) \/ RevokeShown(c) \/ RevokeReportedFailed(c)

HistoryStep ==
  \/ CloseDetail \/ AskToRevoke \/ CloseConfirmation
  \/ \E c \in Call :
       \/ \E filter \in Filter : OpenHistory(filter, c) \/ ChooseFilter(filter, c)
       \/ \E page \in 1 .. LastPage : ChoosePage(page, c)
       \/ \E p \in PubId : OpenDetail(p, c)
       \/ ConfirmRevoke(c) \/ HistoryHears(c)

----------------------------------------------------------------------------
\* Properties

\* The table is the answer to the filter and the page chosen last, in whatever
\* order the answers to the earlier ones come in (use-paginated.ts:29-46).
ListAnswersLatest ==
  Settled =>
    /\ list.shown.page = list.page
    /\ \A item \in list.shown.items :
         /\ list.filter.key \in {Null, item.key}
         /\ list.filter.status \in {Null, item.status}

\* A publication is revoked from the drawer that was opened for it, though late
\* answers may put another publication into the drawer
\* (PublicationDetailDrawer.tsx:49-64, 73-78).
RevokesWhatWasOpened ==
  \A c \in Call : Sent(c, "revoke") => call[c].subject = call[c].input

\* What the page has reported as revoked is not listed as active any more once
\* the list has settled (PublicationDetailDrawer.tsx:80).
ReportedIsListed ==
  Settled =>
    \A item \in list.shown.items : item.id \in detail.reported => item.status # "ACTIVE"
=============================================================================
