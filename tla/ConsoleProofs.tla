---------------------------- MODULE ConsoleProofs ----------------------------
(***************************************************************************)
(* What the publishing pages may rely on, for any number of requests under *)
(* way, publications, rules and other people at work.                      *)
(***************************************************************************)
EXTENDS Console, TLAPS

----------------------------------------------------------------------------
\* Shapes.  A record is described by its fields, whatever their values are.

IsCall(q) ==
  q = [op |-> q.op, subject |-> q.subject, input |-> q.input,
       state |-> q.state, answer |-> q.answer, seen |-> q.seen]

IsPublication(x) ==
  /\ x = [revision |-> x.revision, rules |-> x.rules, status |-> x.status]
  /\ x.status \in {"VACANT", "ACTIVE", "REVOKED"}

IsList(x) ==
  /\ x = [filter |-> x.filter, page |-> x.page, shown |-> x.shown,
          asked |-> x.asked, error |-> x.error]
  /\ x.error \in BOOLEAN

IsDetail(x) ==
  /\ x = [opened |-> x.opened, shown |-> x.shown, asked |-> x.asked, error |-> x.error,
          confirming |-> x.confirming, revoking |-> x.revoking, reported |-> x.reported]
  /\ {x.error, x.confirming, x.revoking} \subseteq BOOLEAN

IsWizard(x) ==
  /\ x = [revision |-> x.revision, loaded |-> x.loaded, step |-> x.step,
          preview |-> x.preview, loading |-> x.loading, error |-> x.error,
          publishing |-> x.publishing, published |-> x.published, latest |-> x.latest]
  /\ {x.preview.given, x.loading, x.publishing} \subseteq BOOLEAN

CallsShaped ==
  /\ call = [c \in Call |-> call[c]]
  /\ \A c \in Call : call[c] # Null => IsCall(call[c])

RegistryShaped ==
  /\ registry = [p \in PubId |-> registry[p]]
  /\ \A p \in PubId : IsPublication(registry[p])

IsRow(x) == x = [of |-> x.of, rule |-> x.rule] /\ x.of \in Revision \cup {Null}

RowsShaped ==
  /\ row = [i \in Row |-> row[i]]
  /\ \A i \in Row : IsRow(row[i])

DeskInv == CallsShaped /\ RegistryShaped /\ RowsShaped

----------------------------------------------------------------------------
\* The publications only ever come and end.

Gone(p) == registry[p].status = "REVOKED"

Made(p) == registry[p].status # "VACANT"

RegistryGrows ==
  \A p \in PubId :
    /\ Gone(p) => Gone(p)'
    /\ Made(p) => /\ Made(p)'
                  /\ registry'[p].revision = registry[p].revision
                  /\ registry'[p].rules = registry[p].rules

\* Requests of these kinds are not made, changed or answered by a step; they
\* may fail or be dropped.
Keeps(ops) ==
  \A c \in Call :
    call'[c] # Null /\ call'[c].op \in ops =>
      /\ call[c] # Null /\ call'[c].op = call[c].op
      /\ call'[c].subject = call[c].subject /\ call'[c].input = call[c].input
      /\ call'[c].state = "answered" =>
           call[c].state = "answered" /\ call'[c].answer = call[c].answer

\* A rule stays a rule of its revision until it is deleted.
RowsStay ==
  \A i \in Row :
    \/ row'[i] = row[i]
    \/ row[i] = Unused
    \/ Stored(i) /\ row'[i] = Deleted
    \/ Stored(i) /\ Stored(i)' /\ row'[i].of = row[i].of

\* A step lets no handler pass its check: what it has seen, and what it goes on
\* to write, stays as it is.
RuleOps == {"update", "create", "remove"}

SeenRests(c) ==
  call'[c] # Null /\ call'[c].op \in RuleOps \cup {"revoke"} /\ call'[c].seen # Null =>
    /\ call[c] # Null /\ call'[c].op = call[c].op /\ call'[c].seen = call[c].seen
    /\ call'[c].subject = call[c].subject /\ call'[c].input = call[c].input

AllSeenRests == \A c \in Call : SeenRests(c)

HistoryOps == {"history", "publication", "revoke"}
WizardOps == {"preview", "publish"}

----------------------------------------------------------------------------
\* The history page

\* A list of publications is of the page and filter chosen by now, and lists
\* nothing as ACTIVE that was reported as revoked.
ListFits(answer) ==
  /\ answer.page = list.page
  /\ \A item \in answer.items :
       /\ list.filter.key \in {Null, item.key}
       /\ list.filter.status \in {Null, item.status}
       /\ item.id \in detail.reported => item.status # "ACTIVE"

\* There is one request for a list at a time, the one the page waits for.
ListCall(c) ==
  call[c] # Null /\ call[c].op = "history" =>
    /\ HistoryOpen /\ list.asked = c
    /\ call[c].subject = list.filter /\ call[c].input = list.page
    /\ call[c].state = "answered" => ListFits(call[c].answer)

ListCalls == \A c \in Call : ListCall(c)

\* What is read for the drawer is of the publication it was opened for; what is
\* read after a revoke has ended.
DrawerCall(c) ==
  /\ call[c] # Null /\ call[c].op = "publication" =>
       /\ HistoryOpen /\ call[c].subject \in PubId
       /\ \/ /\ call[c].input = "opened"
             /\ detail.asked = c /\ detail.opened = call[c].subject
          \/ /\ call[c].input = "revoked"
             /\ Gone(call[c].subject)
       /\ call[c].state = "answered" =>
            /\ call[c].answer.id = call[c].subject
            /\ call[c].input = "revoked" => call[c].answer.status # "ACTIVE"
  /\ call[c] # Null /\ call[c].op = "revoke" =>
       /\ HistoryOpen /\ call[c].subject \in PubId
       /\ call[c].subject = call[c].input
       /\ call[c].state = "answered" /\ call[c].answer = "done" => Gone(call[c].subject)

DrawerCalls == \A c \in Call : DrawerCall(c)

\* Another publication than the one the drawer was opened for is never shown
\* there as ACTIVE, so the dialog is about the one opened.
DrawerInv ==
  /\ IsDetail(detail)
  /\ detail.opened \in PubId \cup {Null}
  /\ detail.opened # Null => HistoryOpen
  /\ detail.shown # Null =>
       \/ detail.opened # Null /\ detail.shown.id = detail.opened
       \/ detail.shown.status # "ACTIVE"
  /\ detail.confirming =>
       detail.opened # Null /\ detail.asked = Null /\ detail.shown.id = detail.opened
  /\ \A p \in detail.reported : p \in PubId /\ Gone(p)

HistoryPageInv ==
  /\ IsList(list)
  /\ Settled => ListFits(list.shown)
  /\ ListCalls
  /\ DrawerCalls
  /\ DrawerInv

----------------------------------------------------------------------------
\* The wizard

\* A preview without conflicts: none of the publications that were ACTIVE when
\* it was made competes with the rules it was made of.
PreviewFits(r, preview) ==
  preview.conflicts = {} =>
    \A p \in preview.active :
      /\ p \in PubId /\ Made(p)
      /\ KeyOf[registry[p].revision] = KeyOf[r]
           => ~RuleSetsConflict(preview.rules, registry[p].rules)

WizardCallsInv ==
  \A c \in Call :
    /\ call[c] # Null /\ call[c].op = "preview" =>
         /\ WizardOpen /\ call[c].subject = wizard.revision
         /\ call[c].state = "answered" => PreviewFits(wizard.revision, call[c].answer)
    /\ call[c] # Null /\ call[c].op = "publish" =>
         call[c].input.conflicts = {} /\ PreviewFits(call[c].subject, call[c].input)

WizardInv ==
  /\ IsWizard(wizard)
  /\ wizard.preview.given => PreviewFits(wizard.revision, wizard.preview)
  /\ WizardCallsInv

\* What a handler that has passed its check may still rely on: the publication
\* was made; the rule was of the revision, which was not retired, and is no
\* other's since.
CheckedCall(c) ==
  call[c] # Null /\ call[c].seen # Null =>
    /\ call[c].op = "revoke" => Made(call[c].subject)
    /\ call[c].op \in RuleOps => call[c].seen # "RETIRED" /\ call[c].subject \in Revision
    /\ \A i \in Row :
         \/ call[c].op = "update" /\ i = call[c].input.id
         \/ call[c].op = "remove" /\ i = call[c].input
         => IsRuleOf(i, call[c].subject) \/ row[i] = Deleted

CheckedInv == \A c \in Call : CheckedCall(c)

ConsoleInv == DeskInv /\ CheckedInv /\ HistoryPageInv /\ WizardInv

LEMMA InitConsoleInv == ConsoleInit => ConsoleInv
<1> SUFFICES ASSUME ConsoleInit PROVE ConsoleInv
  OBVIOUS
<1>1. DeskInv
  <2>1. \A i \in Row : IsRow(InitialRow[i])
    BY DeskAssumption DEF IsRow, Unused
  <2>2. RowsShaped
    BY <2>1, DeskAssumption DEF ConsoleInit, DeskInit, RowsShaped
  <2>3. CallsShaped
    BY DEF ConsoleInit, DeskInit, CallsShaped
  <2>4. RegistryShaped
    BY DEF ConsoleInit, DeskInit, Init, RegistryShaped, Vacant, IsPublication
  <2> QED BY <2>2, <2>3, <2>4 DEF DeskInv
<1>2. HistoryPageInv
  <2>1. IsList(list) /\ ~HistoryOpen
    BY DEF ConsoleInit, HistoryInit, OpenedList, IsList, HistoryOpen
  <2>2. DrawerInv
    BY DEF ConsoleInit, HistoryInit, DrawerInv, NoDetail, IsDetail
  <2>3. ListCalls /\ DrawerCalls
    BY DEF ConsoleInit, DeskInit, ListCalls, ListCall, DrawerCalls, DrawerCall
  <2> QED BY <2>1, <2>2, <2>3 DEF HistoryPageInv, Settled
<1>3. WizardInv
  <2>1. IsWizard(wizard) /\ ~wizard.preview.given
    BY DEF ConsoleInit, WizardInit, NoWizard, OpenedWizard, NoPreview, IsWizard
  <2>2. WizardCallsInv
    BY DEF ConsoleInit, DeskInit, WizardCallsInv
  <2> QED BY <2>1, <2>2 DEF WizardInv
<1>4. CheckedInv
  BY DEF ConsoleInit, DeskInit, CheckedInv, CheckedCall
<1> QED BY <1>1, <1>2, <1>3, <1>4 DEF ConsoleInv

----------------------------------------------------------------------------
\* What a step of one page, or of the API, leaves alone

LEMMA HistoryStays ==
  ASSUME HistoryPageInv, RegistryGrows, Keeps(HistoryOps), UNCHANGED <<list, detail>>
  PROVE  HistoryPageInv'
<1>1. ListCalls'
  BY DEF HistoryPageInv, ListCalls, ListCall, Keeps, HistoryOps, ListFits, HistoryOpen
<1>2. DrawerCalls'
  BY DEF HistoryPageInv, DrawerCalls, DrawerCall, Keeps, HistoryOps, RegistryGrows, HistoryOpen
<1>3. DrawerInv'
  BY DEF HistoryPageInv, DrawerInv, RegistryGrows, HistoryOpen
<1>4. Settled' => ListFits(list.shown)'
  BY DEF HistoryPageInv, Settled, ListFits, HistoryOpen
<1> QED BY <1>1, <1>2, <1>3, <1>4 DEF HistoryPageInv

LEMMA CheckedStays ==
  ASSUME HistoryPageInv, CheckedInv, RegistryGrows, RowsStay, AllSeenRests
  PROVE  CheckedInv'
<1> SUFFICES ASSUME NEW c \in Call, call'[c] # Null, call'[c].seen # Null,
                    call'[c].op \in RuleOps \cup {"revoke"}
             PROVE  CheckedCall(c)'
  BY DEF CheckedInv, CheckedCall, RuleOps
<1>1. /\ CheckedCall(c) /\ call[c] # Null /\ call'[c].op = call[c].op
      /\ call'[c].seen = call[c].seen /\ call'[c].subject = call[c].subject
      /\ call'[c].input = call[c].input
  BY DEF AllSeenRests, SeenRests, CheckedInv
<1>2. call[c].op = "revoke" => registry'[call[c].subject].status # "VACANT"
  BY <1>1 DEF CheckedCall, RegistryGrows, Made, HistoryPageInv, DrawerCalls, DrawerCall
<1>3. ASSUME NEW i \in Row, IsRuleOf(i, call[c].subject) \/ row[i] = Deleted
      PROVE  (IsRuleOf(i, call[c].subject) \/ row[i] = Deleted)'
  <2>1. row[i] # Unused
    BY <1>3, DeskAssumption DEF IsRuleOf, Stored, Deleted, Unused
  <2>2. CASE row'[i] = row[i] \/ row'[i] = Deleted
    BY <1>1, <1>3, <2>2 DEF IsRuleOf, Stored
  <2>3. CASE Stored(i) /\ Stored(i)' /\ row'[i].of = row[i].of
    BY <1>1, <1>3, <2>3 DEF IsRuleOf, Stored, Deleted
  <2> QED BY <2>1, <2>2, <2>3 DEF RowsStay
<1> QED BY <1>1, <1>2, <1>3 DEF CheckedCall, Made

LEMMA PreviewStays ==
  ASSUME RegistryGrows, NEW r, NEW preview, PreviewFits(r, preview)
  PROVE  PreviewFits(r, preview)'
  BY DEF PreviewFits, RegistryGrows

LEMMA WizardStays ==
  ASSUME WizardInv, RegistryGrows, Keeps(WizardOps), UNCHANGED wizard
  PROVE  WizardInv'
<1>1. WizardCallsInv'
  BY PreviewStays DEF WizardInv, WizardCallsInv, Keeps, WizardOps, WizardOpen
<1> QED BY <1>1, PreviewStays DEF WizardInv

----------------------------------------------------------------------------
\* The elementary changes to requests and to the registry

\* One request comes, goes or is answered.
OneCallMoves(c) == SeenRests(c) /\ \A d \in Call \ {c} : call'[d] = call[d]

LEMMA Sending ==
  ASSUME CallsShaped, NEW c \in Call, NEW op, NEW subject, NEW input,
         call' = [call EXCEPT ![c] = Request(op, subject, input)]
  PROVE  /\ CallsShaped' /\ OneCallMoves(c)
         /\ call'[c].op = op /\ call'[c].subject = subject /\ call'[c].input = input
         /\ call'[c].state = "sent"
  BY DEF CallsShaped, IsCall, Request, OneCallMoves, SeenRests

LEMMA Answering ==
  ASSUME CallsShaped, NEW c \in Call, call[c] # Null, NEW a, Answer(c, a)
  PROVE  /\ CallsShaped' /\ OneCallMoves(c)
         /\ call'[c] # Null =>
              /\ call'[c].op = call[c].op /\ call'[c].subject = call[c].subject
              /\ call'[c].input = call[c].input
              /\ call'[c].state = "answered" /\ call'[c].answer = a
<1> DEFINE q == [call[c] EXCEPT !.state = "answered", !.answer = a]
<1>1. /\ q.op = call[c].op /\ q.subject = call[c].subject /\ q.input = call[c].input
      /\ q.state = "answered" /\ q.answer = a /\ q.seen = call[c].seen
  BY DEF CallsShaped, IsCall
<1>2. IsCall(q)
  <2> DEFINE r == [call[c] EXCEPT !.state = "answered"]
  <2>1. r = [op |-> call[c].op, subject |-> call[c].subject, input |-> call[c].input,
             state |-> "answered", answer |-> call[c].answer,
             seen |-> call[c].seen]
    BY Z3 DEF CallsShaped, IsCall
  <2>2. q = [r EXCEPT !.answer = a]
    OBVIOUS
  <2> HIDE DEF r
  <2>3. [r EXCEPT !.answer = a] =
          [op |-> call[c].op, subject |-> call[c].subject, input |-> call[c].input,
           state |-> "answered", answer |-> a,
           seen |-> call[c].seen]
    BY <2>1, Z3
  <2> HIDE DEF q
  <2> QED BY <1>1, <2>2, <2>3 DEF IsCall
<1>3. call' = [call EXCEPT ![c] = IF call[c].state = "left" THEN Null ELSE q]
  BY DEF Answer
<1> HIDE DEF q
<1> QED BY <1>1, <1>2, <1>3 DEF CallsShaped, OneCallMoves, SeenRests

LEMMA Forgetting ==
  ASSUME CallsShaped, NEW c \in Call, Forget(c)
  PROVE  CallsShaped' /\ OneCallMoves(c) /\ call'[c] = Null
  BY DEF CallsShaped, Forget, OneCallMoves, SeenRests

LEMMA Leaving ==
  ASSUME CallsShaped, NEW c \in Call, call[c] # Null, LeaveToApi(c)
  PROVE  /\ CallsShaped' /\ OneCallMoves(c)
         /\ call'[c] # Null =>
              /\ call'[c].op = call[c].op /\ call'[c].subject = call[c].subject
              /\ call'[c].input = call[c].input /\ call'[c].state = "left"
  BY DEF CallsShaped, IsCall, LeaveToApi, Leave, OneCallMoves, SeenRests

\* A step that changes one request at most, and only one of another kind.
LEMMA OneCallKeeps ==
  ASSUME NEW c \in Call, OneCallMoves(c), NEW ops,
         call'[c] # Null => call'[c].op \notin ops
  PROVE  Keeps(ops)
  BY DEF Keeps, OneCallMoves

LEMMA OneCallSeen == ASSUME NEW c \in Call, OneCallMoves(c) PROVE AllSeenRests
  BY DEF AllSeenRests, SeenRests, OneCallMoves

LEMMA CallsStayKeeps == ASSUME NEW ops, UNCHANGED call PROVE Keeps(ops) /\ AllSeenRests
  BY DEF Keeps, AllSeenRests, SeenRests

LEMMA NothingGrows == ASSUME UNCHANGED registry PROVE RegistryGrows
  BY DEF RegistryGrows, Gone, Made

LEMMA PublishGrows ==
  ASSUME RegistryShaped, NEW p \in PubId, NEW r, NEW newRules, Publish(p, r, newRules)
  PROVE  RegistryShaped' /\ RegistryGrows
  BY DEF RegistryShaped, RegistryGrows, Gone, Made, Publish, Vacant, IsPublication

LEMMA RevokeGrows ==
  ASSUME RegistryShaped, NEW p \in PubId, Revoke(p)
  PROVE  RegistryShaped' /\ RegistryGrows /\ Gone(p)'
  BY DEF RegistryShaped, RegistryGrows, Gone, Made, Revoke, Active, IsPublication

----------------------------------------------------------------------------
\* Steps of the pages that leave the API alone and one another's requests

Tame(ops) == DeskInv' /\ RegistryGrows /\ AllSeenRests /\ Keeps(ops)

LEMMA QuietStep ==
  ASSUME DeskInv, UNCHANGED deskVars, NEW c \in Call, CallsShaped', OneCallMoves(c), NEW ops,
         call'[c] # Null => call'[c].op \notin ops
  PROVE  Tame(ops)
  BY OneCallKeeps, OneCallSeen, NothingGrows
     DEF Tame, DeskInv, RegistryShaped, RowsShaped, deskVars

LEMMA SilentStep ==
  ASSUME DeskInv, UNCHANGED <<deskVars, call>>, NEW ops
  PROVE  Tame(ops)
  BY CallsStayKeeps, NothingGrows DEF Tame, DeskInv, CallsShaped, RegistryShaped, RowsShaped, deskVars

TabOps == {"rules", "update", "create", "remove"}

LEMMA TabIsTame ==
  ASSUME DeskInv, TabStep
  PROVE  Tame(HistoryOps \cup WizardOps)
<1> DEFINE ops == HistoryOps \cup WizardOps
<1> USE DEF DeskInv
<1>1. TabOps \cap ops = {}
  BY DEF TabOps, HistoryOps, WizardOps
<1> HIDE DEF ops
<1>2. ASSUME NEW c \in Call, NEW op \in TabOps, NEW subject, NEW input, UNCHANGED deskVars,
             call' = [call EXCEPT ![c] = Request(op, subject, input)]
      PROVE  Tame(ops)
  <2>1. /\ CallsShaped' /\ OneCallMoves(c) /\ call'[c].op = op
    BY <1>2, Sending
  <2>2. op \notin ops
    BY <1>1, <1>2
  <2> QED BY <1>2, <2>1, <2>2, QuietStep
<1>3. ASSUME NEW c \in Call, UNCHANGED deskVars, Forget(c)
      PROVE  Tame(ops)
  BY <1>3, Forgetting, QuietStep
<1>4. ASSUME NEW c \in Call, UNCHANGED deskVars, call[c] # Null, call[c].op \in TabOps,
             LeaveToApi(c)
      PROVE  Tame(ops)
  BY <1>1, <1>4, Leaving, QuietStep
<1>5. ASSUME NEW r, NEW c \in Call, OpenTab(r, c) \/ SelectRevision(r, c) PROVE Tame(ops)
  BY <1>2, <1>5 DEF OpenTab, SelectRevision, Send, TabOps
<1>6. ASSUME NEW c \in Call, RulesArrive(c) \/ RulesFail(c) PROVE Tame(ops)
  BY <1>3, <1>6 DEF RulesArrive, RulesFail
<1>7. ASSUME NEW c \in Call, SubmitForm(c) PROVE Tame(ops)
  BY <1>2, <1>7 DEF SubmitForm, Send, TabOps
<1>8. ASSUME NEW c \in Call, FormSaved(c) PROVE Tame(ops)
  BY <1>2, <1>3, <1>8 DEF FormSaved, Reload, TabOps
<1>9. ASSUME NEW c \in Call, FormFailed(c) PROVE Tame(ops)
  BY <1>4, <1>9 DEF FormFailed, Failed, Has, TabOps
<1>10. ASSUME NEW c \in Call, DeleteRule(c) PROVE Tame(ops)
  BY <1>2, <1>10 DEF DeleteRule, Send, TabOps
<1>11. ASSUME NEW c \in Call, RuleDeleted(c) PROVE Tame(ops)
  BY <1>2, <1>3, <1>11 DEF RuleDeleted, Reload, TabOps
<1>12. ASSUME NEW c \in Call, DeletionFailed(c) PROVE Tame(ops)
  BY <1>4, <1>12 DEF DeletionFailed, Failed, Has, TabOps
<1>13. ASSUME UNCHANGED <<call, deskVars>> PROVE Tame(ops)
  BY <1>13, SilentStep
<1> QED
  BY <1>5, <1>6, <1>7, <1>8, <1>9, <1>10, <1>11, <1>12, <1>13
     DEF TabStep, UseTab, TabHears, ChooseProduct, ChooseField, OpenForm, AskToDelete,
         CloseForm, CloseDialog, ops

LEMMA ClosingPage ==
  ASSUME DeskInv, UNCHANGED deskVars, NEW sent, sent \subseteq Call, NEW ops,
         \A c \in sent : call[c] # Null /\ call[c].op \notin ops,
         ClosePage(sent)
  PROVE  Tame(ops)
<1>1. ASSUME NEW c \in Call, call'[c] # call[c], call'[c] # Null
      PROVE  /\ IsCall(call'[c]) /\ call'[c].op \notin ops
             /\ SeenRests(c)
  <2>1. c \in sent /\ call[c] # Null /\ IsCall(call[c]) /\ call[c].op \notin ops
    BY <1>1 DEF ClosePage, DeskInv, CallsShaped
  <2>2. call'[c] = [call[c] EXCEPT !.state = "left"]
    BY <1>1 DEF ClosePage, Leave
  <2>3. call'[c] = [op |-> call[c].op, subject |-> call[c].subject, input |-> call[c].input,
                    state |-> "left", answer |-> call[c].answer,
                    seen |-> call[c].seen]
    BY <2>1, <2>2, Z3 DEF IsCall
  <2> QED BY <2>1, <2>3 DEF IsCall, SeenRests
<1>2. CallsShaped'
  BY <1>1 DEF ClosePage, DeskInv, CallsShaped
<1>3. Keeps(ops) /\ AllSeenRests
  BY <1>1 DEF Keeps, AllSeenRests, SeenRests
<1> QED BY <1>2, <1>3, NothingGrows DEF Tame, DeskInv, RegistryShaped, RowsShaped, deskVars

DocumentOps == {"revisions", "move"}

LEMMA DocumentIsTame ==
  ASSUME DeskInv, DocumentStep
  PROVE  Tame(HistoryOps \cup WizardOps)
<1> DEFINE ops == HistoryOps \cup WizardOps
<1> USE DEF DeskInv
<1>1. DocumentOps \cap ops = {}
  BY DEF DocumentOps, HistoryOps, WizardOps
<1> HIDE DEF ops
<1>2. ASSUME NEW c \in Call, NEW op \in DocumentOps, NEW subject, NEW input, UNCHANGED deskVars,
             call' = [call EXCEPT ![c] = Request(op, subject, input)]
      PROVE  Tame(ops)
  <2>1. /\ CallsShaped' /\ OneCallMoves(c) /\ call'[c].op = op
    BY <1>2, Sending
  <2>2. op \notin ops
    BY <1>1, <1>2
  <2> QED BY <1>2, <2>1, <2>2, QuietStep
<1>3. ASSUME NEW c \in Call, UNCHANGED deskVars, Forget(c)
      PROVE  Tame(ops)
  BY <1>3, Forgetting, QuietStep
<1>4. CASE CloseDocument
  <2>1. \A c \in DocumentCalls : call[c] # Null /\ call[c].op \in DocumentOps
    BY DEF DocumentCalls, IsFor, DocumentOps
  <2>2. DocumentCalls \subseteq Call /\ \A c \in DocumentCalls : call[c].op \notin ops
    BY <1>1, <2>1 DEF DocumentCalls
  <2>3. UNCHANGED deskVars /\ ClosePage(DocumentCalls)
    BY <1>4 DEF CloseDocument
  <2>4. Tame(ops)
    BY <2>1, <2>2, <2>3, ClosingPage
  <2> QED BY <2>4 DEF ops
<1>5. ASSUME NEW c \in Call, OpenDocument(c) PROVE Tame(ops)
  BY <1>2, <1>5 DEF OpenDocument, Send, DocumentOps
<1>6. ASSUME NEW c \in Call, DocumentArrives(c) \/ DocumentFails(c) PROVE Tame(ops)
  BY <1>3, <1>6 DEF DocumentArrives, DocumentFails
<1>7. ASSUME NEW c \in Call, NEW r, NEW target, StartMove(r, target, c) PROVE Tame(ops)
  BY <1>2, <1>7 DEF StartMove, Send, DocumentOps
<1>8. ASSUME NEW c \in Call, MoveDone(c) PROVE Tame(ops)
  BY <1>2, <1>8 DEF MoveDone, DocumentOps
<1>9. ASSUME NEW c \in Call, MoveFailed(c) PROVE Tame(ops)
  <2>1. call[c] # Null /\ call[c].op \in DocumentOps
    BY <1>9 DEF MoveFailed, Answered, Failed, Has, DocumentOps
  <2>2. CASE LeaveToApi(c)
    BY <1>1, <1>9, <2>1, <2>2, Leaving, QuietStep DEF MoveFailed
  <2> QED BY <1>3, <1>9, <2>2 DEF MoveFailed
<1> QED
  BY <1>4, <1>5, <1>6, <1>7, <1>8, <1>9 DEF DocumentStep, DocumentHears, ops

----------------------------------------------------------------------------
\* The wizard's own steps

LEMMA AskingPreview ==
  ASSUME CallsShaped, NEW c \in Call, AskPreview(c)
  PROVE  /\ CallsShaped'
         /\ \A d \in Call :
              call'[d] # Null =>
                \/ /\ call'[d].op = "preview" /\ call'[d].subject = wizard.revision
                   /\ call'[d].state = "sent"
                \/ /\ call[d] # Null /\ call'[d].op = call[d].op
                   /\ call'[d].subject = call[d].subject
                   /\ call'[d].state = call[d].state /\ call'[d].answer = call[d].answer
                   /\ call[d].op # "preview" => call'[d].input = call[d].input
                   /\ call'[d].seen = call[d].seen
<1>1. ASSUME NEW d \in Call, call'[d] # Null
      PROVE  /\ IsCall(call'[d])
             /\ \/ /\ call'[d].op = "preview" /\ call'[d].subject = wizard.revision
                   /\ call'[d].state = "sent"
                \/ /\ call[d] # Null /\ call'[d].op = call[d].op
                   /\ call'[d].subject = call[d].subject
                   /\ call'[d].state = call[d].state /\ call'[d].answer = call[d].answer
                   /\ call[d].op # "preview" => call'[d].input = call[d].input
                   /\ call'[d].seen = call[d].seen
  <2>1. CASE d = c
    BY <1>1, <2>1 DEF AskPreview, Request, IsCall
  <2>2. CASE d # c /\ call[d] # Null /\ call[d].op = "preview"
    <3>1. call'[d] = [call[d] EXCEPT !.input = "earlier"] /\ IsCall(call[d])
      BY <2>2 DEF AskPreview, CallsShaped
    <3>2. call'[d] = [op |-> call[d].op, subject |-> call[d].subject, input |-> "earlier",
                      state |-> call[d].state, answer |-> call[d].answer,
                      seen |-> call[d].seen]
      BY <3>1, Z3 DEF IsCall
    <3> QED BY <2>2, <3>2 DEF IsCall
  <2>3. CASE d # c /\ ~(call[d] # Null /\ call[d].op = "preview")
    BY <1>1, <2>3 DEF AskPreview, CallsShaped
  <2> QED BY <2>1, <2>2, <2>3
<1>2. call' = [d \in Call |-> call'[d]]
  BY DEF AskPreview
<1> QED BY <1>1, <1>2 DEF CallsShaped

\* The wizard stays with its revision and its preview.
WizardLike(w, x) == IsWizard(x) /\ x.revision = w.revision /\ x.preview = w.preview

WizardRests == WizardLike(wizard, wizard')

LEMMA FieldOfWizard ==
  ASSUME NEW w, IsWizard(w), NEW v
  PROVE  /\ WizardLike(w, [w EXCEPT !.loaded = v])
         /\ WizardLike(w, [w EXCEPT !.step = v])
         /\ WizardLike(w, [w EXCEPT !.error = v])
         /\ WizardLike(w, [w EXCEPT !.published = v])
         /\ WizardLike(w, [w EXCEPT !.latest = v])
<1>1. WizardLike(w, [w EXCEPT !.loaded = v])
  <2>1. [w EXCEPT !.loaded = v] =
          [revision |-> w.revision, loaded |-> v, step |-> w.step, preview |-> w.preview,
             loading |-> w.loading, error |-> w.error, publishing |-> w.publishing, published |-> w.published, latest |-> w.latest]
    BY Z3 DEF IsWizard
  <2> QED BY <2>1 DEF IsWizard, WizardLike
<1>2. WizardLike(w, [w EXCEPT !.step = v])
  <2>1. [w EXCEPT !.step = v] =
          [revision |-> w.revision, loaded |-> w.loaded, step |-> v, preview |-> w.preview,
             loading |-> w.loading, error |-> w.error, publishing |-> w.publishing, published |-> w.published, latest |-> w.latest]
    BY Z3 DEF IsWizard
  <2> QED BY <2>1 DEF IsWizard, WizardLike
<1>3. WizardLike(w, [w EXCEPT !.error = v])
  <2>1. [w EXCEPT !.error = v] =
          [revision |-> w.revision, loaded |-> w.loaded, step |-> w.step, preview |-> w.preview,
             loading |-> w.loading, error |-> v, publishing |-> w.publishing, published |-> w.published, latest |-> w.latest]
    BY Z3 DEF IsWizard
  <2> QED BY <2>1 DEF IsWizard, WizardLike
<1>4. WizardLike(w, [w EXCEPT !.published = v])
  <2>1. [w EXCEPT !.published = v] =
          [revision |-> w.revision, loaded |-> w.loaded, step |-> w.step, preview |-> w.preview,
             loading |-> w.loading, error |-> w.error, publishing |-> w.publishing, published |-> v, latest |-> w.latest]
    BY Z3 DEF IsWizard
  <2> QED BY <2>1 DEF IsWizard, WizardLike
<1>5. WizardLike(w, [w EXCEPT !.latest = v])
  <2>1. [w EXCEPT !.latest = v] =
          [revision |-> w.revision, loaded |-> w.loaded, step |-> w.step, preview |-> w.preview,
             loading |-> w.loading, error |-> w.error, publishing |-> w.publishing, published |-> w.published, latest |-> v]
    BY Z3 DEF IsWizard
  <2> QED BY <2>1 DEF IsWizard, WizardLike
<1> QED BY <1>1, <1>2, <1>3, <1>4, <1>5

LEMMA FlagOfWizard ==
  ASSUME NEW w, IsWizard(w), NEW b \in BOOLEAN
  PROVE  /\ WizardLike(w, [w EXCEPT !.loading = b])
         /\ WizardLike(w, [w EXCEPT !.publishing = b])
<1>1. WizardLike(w, [w EXCEPT !.loading = b])
  <2>1. [w EXCEPT !.loading = b] =
          [revision |-> w.revision, loaded |-> w.loaded, step |-> w.step, preview |-> w.preview,
             loading |-> b, error |-> w.error, publishing |-> w.publishing, published |-> w.published, latest |-> w.latest]
    BY Z3 DEF IsWizard
  <2> QED BY <2>1 DEF IsWizard, WizardLike
<1>2. WizardLike(w, [w EXCEPT !.publishing = b])
  <2>1. [w EXCEPT !.publishing = b] =
          [revision |-> w.revision, loaded |-> w.loaded, step |-> w.step, preview |-> w.preview,
             loading |-> w.loading, error |-> w.error, publishing |-> b, published |-> w.published, latest |-> w.latest]
    BY Z3 DEF IsWizard
  <2> QED BY <2>1 DEF IsWizard, WizardLike
<1> QED BY <1>1, <1>2

LEMMA WizardLikeThrough ==
  ASSUME NEW w, NEW x, NEW y, WizardLike(w, x), WizardLike(x, y)
  PROVE  WizardLike(w, y)
  BY DEF WizardLike

LEMMA AskingRests ==
  ASSUME IsWizard(wizard), NEW c \in Call, AskPreview(c)
  PROVE  WizardRests
<1> DEFINE w1 == [wizard EXCEPT !.step = Impact]
           w2 == [w1 EXCEPT !.loading = TRUE]
           w3 == [w2 EXCEPT !.error = FALSE]
<1>1. wizard' = [w3 EXCEPT !.latest = FALSE]
  BY DEF AskPreview
<1>2. WizardLike(wizard, w1)
  BY FieldOfWizard
<1> HIDE DEF w1
<1>3. WizardLike(w1, w2)
  BY <1>2, FlagOfWizard DEF WizardLike
<1> HIDE DEF w2
<1>4. WizardLike(w2, w3)
  BY <1>3, FieldOfWizard DEF WizardLike
<1> HIDE DEF w3
<1>5. WizardLike(w3, wizard')
  BY <1>1, <1>4, FieldOfWizard DEF WizardLike
<1> QED
  BY <1>2, <1>3, <1>4, <1>5, WizardLikeThrough DEF WizardRests

LEMMA FieldsRest ==
  ASSUME IsWizard(wizard), NEW v, NEW b \in BOOLEAN,
         \/ wizard' = wizard
         \/ wizard' = [wizard EXCEPT !.loaded = v]
         \/ wizard' = [wizard EXCEPT !.step = v]
         \/ wizard' = [wizard EXCEPT !.publishing = b]
         \/ wizard' = [wizard EXCEPT !.publishing = b, !.published = v]
         \/ wizard' = [wizard EXCEPT !.loading = b, !.error = v]
  PROVE  WizardRests
<1>1. CASE wizard' = wizard
  BY <1>1 DEF WizardRests, WizardLike
<1>2. CASE \/ wizard' = [wizard EXCEPT !.loaded = v]
           \/ wizard' = [wizard EXCEPT !.step = v]
           \/ wizard' = [wizard EXCEPT !.publishing = b]
  <2>1. CASE wizard' = [wizard EXCEPT !.loaded = v]
    BY <2>1, FieldOfWizard DEF WizardRests
  <2>2. CASE wizard' = [wizard EXCEPT !.step = v]
    BY <2>2, FieldOfWizard DEF WizardRests
  <2>3. CASE wizard' = [wizard EXCEPT !.publishing = b]
    BY <2>3, FlagOfWizard DEF WizardRests
  <2> QED BY <1>2, <2>1, <2>2, <2>3
<1>3. CASE wizard' = [wizard EXCEPT !.publishing = b, !.published = v]
  <2> DEFINE w1 == [wizard EXCEPT !.publishing = b]
  <2>1. wizard' = [w1 EXCEPT !.published = v]
    BY <1>3
  <2>2. WizardLike(wizard, w1) /\ IsWizard(w1)
    BY FieldOfWizard, FlagOfWizard, Zenon DEF WizardLike
  <2> HIDE DEF w1
  <2> QED BY <2>1, <2>2, FieldOfWizard, FlagOfWizard, WizardLikeThrough, Zenon DEF WizardRests
<1>4. CASE wizard' = [wizard EXCEPT !.loading = b, !.error = v]
  <2> DEFINE w1 == [wizard EXCEPT !.loading = b]
  <2>1. wizard' = [w1 EXCEPT !.error = v]
    BY <1>4
  <2>2. WizardLike(wizard, w1) /\ IsWizard(w1)
    BY FieldOfWizard, FlagOfWizard, Zenon DEF WizardLike
  <2> HIDE DEF w1
  <2> QED BY <2>1, <2>2, FieldOfWizard, FlagOfWizard, WizardLikeThrough, Zenon DEF WizardRests
<1> QED BY <1>1, <1>2, <1>3, <1>4

\* Requests for previews, and to publish, are those there were, or new ones of
\* the wizard's.
WizardAsks ==
  \A d \in Call :
    /\ call'[d] # Null /\ call'[d].op = "preview" =>
         /\ WizardOpen
         /\ \/ call'[d].subject = wizard.revision /\ call'[d].state = "sent"
            \/ /\ call[d] # Null /\ call[d].op = "preview"
               /\ call'[d].subject = call[d].subject
               /\ call'[d].state = call[d].state /\ call'[d].answer = call[d].answer
    /\ call'[d] # Null /\ call'[d].op = "publish" =>
         \/ /\ call'[d].subject = wizard.revision /\ call'[d].input = wizard.preview
            /\ wizard.preview.given /\ wizard.preview.conflicts = {}
         \/ /\ call[d] # Null /\ call[d].op = "publish"
            /\ call'[d].subject = call[d].subject /\ call'[d].input = call[d].input

LEMMA RestingWizard ==
  ASSUME WizardInv, RegistryGrows, WizardRests, WizardAsks
  PROVE  WizardInv'
<1>1. WizardCallsInv'
  BY PreviewStays DEF WizardInv, WizardCallsInv, WizardRests, WizardLike, WizardAsks, WizardOpen
<1>2. wizard'.preview.given => PreviewFits(wizard.revision, wizard.preview)'
  BY PreviewStays DEF WizardInv, WizardRests, WizardLike
<1> QED BY <1>1, <1>2 DEF WizardInv, WizardRests, WizardLike

\* A request of another kind comes or goes, or one of the wizard's goes.
LEMMA OneCallAsks ==
  ASSUME WizardInv, NEW c \in Call, OneCallMoves(c),
         call'[c] # Null =>
           \/ call'[c].op \notin WizardOps
           \/ /\ call[c] # Null /\ call[c].op = "publish" /\ call'[c].op = "publish"
              /\ call'[c].subject = call[c].subject /\ call'[c].input = call[c].input
  PROVE  WizardAsks
<1> SUFFICES ASSUME NEW d \in Call
    PROVE  /\ call'[d] # Null /\ call'[d].op = "preview" =>
                /\ WizardOpen
                /\ call[d] # Null /\ call[d].op = "preview"
                /\ call'[d].subject = call[d].subject
                /\ call'[d].state = call[d].state /\ call'[d].answer = call[d].answer
           /\ call'[d] # Null /\ call'[d].op = "publish" =>
                /\ call[d] # Null /\ call[d].op = "publish"
                /\ call'[d].subject = call[d].subject /\ call'[d].input = call[d].input
  BY DEF WizardAsks
<1>1. CASE d = c
  BY <1>1 DEF WizardOps
<1>2. CASE d # c
  BY <1>2 DEF OneCallMoves, WizardInv, WizardCallsInv
<1> QED BY <1>1, <1>2

LEMMA WizardStepKeeps ==
  ASSUME DeskInv, WizardInv, WizardStep
  PROVE  Tame(HistoryOps) /\ WizardInv'
<1>1. CallsShaped /\ IsWizard(wizard)
  BY DEF DeskInv, WizardInv
<1>2. ASSUME NEW c \in Call, NEW r \in Revision, OpenWizard(r, c)
      PROVE  Tame(HistoryOps) /\ WizardInv'
  <2>1. /\ CallsShaped' /\ OneCallMoves(c) /\ UNCHANGED deskVars /\ ~WizardOpen
        /\ call'[c].op = "revisions"
    BY <1>1, <1>2, Sending DEF OpenWizard, Send
  <2>2. Tame(HistoryOps)
    BY <2>1, QuietStep DEF HistoryOps
  <2>3. IsWizard(wizard') /\ ~wizard'.preview.given
    BY <1>2 DEF OpenWizard, OpenedWizard, NoPreview, IsWizard
  <2>4. ASSUME NEW d \in Call, call'[d] # Null, call'[d].op \in WizardOps
        PROVE  call[d] # Null /\ call'[d] = call[d] /\ call'[d].op = "publish"
    BY <2>1, <2>4 DEF OneCallMoves, WizardInv, WizardCallsInv, WizardOps
  <2>5. WizardCallsInv'
    BY <2>1, <2>2, <2>4, PreviewStays DEF WizardInv, WizardCallsInv, WizardOps, Tame
  <2> QED BY <2>2, <2>3, <2>5 DEF WizardInv
<1>3. ASSUME LeaveWizard
      PROVE  Tame(HistoryOps) /\ WizardInv'
  <2>1. /\ WizardCalls \subseteq Call
        /\ \A c \in WizardCalls : call[c] # Null /\ call[c].op \notin HistoryOps
    BY DEF WizardCalls, IsFor, HistoryOps
  <2>2. UNCHANGED deskVars /\ ClosePage(WizardCalls)
    BY <1>3 DEF LeaveWizard
  <2>3. Tame(HistoryOps)
    BY <2>1, <2>2, ClosingPage
  <2>4. IsWizard(wizard') /\ ~wizard'.preview.given
    BY <1>3 DEF LeaveWizard, NoWizard, OpenedWizard, NoPreview, IsWizard
  <2>5. ASSUME NEW d \in Call, call'[d] # Null, call'[d].op \in WizardOps
        PROVE  /\ call[d] # Null /\ call'[d].op = "publish" /\ call[d].op = "publish"
               /\ call'[d].subject = call[d].subject /\ call'[d].input = call[d].input
    <3>1. CASE d \in WizardCalls
      <4>1. call[d] # Null /\ IsCall(call[d])
        BY <1>1, <2>1, <3>1 DEF CallsShaped
      <4>2. call[d].op \in Writes /\ call'[d] = [call[d] EXCEPT !.state = "left"]
        BY <2>2, <2>5, <3>1 DEF ClosePage, Leave
      <4>3. call'[d] = [op |-> call[d].op, subject |-> call[d].subject,
                        input |-> call[d].input, state |-> "left", answer |-> call[d].answer,
                        seen |-> call[d].seen]
        BY <4>1, <4>2, Z3 DEF IsCall
      <4> QED BY <2>5, <4>1, <4>2, <4>3 DEF Writes, WizardOps
    <3>2. CASE d \notin WizardCalls
      BY <2>2, <2>5, <3>2 DEF ClosePage, WizardCalls, IsFor, WizardOps
    <3> QED BY <3>1, <3>2
  <2>6. WizardCallsInv'
    BY <2>3, <2>5, PreviewStays DEF WizardInv, WizardCallsInv, WizardOps, Tame
  <2> QED BY <2>3, <2>4, <2>6 DEF WizardInv
<1>4. ASSUME NEW c \in Call, WizardOpen, AskPreview(c), UNCHANGED deskVars
      PROVE  Tame(HistoryOps) /\ WizardInv'
  <2>1. WizardRests /\ CallsShaped'
    BY <1>1, <1>4, AskingRests, AskingPreview
  <2>2. WizardAsks /\ Keeps(HistoryOps) /\ AllSeenRests
    BY <1>1, <1>4, AskingPreview
       DEF WizardAsks, Keeps, HistoryOps, AllSeenRests, SeenRests, RuleOps
  <2>3. Tame(HistoryOps)
    BY <1>4, <2>1, <2>2, NothingGrows DEF Tame, DeskInv, RegistryShaped, RowsShaped, deskVars
  <2> QED BY <2>1, <2>2, <2>3, RestingWizard DEF Tame
\* The remaining steps but one change no preview.
<1>5. ASSUME NEW c \in Call, UNCHANGED deskVars, CallsShaped', OneCallMoves(c),
             call'[c] # Null => call'[c].op \notin HistoryOps, WizardAsks, WizardRests
      PROVE  Tame(HistoryOps) /\ WizardInv'
  BY <1>5, QuietStep, RestingWizard DEF Tame
<1>6. ASSUME NEW c \in Call, UNCHANGED deskVars, Forget(c), WizardRests
      PROVE  Tame(HistoryOps) /\ WizardInv'
  BY <1>1, <1>5, <1>6, Forgetting, OneCallAsks
<1>7. ASSUME NEW c \in Call, WizardLoaded(c)
      PROVE  Tame(HistoryOps) /\ WizardInv'
  BY <1>1, <1>6, <1>7, FieldsRest DEF WizardLoaded
<1>8. ASSUME NEW c \in Call, WizardNotLoaded(c)
      PROVE  Tame(HistoryOps) /\ WizardInv'
  BY <1>1, <1>6, <1>8, FieldsRest DEF WizardNotLoaded
<1>9. ASSUME NEW step, NEW c \in Call, GoTo(step, c)
      PROVE  Tame(HistoryOps) /\ WizardInv'
  <2>1. CASE step = Impact
    BY <1>4, <1>9, <2>1 DEF GoTo, Usable
  <2>2. CASE step # Impact
    <3>1. UNCHANGED <<deskVars, call>> /\ WizardRests
      BY <1>1, <1>9, <2>2, FieldsRest DEF GoTo
    <3>2. Tame(HistoryOps)
      BY <3>1, SilentStep
    <3>3. WizardAsks
      BY <3>1 DEF WizardAsks, WizardInv, WizardCallsInv
    <3> QED BY <3>1, <3>2, <3>3, RestingWizard DEF Tame
  <2> QED BY <2>1, <2>2
<1>10. ASSUME NEW c \in Call, RetryPreview(c)
       PROVE  Tame(HistoryOps) /\ WizardInv'
  BY <1>4, <1>10 DEF RetryPreview, Usable
<1>11. ASSUME NEW c \in Call, PreviewArrives(c)
       PROVE  Tame(HistoryOps) /\ WizardInv'
  <2> DEFINE answer == call[c].answer
  <2>1. /\ UNCHANGED deskVars /\ Forget(c) /\ WizardOpen
        /\ call[c] # Null /\ call[c].op = "preview" /\ PreviewFits(wizard.revision, answer)
    BY <1>11 DEF PreviewArrives, Answered, Has, WizardInv, WizardCallsInv
  <2>2. /\ CallsShaped' /\ OneCallMoves(c) /\ call'[c] = Null
    BY <1>1, <2>1, Forgetting
  <2>3. Tame(HistoryOps)
    BY <2>1, <2>2, QuietStep
  <2>4. /\ IsWizard(wizard') /\ wizard'.revision = wizard.revision
        /\ wizard'.preview = [rules |-> answer.rules, conflicts |-> answer.conflicts,
                              active |-> answer.active, given |-> TRUE]
    <3> DEFINE shown == [rules |-> answer.rules, conflicts |-> answer.conflicts,
                         active |-> answer.active, given |-> TRUE]
               new == call[c].input = "latest"
    <3>1. wizard' = [wizard EXCEPT !.loading = FALSE, !.preview = shown, !.latest = new]
      BY <1>11 DEF PreviewArrives
    <3>2. shown.given = TRUE
      OBVIOUS
    <3> HIDE DEF shown, new
    <3> DEFINE w1 == [wizard EXCEPT !.loading = FALSE]
               w2 == [w1 EXCEPT !.preview = shown]
    <3>3. WizardLike(wizard, w1)
      BY <1>1, FlagOfWizard
    <3>4. wizard' = [w2 EXCEPT !.latest = new]
      BY <3>1
    <3> HIDE DEF w1
    <3>5. w2 = [revision |-> w1.revision, loaded |-> w1.loaded, step |-> w1.step,
                preview |-> shown, loading |-> w1.loading, error |-> w1.error,
                publishing |-> w1.publishing, published |-> w1.published,
                latest |-> w1.latest]
      BY <3>3, Z3 DEF IsWizard, WizardLike
    <3> HIDE DEF w2
    <3>6. IsWizard(w2) /\ w2.revision = w1.revision /\ w2.preview = shown
      BY <3>2, <3>3, <3>5 DEF IsWizard, WizardLike
    <3>7. WizardLike(w2, wizard')
      BY <3>4, <3>6, FieldOfWizard
    <3>8. IsWizard(wizard') /\ wizard'.revision = wizard.revision /\ wizard'.preview = shown
      BY <3>3, <3>6, <3>7 DEF WizardLike
    <3> QED BY <3>8 DEF shown
  <2>5. PreviewFits(wizard.revision, wizard.preview)'
    BY <2>1, <2>4 DEF PreviewFits, deskVars, Made
  <2>6. WizardCallsInv'
    BY <2>2, <2>3, <2>4, PreviewStays
       DEF WizardInv, WizardCallsInv, OneCallMoves, WizardOpen, Tame
  <2> QED BY <2>3, <2>4, <2>5, <2>6 DEF WizardInv
<1>12. ASSUME NEW c \in Call, PreviewFails(c)
       PROVE  Tame(HistoryOps) /\ WizardInv'
  BY <1>1, <1>6, <1>12, FieldsRest DEF PreviewFails
<1>13. ASSUME NEW c \in Call, Confirm(c)
       PROVE  Tame(HistoryOps) /\ WizardInv'
  <2>1. /\ CallsShaped' /\ OneCallMoves(c) /\ UNCHANGED deskVars
        /\ call'[c].op = "publish" /\ call'[c].subject = wizard.revision
        /\ call'[c].input = wizard.preview
    <3>1. /\ call' = [call EXCEPT ![c] = Request("publish", wizard.revision, wizard.preview)]
          /\ UNCHANGED deskVars
      BY <1>13 DEF Confirm, Send
    <3> DEFINE rev == wizard.revision  seen == wizard.preview
    <3>2. call' = [call EXCEPT ![c] = Request("publish", rev, seen)]
      BY <3>1
    <3> HIDE DEF rev, seen
    <3>3. /\ CallsShaped' /\ OneCallMoves(c)
          /\ call'[c].op = "publish" /\ call'[c].subject = rev /\ call'[c].input = seen
      BY <1>1, <3>2, Sending
    <3> QED BY <3>1, <3>3 DEF rev, seen
  <2>2. WizardRests
    BY <1>1, <1>13, FieldsRest DEF Confirm
  <2>3. wizard.preview.given /\ wizard.preview.conflicts = {}
    BY <1>13 DEF Confirm, MayConfirm
  <2>4. WizardAsks
    BY <2>1, <2>3 DEF WizardAsks, OneCallMoves, WizardInv, WizardCallsInv
  <2> QED BY <1>5, <2>1, <2>2, <2>4 DEF HistoryOps
<1>14. ASSUME NEW c \in Call, PublishAnswered(c)
       PROVE  Tame(HistoryOps) /\ WizardInv'
  BY <1>1, <1>6, <1>14, FieldsRest DEF PublishAnswered
<1>15. ASSUME NEW c \in Call, PublishFailed(c)
       PROVE  Tame(HistoryOps) /\ WizardInv'
  <2>1. call[c] # Null /\ call[c].op = "publish" /\ LeaveToApi(c) /\ UNCHANGED deskVars
    BY <1>15 DEF PublishFailed, Failed, Has
  <2>2. WizardRests
    BY <1>1, <1>15, FieldsRest DEF PublishFailed
  <2>3. /\ CallsShaped' /\ OneCallMoves(c)
        /\ call'[c] # Null => /\ call'[c].op = "publish" /\ call'[c].subject = call[c].subject
                              /\ call'[c].input = call[c].input
    BY <1>1, <2>1, Leaving
  <2>4. WizardAsks
    BY <2>1, <2>3, OneCallAsks
  <2> QED BY <1>5, <2>1, <2>2, <2>3, <2>4 DEF HistoryOps
<1> QED
  BY <1>2, <1>3, <1>7, <1>8, <1>9, <1>10, <1>11, <1>12, <1>13, <1>14, <1>15
     DEF WizardStep, WizardHears

----------------------------------------------------------------------------
\* The records of the history page, field by field

LEMMA ListAsked ==
  ASSUME IsList(list), NEW filter, NEW page, NEW c, NEW e,
         list' = [list EXCEPT !.filter = filter, !.page = page, !.asked = c, !.error = e]
  PROVE  list' =
           [filter |-> filter, page |-> page, shown |-> list.shown, asked |-> c,
            error |-> e]
<1>1. list = [filter |-> list.filter, page |-> list.page, shown |-> list.shown,
          asked |-> list.asked, error |-> list.error]
  BY DEF IsList
<1>2. [list EXCEPT !.filter = filter] =
       [filter |-> filter, page |-> list.page, shown |-> list.shown,
        asked |-> list.asked, error |-> list.error]
  BY <1>1, Z3
<1> DEFINE x1 == [list EXCEPT !.filter = filter]
<1>3. x1 =
       [filter |-> filter, page |-> list.page, shown |-> list.shown,
        asked |-> list.asked, error |-> list.error]
  BY <1>2
<1> HIDE DEF x1
<1>4. [x1 EXCEPT !.page = page] =
       [filter |-> filter, page |-> page, shown |-> list.shown, asked |-> list.asked,
        error |-> list.error]
  BY <1>3, Z3
<1> DEFINE x2 == [x1 EXCEPT !.page = page]
<1>5. x2 =
       [filter |-> filter, page |-> page, shown |-> list.shown, asked |-> list.asked,
        error |-> list.error]
  BY <1>4
<1> HIDE DEF x2
<1>6. [x2 EXCEPT !.asked = c] =
       [filter |-> filter, page |-> page, shown |-> list.shown, asked |-> c,
        error |-> list.error]
  BY <1>5, Z3
<1> DEFINE x3 == [x2 EXCEPT !.asked = c]
<1>7. x3 =
       [filter |-> filter, page |-> page, shown |-> list.shown, asked |-> c,
        error |-> list.error]
  BY <1>6
<1> HIDE DEF x3
<1>8. [x3 EXCEPT !.error = e] =
       [filter |-> filter, page |-> page, shown |-> list.shown, asked |-> c, error |-> e]
  BY <1>7, Z3
<1>9. list' = [x3 EXCEPT !.error = e]
  BY DEF x1, x2, x3
<1> QED BY <1>8, <1>9

LEMMA ListTaken ==
  ASSUME IsList(list), NEW v, NEW c,
         list' = [list EXCEPT !.shown = v, !.asked = c]
  PROVE  list' =
           [filter |-> list.filter, page |-> list.page, shown |-> v, asked |-> c,
            error |-> list.error]
<1>1. list = [filter |-> list.filter, page |-> list.page, shown |-> list.shown,
          asked |-> list.asked, error |-> list.error]
  BY DEF IsList
<1>2. [list EXCEPT !.shown = v] =
       [filter |-> list.filter, page |-> list.page, shown |-> v, asked |-> list.asked,
        error |-> list.error]
  BY <1>1, Z3
<1> DEFINE x1 == [list EXCEPT !.shown = v]
<1>3. x1 =
       [filter |-> list.filter, page |-> list.page, shown |-> v, asked |-> list.asked,
        error |-> list.error]
  BY <1>2
<1> HIDE DEF x1
<1>4. [x1 EXCEPT !.asked = c] =
       [filter |-> list.filter, page |-> list.page, shown |-> v, asked |-> c,
        error |-> list.error]
  BY <1>3, Z3
<1>5. list' = [x1 EXCEPT !.asked = c]
  BY DEF x1
<1> QED BY <1>4, <1>5

LEMMA ListMissed ==
  ASSUME IsList(list), NEW c, NEW e,
         list' = [list EXCEPT !.asked = c, !.error = e]
  PROVE  list' =
           [filter |-> list.filter, page |-> list.page, shown |-> list.shown,
            asked |-> c, error |-> e]
<1>1. list = [filter |-> list.filter, page |-> list.page, shown |-> list.shown,
          asked |-> list.asked, error |-> list.error]
  BY DEF IsList
<1>2. [list EXCEPT !.asked = c] =
       [filter |-> list.filter, page |-> list.page, shown |-> list.shown, asked |-> c,
        error |-> list.error]
  BY <1>1, Z3
<1> DEFINE x1 == [list EXCEPT !.asked = c]
<1>3. x1 =
       [filter |-> list.filter, page |-> list.page, shown |-> list.shown, asked |-> c,
        error |-> list.error]
  BY <1>2
<1> HIDE DEF x1
<1>4. [x1 EXCEPT !.error = e] =
       [filter |-> list.filter, page |-> list.page, shown |-> list.shown, asked |-> c,
        error |-> e]
  BY <1>3, Z3
<1>5. list' = [x1 EXCEPT !.error = e]
  BY DEF x1
<1> QED BY <1>4, <1>5

LEMMA DetailOpened ==
  ASSUME IsDetail(detail), NEW p, NEW c, NEW e,
         detail' = [detail EXCEPT !.opened = p, !.asked = c, !.error = e]
  PROVE  detail' =
           [opened |-> p, shown |-> detail.shown, asked |-> c, error |-> e,
            confirming |-> detail.confirming, revoking |-> detail.revoking,
            reported |-> detail.reported]
<1>1. detail = [opened |-> detail.opened, shown |-> detail.shown, asked |-> detail.asked,
          error |-> detail.error, confirming |-> detail.confirming,
          revoking |-> detail.revoking, reported |-> detail.reported]
  BY DEF IsDetail
<1>2. [detail EXCEPT !.opened = p] =
       [opened |-> p, shown |-> detail.shown, asked |-> detail.asked,
        error |-> detail.error, confirming |-> detail.confirming,
        revoking |-> detail.revoking, reported |-> detail.reported]
  BY <1>1, Z3
<1> DEFINE x1 == [detail EXCEPT !.opened = p]
<1>3. x1 =
       [opened |-> p, shown |-> detail.shown, asked |-> detail.asked,
        error |-> detail.error, confirming |-> detail.confirming,
        revoking |-> detail.revoking, reported |-> detail.reported]
  BY <1>2
<1> HIDE DEF x1
<1>4. [x1 EXCEPT !.asked = c] =
       [opened |-> p, shown |-> detail.shown, asked |-> c, error |-> detail.error,
        confirming |-> detail.confirming, revoking |-> detail.revoking,
        reported |-> detail.reported]
  BY <1>3, Z3
<1> DEFINE x2 == [x1 EXCEPT !.asked = c]
<1>5. x2 =
       [opened |-> p, shown |-> detail.shown, asked |-> c, error |-> detail.error,
        confirming |-> detail.confirming, revoking |-> detail.revoking,
        reported |-> detail.reported]
  BY <1>4
<1> HIDE DEF x2
<1>6. [x2 EXCEPT !.error = e] =
       [opened |-> p, shown |-> detail.shown, asked |-> c, error |-> e,
        confirming |-> detail.confirming, revoking |-> detail.revoking,
        reported |-> detail.reported]
  BY <1>5, Z3
<1>7. detail' = [x2 EXCEPT !.error = e]
  BY DEF x1, x2
<1> QED BY <1>6, <1>7

LEMMA DetailTaken ==
  ASSUME IsDetail(detail), NEW v, NEW c,
         detail' = [detail EXCEPT !.shown = v, !.asked = c]
  PROVE  detail' =
           [opened |-> detail.opened, shown |-> v, asked |-> c, error |-> detail.error,
            confirming |-> detail.confirming, revoking |-> detail.revoking,
            reported |-> detail.reported]
<1>1. detail = [opened |-> detail.opened, shown |-> detail.shown, asked |-> detail.asked,
          error |-> detail.error, confirming |-> detail.confirming,
          revoking |-> detail.revoking, reported |-> detail.reported]
  BY DEF IsDetail
<1>2. [detail EXCEPT !.shown = v] =
       [opened |-> detail.opened, shown |-> v, asked |-> detail.asked,
        error |-> detail.error, confirming |-> detail.confirming,
        revoking |-> detail.revoking, reported |-> detail.reported]
  BY <1>1, Z3
<1> DEFINE x1 == [detail EXCEPT !.shown = v]
<1>3. x1 =
       [opened |-> detail.opened, shown |-> v, asked |-> detail.asked,
        error |-> detail.error, confirming |-> detail.confirming,
        revoking |-> detail.revoking, reported |-> detail.reported]
  BY <1>2
<1> HIDE DEF x1
<1>4. [x1 EXCEPT !.asked = c] =
       [opened |-> detail.opened, shown |-> v, asked |-> c, error |-> detail.error,
        confirming |-> detail.confirming, revoking |-> detail.revoking,
        reported |-> detail.reported]
  BY <1>3, Z3
<1>5. detail' = [x1 EXCEPT !.asked = c]
  BY DEF x1
<1> QED BY <1>4, <1>5

LEMMA DetailMissed ==
  ASSUME IsDetail(detail), NEW c, NEW e,
         detail' = [detail EXCEPT !.asked = c, !.error = e]
  PROVE  detail' =
           [opened |-> detail.opened, shown |-> detail.shown, asked |-> c, error |-> e,
            confirming |-> detail.confirming, revoking |-> detail.revoking,
            reported |-> detail.reported]
<1>1. detail = [opened |-> detail.opened, shown |-> detail.shown, asked |-> detail.asked,
          error |-> detail.error, confirming |-> detail.confirming,
          revoking |-> detail.revoking, reported |-> detail.reported]
  BY DEF IsDetail
<1>2. [detail EXCEPT !.asked = c] =
       [opened |-> detail.opened, shown |-> detail.shown, asked |-> c,
        error |-> detail.error, confirming |-> detail.confirming,
        revoking |-> detail.revoking, reported |-> detail.reported]
  BY <1>1, Z3
<1> DEFINE x1 == [detail EXCEPT !.asked = c]
<1>3. x1 =
       [opened |-> detail.opened, shown |-> detail.shown, asked |-> c,
        error |-> detail.error, confirming |-> detail.confirming,
        revoking |-> detail.revoking, reported |-> detail.reported]
  BY <1>2
<1> HIDE DEF x1
<1>4. [x1 EXCEPT !.error = e] =
       [opened |-> detail.opened, shown |-> detail.shown, asked |-> c, error |-> e,
        confirming |-> detail.confirming, revoking |-> detail.revoking,
        reported |-> detail.reported]
  BY <1>3, Z3
<1>5. detail' = [x1 EXCEPT !.error = e]
  BY DEF x1
<1> QED BY <1>4, <1>5

LEMMA DetailConfirming ==
  ASSUME IsDetail(detail), NEW b,
         detail' = [detail EXCEPT !.confirming = b]
  PROVE  detail' =
           [opened |-> detail.opened, shown |-> detail.shown, asked |-> detail.asked,
            error |-> detail.error, confirming |-> b, revoking |-> detail.revoking,
            reported |-> detail.reported]
<1>1. detail = [opened |-> detail.opened, shown |-> detail.shown, asked |-> detail.asked,
          error |-> detail.error, confirming |-> detail.confirming,
          revoking |-> detail.revoking, reported |-> detail.reported]
  BY DEF IsDetail
<1>2. [detail EXCEPT !.confirming = b] =
       [opened |-> detail.opened, shown |-> detail.shown, asked |-> detail.asked,
        error |-> detail.error, confirming |-> b, revoking |-> detail.revoking,
        reported |-> detail.reported]
  BY <1>1, Z3
<1> QED BY <1>2

LEMMA DetailRevoking ==
  ASSUME IsDetail(detail), NEW b,
         detail' = [detail EXCEPT !.revoking = b]
  PROVE  detail' =
           [opened |-> detail.opened, shown |-> detail.shown, asked |-> detail.asked,
            error |-> detail.error, confirming |-> detail.confirming, revoking |-> b,
            reported |-> detail.reported]
<1>1. detail = [opened |-> detail.opened, shown |-> detail.shown, asked |-> detail.asked,
          error |-> detail.error, confirming |-> detail.confirming,
          revoking |-> detail.revoking, reported |-> detail.reported]
  BY DEF IsDetail
<1>2. [detail EXCEPT !.revoking = b] =
       [opened |-> detail.opened, shown |-> detail.shown, asked |-> detail.asked,
        error |-> detail.error, confirming |-> detail.confirming, revoking |-> b,
        reported |-> detail.reported]
  BY <1>1, Z3
<1> QED BY <1>2

LEMMA DetailRevoked ==
  ASSUME IsDetail(detail), NEW v, NEW b, NEW e, NEW ps,
         detail' = [detail EXCEPT !.shown = v, !.revoking = b, !.confirming = e, !.reported = ps]
  PROVE  detail' =
           [opened |-> detail.opened, shown |-> v, asked |-> detail.asked,
            error |-> detail.error, confirming |-> e, revoking |-> b, reported |-> ps]
<1>1. detail = [opened |-> detail.opened, shown |-> detail.shown, asked |-> detail.asked,
          error |-> detail.error, confirming |-> detail.confirming,
          revoking |-> detail.revoking, reported |-> detail.reported]
  BY DEF IsDetail
<1>2. [detail EXCEPT !.shown = v] =
       [opened |-> detail.opened, shown |-> v, asked |-> detail.asked,
        error |-> detail.error, confirming |-> detail.confirming,
        revoking |-> detail.revoking, reported |-> detail.reported]
  BY <1>1, Z3
<1> DEFINE x1 == [detail EXCEPT !.shown = v]
<1>3. x1 =
       [opened |-> detail.opened, shown |-> v, asked |-> detail.asked,
        error |-> detail.error, confirming |-> detail.confirming,
        revoking |-> detail.revoking, reported |-> detail.reported]
  BY <1>2
<1> HIDE DEF x1
<1>4. [x1 EXCEPT !.revoking = b] =
       [opened |-> detail.opened, shown |-> v, asked |-> detail.asked,
        error |-> detail.error, confirming |-> detail.confirming, revoking |-> b,
        reported |-> detail.reported]
  BY <1>3, Z3
<1> DEFINE x2 == [x1 EXCEPT !.revoking = b]
<1>5. x2 =
       [opened |-> detail.opened, shown |-> v, asked |-> detail.asked,
        error |-> detail.error, confirming |-> detail.confirming, revoking |-> b,
        reported |-> detail.reported]
  BY <1>4
<1> HIDE DEF x2
<1>6. [x2 EXCEPT !.confirming = e] =
       [opened |-> detail.opened, shown |-> v, asked |-> detail.asked,
        error |-> detail.error, confirming |-> e, revoking |-> b,
        reported |-> detail.reported]
  BY <1>5, Z3
<1> DEFINE x3 == [x2 EXCEPT !.confirming = e]
<1>7. x3 =
       [opened |-> detail.opened, shown |-> v, asked |-> detail.asked,
        error |-> detail.error, confirming |-> e, revoking |-> b,
        reported |-> detail.reported]
  BY <1>6
<1> HIDE DEF x3
<1>8. [x3 EXCEPT !.reported = ps] =
       [opened |-> detail.opened, shown |-> v, asked |-> detail.asked,
        error |-> detail.error, confirming |-> e, revoking |-> b, reported |-> ps]
  BY <1>7, Z3
<1>9. detail' = [x3 EXCEPT !.reported = ps]
  BY DEF x1, x2, x3
<1> QED BY <1>8, <1>9

LEMMA DetailFailed ==
  ASSUME IsDetail(detail), NEW b, NEW e,
         detail' = [detail EXCEPT !.revoking = b, !.confirming = e]
  PROVE  detail' =
           [opened |-> detail.opened, shown |-> detail.shown, asked |-> detail.asked,
            error |-> detail.error, confirming |-> e, revoking |-> b,
            reported |-> detail.reported]
<1>1. detail = [opened |-> detail.opened, shown |-> detail.shown, asked |-> detail.asked,
          error |-> detail.error, confirming |-> detail.confirming,
          revoking |-> detail.revoking, reported |-> detail.reported]
  BY DEF IsDetail
<1>2. [detail EXCEPT !.revoking = b] =
       [opened |-> detail.opened, shown |-> detail.shown, asked |-> detail.asked,
        error |-> detail.error, confirming |-> detail.confirming, revoking |-> b,
        reported |-> detail.reported]
  BY <1>1, Z3
<1> DEFINE x1 == [detail EXCEPT !.revoking = b]
<1>3. x1 =
       [opened |-> detail.opened, shown |-> detail.shown, asked |-> detail.asked,
        error |-> detail.error, confirming |-> detail.confirming, revoking |-> b,
        reported |-> detail.reported]
  BY <1>2
<1> HIDE DEF x1
<1>4. [x1 EXCEPT !.confirming = e] =
       [opened |-> detail.opened, shown |-> detail.shown, asked |-> detail.asked,
        error |-> detail.error, confirming |-> e, revoking |-> b,
        reported |-> detail.reported]
  BY <1>3, Z3
<1>5. detail' = [x1 EXCEPT !.confirming = e]
  BY DEF x1
<1> QED BY <1>4, <1>5


----------------------------------------------------------------------------
\* The history page's own steps

LEMMA AskingForList ==
  ASSUME DeskInv, HistoryPageInv, UNCHANGED deskVars, NEW c \in Call,
         NEW filter, NEW page, filter # Null,
         call[c] # Null => call[c].op \notin {"history", "revoke"},
         AskForList(c, filter, page)
  PROVE  /\ Tame(WizardOps)
         /\ list' = [filter |-> filter, page |-> page, shown |-> list.shown, asked |-> c,
                     error |-> FALSE]
         /\ IsList(list') /\ HistoryOpen' /\ ~Settled' /\ ListCalls'
         /\ \A d \in Call \ {c} : call'[d] # Null => call'[d] = call[d]
         /\ call'[c].op = "history"
<1>1. list' = [filter |-> filter, page |-> page, shown |-> list.shown, asked |-> c,
               error |-> FALSE]
  <2>1. list' = [list EXCEPT !.filter = filter, !.page = page, !.asked = c, !.error = FALSE]
    BY DEF AskForList
  <2> QED BY <2>1, ListAsked DEF HistoryPageInv
<1>2. IsList(list') /\ HistoryOpen' /\ ~Settled'
  BY <1>1, DeskAssumption DEF IsList, HistoryOpen, Settled
<1>3. /\ call' = [d \in Call |-> call'[d]]
      /\ call'[c] = Request("history", filter, page)
      /\ \A d \in Call \ {c} : IF d = list.asked THEN call'[d] = Null ELSE call'[d] = call[d]
  BY DEF AskForList, CancelledList
<1>4. CallsShaped'
  BY <1>3 DEF DeskInv, CallsShaped, Request, IsCall
<1>5. Keeps(WizardOps) /\ AllSeenRests
  BY <1>3 DEF Keeps, WizardOps, Request, AllSeenRests, SeenRests
<1>6. ASSUME NEW d \in Call PROVE ListCall(d)'
  <2>1. CASE d = c
    BY <1>1, <1>2, <1>3, <2>1 DEF ListCall, Request
  <2>2. CASE d # c
    BY <1>3, <2>2 DEF ListCall, HistoryPageInv, ListCalls
  <2> QED BY <2>1, <2>2
<1>7. ListCalls'
  BY <1>6 DEF ListCalls
<1>8. call'[c].op = "history"
  BY <1>3 DEF Request
<1>9. Tame(WizardOps)
  BY <1>4, <1>5, NothingGrows DEF Tame, DeskInv, RegistryShaped, RowsShaped, deskVars
<1> QED BY <1>1, <1>2, <1>3, <1>7, <1>8, <1>9

\* A step that leaves the list, and every request but one.
LEMMA ListRests ==
  ASSUME HistoryPageInv, UNCHANGED list, detail'.reported = detail.reported,
         NEW c \in Call, OneCallMoves(c),
         call'[c] # Null => call'[c].op # "history"
  PROVE  /\ ListCalls' /\ IsList(list') /\ (HistoryOpen' <=> HistoryOpen)
         /\ Settled' => ListFits(list.shown)'
<1>1. ASSUME NEW d \in Call PROVE ListCall(d)'
  <2>1. CASE d = c
    BY <2>1 DEF ListCall
  <2>2. CASE d # c
    BY <2>2 DEF ListCall, ListCalls, HistoryPageInv, OneCallMoves, HistoryOpen, ListFits
  <2> QED BY <2>1, <2>2
<1>2. Settled' => ListFits(list.shown)'
  BY DEF HistoryPageInv, Settled, ListFits, HistoryOpen
<1> QED BY <1>1, <1>2 DEF ListCalls, HistoryPageInv, HistoryOpen

\* A request of the drawer that a step leaves alone.
LEMMA DrawerCallRests ==
  ASSUME HistoryPageInv, UNCHANGED registry, NEW d \in Call,
         call'[d] = call[d] \/ call'[d] = Null, HistoryOpen => HistoryOpen',
         \/ detail'.asked = detail.asked /\ detail'.opened = detail.opened
         \/ detail.opened = Null
         \/ detail.asked # d
  PROVE  DrawerCall(d)'
<1>1. CASE call'[d] = Null
  BY <1>1 DEF DrawerCall
<1>2. CASE call'[d] # Null /\ call'[d] = call[d]
  <2>1. DrawerCall(d)
    BY DEF HistoryPageInv, DrawerCalls
  <2>2. CASE detail'.asked = detail.asked /\ detail'.opened = detail.opened
    BY <1>2, <2>1, <2>2 DEF DrawerCall, Gone
  <2>3. CASE detail.opened = Null \/ detail.asked # d
    BY <1>2, <2>1, <2>3, DeskAssumption DEF DrawerCall, Gone
  <2> QED BY <2>2, <2>3
<1> QED BY <1>1, <1>2

LEMMA HistoryStepKeeps ==
  ASSUME DeskInv, HistoryPageInv, HistoryStep
  PROVE  Tame(WizardOps) /\ HistoryPageInv'
<1> DEFINE Goal == Tame(WizardOps) /\ HistoryPageInv'
<1>0. /\ CallsShaped /\ IsList(list) /\ IsDetail(detail) /\ DrawerInv
      /\ ListCalls /\ DrawerCalls
  BY DEF DeskInv, HistoryPageInv, DrawerInv
\* The list asks, or is answered.
<1>1. ASSUME NEW c \in Call, NEW filter, NEW page, filter # Null, call[c] = Null,
             AskForList(c, filter, page), UNCHANGED <<detail, deskVars>>
      PROVE  Goal
  <2>1. /\ Tame(WizardOps) /\ IsList(list') /\ HistoryOpen' /\ ~Settled' /\ ListCalls'
        /\ \A d \in Call \ {c} : call'[d] # Null => call'[d] = call[d]
        /\ call'[c].op = "history"
    BY <1>1, AskingForList
  <2>2. ASSUME NEW d \in Call PROVE DrawerCall(d)'
    <3>1. CASE d = c
      BY <2>1, <3>1 DEF DrawerCall
    <3>2. CASE d # c
      BY <1>1, <2>1, <3>2, DrawerCallRests DEF deskVars
    <3> QED BY <3>1, <3>2
  <2>3. DrawerInv'
    BY <1>0, <1>1, <2>1 DEF DrawerInv, Gone, deskVars
  <2> QED BY <2>1, <2>2, <2>3 DEF HistoryPageInv, DrawerCalls
<1>2. ASSUME NEW filter \in Filter, NEW c \in Call, OpenHistory(filter, c) PROVE Goal
  <2>1. /\ call' = [call EXCEPT ![c] = Request("history", filter, 1)]
        /\ UNCHANGED <<detail, deskVars>> /\ ~HistoryOpen
        /\ list' = [filter |-> filter, page |-> 1, shown |-> Null, asked |-> c, error |-> FALSE]
    BY <1>2 DEF OpenHistory, Send, OpenedList
  <2>2. /\ CallsShaped' /\ OneCallMoves(c)
        /\ call'[c].op = "history" /\ call'[c].subject = filter /\ call'[c].input = 1
        /\ call'[c].state = "sent"
    BY <1>0, <2>1, Sending
  <2>3. Tame(WizardOps)
    BY <2>1, <2>2, QuietStep DEF WizardOps
  <2>4. HistoryOpen' /\ IsList(list') /\ ~Settled'
    BY <2>1, FilterAssumption, DeskAssumption DEF HistoryOpen, IsList, Settled
  <2>5. ASSUME NEW d \in Call PROVE ListCall(d)' /\ DrawerCall(d)'
    <3>1. CASE d = c
      BY <2>1, <2>2, <2>4, <3>1 DEF ListCall, DrawerCall
    <3>2. CASE d # c
      BY <1>0, <2>1, <2>2, <3>2 DEF ListCall, ListCalls, DrawerCall, DrawerCalls, OneCallMoves
    <3> QED BY <3>1, <3>2
  <2>6. DrawerInv'
    BY <1>0, <2>1, <2>4 DEF DrawerInv, Gone, deskVars
  <2> QED BY <2>3, <2>4, <2>5, <2>6 DEF HistoryPageInv, ListCalls, DrawerCalls
<1>3. ASSUME NEW filter \in Filter, NEW c \in Call, ChooseFilter(filter, c) PROVE Goal
  BY <1>1, <1>3, FilterAssumption DEF ChooseFilter
<1>4. ASSUME NEW page, NEW c \in Call, ChoosePage(page, c) PROVE Goal
  BY <1>1, <1>4 DEF ChoosePage, Settled, HistoryOpen
<1>5. ASSUME NEW c \in Call, Answered(c, "history") \/ Failed(c, "history"), Forget(c),
             IsList(list'), list'.filter = list.filter, list'.page = list.page,
             Settled' => ListFits(list.shown)', UNCHANGED <<detail, deskVars>>
      PROVE  Goal
  <2>1. /\ CallsShaped' /\ OneCallMoves(c) /\ call'[c] = Null
    BY <1>0, <1>5, Forgetting
  <2>2. Tame(WizardOps)
    BY <1>5, <2>1, QuietStep
  <2>3. list.asked = c /\ (HistoryOpen' <=> HistoryOpen)
    BY <1>0, <1>5 DEF ListCalls, ListCall, Answered, Failed, Has, HistoryOpen
  <2>4. ASSUME NEW d \in Call PROVE ListCall(d)' /\ DrawerCall(d)'
    <3>1. DrawerCall(d)'
      BY <1>5, <2>1, <2>3, DrawerCallRests DEF OneCallMoves, deskVars
    <3>2. ListCall(d)'
      BY <1>0, <2>1, <2>3 DEF ListCall, ListCalls, OneCallMoves
    <3> QED BY <3>1, <3>2
  <2>5. DrawerInv'
    BY <1>0, <1>5, <2>3 DEF DrawerInv, Gone, deskVars
  <2> QED BY <1>5, <2>2, <2>4, <2>5 DEF HistoryPageInv, ListCalls, DrawerCalls
<1>6. ASSUME NEW c \in Call, ListArrives(c) PROVE Goal
  <2>1. ListFits(call[c].answer)
    BY <1>0, <1>6 DEF ListArrives, Answered, Has, ListCalls, ListCall
  <2>2. list' = [filter |-> list.filter, page |-> list.page, shown |-> call[c].answer,
                 asked |-> Null, error |-> list.error]
    BY <1>0, <1>6, ListTaken DEF ListArrives
  <2>3. IsList(list') /\ list'.filter = list.filter /\ list'.page = list.page
    BY <1>0, <2>2 DEF IsList
  <2>4. ListFits(list.shown)'
    BY <1>6, <2>1, <2>2 DEF ListArrives, ListFits
  <2> QED BY <1>5, <1>6, <2>3, <2>4 DEF ListArrives
<1>7. ASSUME NEW c \in Call, ListFails(c) PROVE Goal
  <2>1. list' = [filter |-> list.filter, page |-> list.page, shown |-> list.shown,
                 asked |-> Null, error |-> TRUE]
    BY <1>0, <1>7, ListMissed DEF ListFails
  <2>2. IsList(list') /\ list'.filter = list.filter /\ list'.page = list.page /\ ~Settled'
    BY <1>0, <2>1 DEF IsList, Settled
  <2> QED BY <1>5, <1>7, <2>2 DEF ListFails
\* The drawer asks, is answered, or gives up.
<1>8. ASSUME NEW c \in Call, UNCHANGED <<list, deskVars>>, CallsShaped', OneCallMoves(c),
             call'[c] # Null => call'[c].op \notin WizardOps \cup {"history"},
             detail'.reported = detail.reported,
             \/ detail'.asked = detail.asked /\ detail'.opened = detail.opened
             \/ detail.opened = Null
             \/ detail.asked = c,
             DrawerCall(c)', DrawerInv'
      PROVE  Goal
  <2>1. Tame(WizardOps)
    BY <1>8, QuietStep
  <2>2. /\ ListCalls' /\ IsList(list') /\ (HistoryOpen' <=> HistoryOpen)
        /\ Settled' => ListFits(list.shown)'
    BY <1>8, ListRests
  <2>3. ASSUME NEW d \in Call PROVE DrawerCall(d)'
    <3>1. CASE d = c
      BY <1>8, <3>1
    <3>2. CASE d # c
      BY <1>8, <2>2, <3>2, DrawerCallRests DEF OneCallMoves, deskVars
    <3> QED BY <3>1, <3>2
  <2> QED BY <1>8, <2>1, <2>2, <2>3 DEF HistoryPageInv, DrawerCalls
<1>9. ASSUME NEW p \in PubId, NEW c \in Call, OpenDetail(p, c) PROVE Goal
  <2>1. /\ call' = [call EXCEPT ![c] = Request("publication", p, "opened")]
        /\ UNCHANGED <<list, deskVars>> /\ HistoryOpen /\ detail.opened = Null
        /\ detail' = [detail EXCEPT !.opened = p, !.asked = c, !.error = FALSE]
    BY <1>9 DEF OpenDetail, Send, Settled
  <2>2. /\ CallsShaped' /\ OneCallMoves(c) /\ call'[c].op = "publication"
        /\ call'[c].subject = p /\ call'[c].input = "opened" /\ call'[c].state = "sent"
    BY <1>0, <2>1, Sending
  <2>3. detail' = [opened |-> p, shown |-> detail.shown, asked |-> c, error |-> FALSE,
                   confirming |-> detail.confirming, revoking |-> detail.revoking,
                   reported |-> detail.reported]
    BY <1>0, <2>1, DetailOpened
  <2>4. DrawerCall(c)'
    BY <2>1, <2>2, <2>3 DEF DrawerCall, HistoryOpen
  <2>5. DrawerInv'
    BY <1>0, <2>1, <2>3 DEF DrawerInv, IsDetail, Gone, deskVars, HistoryOpen
  <2> QED BY <1>8, <2>1, <2>2, <2>3, <2>4, <2>5 DEF WizardOps
<1>10. ASSUME CloseDetail PROVE Goal
  <2>1. /\ UNCHANGED <<list, deskVars>> /\ call' = [d \in Call |-> call'[d]]
        /\ \A d \in Call : IF d = detail.asked THEN call'[d] = Null ELSE call'[d] = call[d]
        /\ detail' = [opened |-> Null, shown |-> Null, asked |-> Null, error |-> FALSE,
                      confirming |-> FALSE, revoking |-> detail.revoking,
                      reported |-> detail.reported]
    BY <1>10 DEF CloseDetail, CancelledDetail, NoDetail
  <2>2. Tame(WizardOps)
    <3>1. CallsShaped' /\ Keeps(WizardOps) /\ AllSeenRests
      BY <1>0, <2>1 DEF CallsShaped, Keeps, AllSeenRests, SeenRests
    <3> QED BY <2>1, <3>1, NothingGrows DEF Tame, DeskInv, RegistryShaped, RowsShaped, deskVars
  <2>3. ASSUME NEW d \in Call PROVE ListCall(d)' /\ DrawerCall(d)'
    <3>1. CASE d = detail.asked
      BY <2>1, <3>1 DEF ListCall, DrawerCall
    <3>2. CASE d # detail.asked
      <4>1. DrawerCall(d)'
        BY <2>1, <3>2, DrawerCallRests DEF HistoryOpen, deskVars
      <4>2. ListCall(d)'
        BY <1>0, <2>1, <3>2 DEF ListCall, ListCalls, ListFits, HistoryOpen
      <4> QED BY <4>1, <4>2
    <3> QED BY <3>1, <3>2
  <2>4. DrawerInv'
    BY <1>0, <2>1 DEF DrawerInv, IsDetail, Gone, deskVars
  <2>5. Settled' => ListFits(list.shown)'
    BY <2>1 DEF HistoryPageInv, Settled, ListFits, HistoryOpen
  <2> QED BY <1>0, <2>1, <2>2, <2>3, <2>4, <2>5 DEF HistoryPageInv, ListCalls, DrawerCalls
<1>11. ASSUME NEW c \in Call, Answered(c, "publication") \/ Failed(c, "publication"),
              call[c].input = "opened", Forget(c), UNCHANGED <<list, deskVars>>,
              detail'.reported = detail.reported, DrawerInv'
       PROVE  Goal
  <2>1. /\ CallsShaped' /\ OneCallMoves(c) /\ call'[c] = Null
    BY <1>0, <1>11, Forgetting
  <2>2. detail.asked = c
    BY <1>0, <1>11 DEF DrawerCalls, DrawerCall, Answered, Failed, Has
  <2>3. DrawerCall(c)'
    BY <2>1 DEF DrawerCall
  <2> QED BY <1>8, <1>11, <2>1, <2>2, <2>3
<1>12. ASSUME NEW c \in Call, DetailArrives(c) PROVE Goal
  <2>1. /\ detail.asked = c /\ detail.opened = call[c].answer.id
    BY <1>0, <1>12 DEF DetailArrives, Answered, Has, DrawerCalls, DrawerCall
  <2>2. /\ UNCHANGED <<list, deskVars>>
        /\ detail' = [opened |-> detail.opened, shown |-> call[c].answer, asked |-> Null,
                      error |-> detail.error, confirming |-> detail.confirming,
                      revoking |-> detail.revoking, reported |-> detail.reported]
    BY <1>0, <1>12, DetailTaken DEF DetailArrives
  <2>3. detail.opened # Null
    BY <1>0, <1>12, DeskAssumption DEF DetailArrives, Answered, Has, DrawerCalls, DrawerCall
  <2>4. DrawerInv'
    BY <1>0, <2>1, <2>2, <2>3, DeskAssumption
       DEF DrawerInv, IsDetail, Gone, deskVars, HistoryOpen
  <2> QED BY <1>11, <1>12, <2>2, <2>4 DEF DetailArrives
<1>13. ASSUME NEW c \in Call, DetailFails(c) PROVE Goal
  <2>1. /\ UNCHANGED <<list, deskVars>>
        /\ detail' = [opened |-> detail.opened, shown |-> detail.shown, asked |-> Null,
                      error |-> TRUE, confirming |-> detail.confirming,
                      revoking |-> detail.revoking, reported |-> detail.reported]
    BY <1>0, <1>13, DetailMissed DEF DetailFails
  <2>2. DrawerInv'
    BY <1>0, <2>1 DEF DrawerInv, IsDetail, Gone, deskVars, HistoryOpen
  <2> QED BY <1>11, <1>13, <2>1, <2>2 DEF DetailFails
<1>14. ASSUME NEW b \in BOOLEAN, UNCHANGED <<list, call, deskVars>>,
              detail' = [detail EXCEPT !.confirming = b],
              b => detail.opened # Null /\ detail.asked = Null /\ detail.shown.id = detail.opened
       PROVE  Goal
  <2>1. detail' = [opened |-> detail.opened, shown |-> detail.shown, asked |-> detail.asked,
                   error |-> detail.error, confirming |-> b,
                   revoking |-> detail.revoking, reported |-> detail.reported]
    BY <1>0, <1>14, DetailConfirming
  <2>2. Tame(WizardOps)
    BY <1>14, SilentStep
  <2>3. DrawerInv'
    BY <1>0, <1>14, <2>1 DEF DrawerInv, IsDetail, Gone, deskVars, HistoryOpen
  <2>4. ListCalls' /\ IsList(list') /\ (Settled' => ListFits(list.shown)')
    BY <1>14, <2>1
       DEF HistoryPageInv, ListCalls, ListCall, ListFits, Settled, HistoryOpen
  <2>5. DrawerCalls'
    BY <1>0, <1>14, <2>1 DEF DrawerCalls, DrawerCall, Gone, deskVars, HistoryOpen
  <2> QED BY <2>2, <2>3, <2>4, <2>5 DEF HistoryPageInv
<1>15. ASSUME AskToRevoke PROVE Goal
  <2>1. detail.opened # Null /\ detail.asked = Null /\ detail.shown.id = detail.opened
    BY <1>0, <1>15 DEF AskToRevoke, DrawerInv
  <2> QED BY <1>14, <1>15, <2>1 DEF AskToRevoke
<1>16. ASSUME CloseConfirmation PROVE Goal
  BY <1>14, <1>16 DEF CloseConfirmation
<1>17. ASSUME NEW c \in Call, ConfirmRevoke(c) PROVE Goal
  <2> DEFINE p == detail.opened
  <2>1. p \in PubId /\ detail.shown.id = p /\ HistoryOpen
    BY <1>0, <1>17 DEF ConfirmRevoke, DrawerInv
  <2>2. /\ call' = [call EXCEPT ![c] = Request("revoke", p, p)]
        /\ UNCHANGED <<list, deskVars>>
    BY <1>17, <2>1 DEF ConfirmRevoke, Send
  <2>3. detail' = [opened |-> detail.opened, shown |-> detail.shown, asked |-> detail.asked,
                   error |-> detail.error, confirming |-> detail.confirming,
                   revoking |-> TRUE, reported |-> detail.reported]
    BY <1>0, <1>17, DetailRevoking DEF ConfirmRevoke
  <2>4. DrawerInv'
    BY <1>0, <2>2, <2>3 DEF DrawerInv, IsDetail, Gone, deskVars, HistoryOpen
  <2> HIDE DEF p
  <2>5. /\ CallsShaped' /\ OneCallMoves(c) /\ call'[c].op = "revoke"
        /\ call'[c].subject = p /\ call'[c].input = p /\ call'[c].state = "sent"
    BY <1>0, <2>2, Sending
  <2>6. DrawerCall(c)'
    BY <2>1, <2>2, <2>5 DEF DrawerCall, HistoryOpen
  <2> QED BY <1>8, <2>2, <2>3, <2>4, <2>5, <2>6 DEF WizardOps
<1>18. ASSUME NEW c \in Call, RevokeDone(c) PROVE Goal
  <2> DEFINE p == call[c].subject
  <2>1. /\ call' = [call EXCEPT ![c] = Request("publication", p, "revoked")]
        /\ UNCHANGED <<list, detail, deskVars>>
    BY <1>18 DEF RevokeDone
  <2>2. HistoryOpen /\ p \in PubId /\ Gone(p)
    BY <1>0, <1>18 DEF RevokeDone, Answered, Has, DrawerCalls, DrawerCall
  <2> HIDE DEF p
  <2>3. /\ CallsShaped' /\ OneCallMoves(c) /\ call'[c].op = "publication"
        /\ call'[c].subject = p /\ call'[c].input = "revoked" /\ call'[c].state = "sent"
    BY <1>0, <2>1, Sending
  <2>4. DrawerCall(c)' /\ DrawerInv'
    BY <1>0, <2>1, <2>2, <2>3 DEF DrawerCall, DrawerInv, HistoryOpen, Gone, deskVars
  <2> QED BY <1>8, <2>1, <2>3, <2>4 DEF WizardOps
\* The drawer shows the publication revoked, and the list is asked for anew.
<1>19. ASSUME NEW c \in Call, RevokeShown(c) PROVE Goal
  <2> DEFINE p == call[c].subject
  <2>1. /\ HistoryOpen /\ p \in PubId /\ Gone(p) /\ call[c] # Null
        /\ call[c].op = "publication" /\ call[c].answer.status # "ACTIVE"
        /\ UNCHANGED deskVars
    BY <1>0, <1>19 DEF RevokeShown, Answered, Has, DrawerCalls, DrawerCall
  <2>2. AskForList(c, list.filter, list.page) /\ list.filter # Null
    BY <1>19, <2>1 DEF RevokeShown, ReloadList, HistoryOpen
  <2>3. /\ Tame(WizardOps) /\ IsList(list') /\ HistoryOpen' /\ ~Settled' /\ ListCalls'
        /\ \A d \in Call \ {c} : call'[d] # Null => call'[d] = call[d]
        /\ call'[c].op = "history"
    BY <2>1, <2>2, AskingForList
  <2>4. detail' = [opened |-> detail.opened, shown |-> call[c].answer, asked |-> detail.asked,
                   error |-> detail.error, confirming |-> FALSE, revoking |-> FALSE,
                   reported |-> detail.reported \cup {p}]
    BY <1>0, <1>19, DetailRevoked DEF RevokeShown
  <2>5. DrawerInv'
    BY <1>0, <2>1, <2>3, <2>4 DEF DrawerInv, IsDetail, Gone, deskVars
  <2>6. ASSUME NEW d \in Call PROVE DrawerCall(d)'
    <3>1. CASE d = c
      BY <2>3, <3>1 DEF DrawerCall
    <3>2. CASE d # c
      BY <2>1, <2>3, <2>4, <3>2, DrawerCallRests DEF deskVars
    <3> QED BY <3>1, <3>2
  <2> QED BY <2>3, <2>5, <2>6 DEF HistoryPageInv, DrawerCalls
<1>20. ASSUME NEW c \in Call, RevokeReportedFailed(c) PROVE Goal
  <2>1. /\ UNCHANGED <<list, deskVars>>
        /\ detail' = [opened |-> detail.opened, shown |-> detail.shown, asked |-> detail.asked,
                      error |-> detail.error, confirming |-> FALSE, revoking |-> FALSE,
                      reported |-> detail.reported]
    BY <1>0, <1>20, DetailFailed DEF RevokeReportedFailed
  <2>2. DrawerInv'
    BY <1>0, <2>1 DEF DrawerInv, IsDetail, Gone, deskVars, HistoryOpen
  <2>3. CASE Forget(c)
    <3>1. CallsShaped' /\ OneCallMoves(c) /\ call'[c] = Null
      BY <1>0, <2>3, Forgetting
    <3>2. DrawerCall(c)'
      BY <3>1 DEF DrawerCall
    <3> QED BY <1>8, <2>1, <2>2, <3>1, <3>2
  <2>4. CASE Failed(c, "revoke") /\ LeaveToApi(c)
    <3>1. call[c] # Null /\ call[c].op = "revoke"
      BY <2>4 DEF Failed, Has
    <3>2. /\ CallsShaped' /\ OneCallMoves(c)
          /\ call'[c] # Null => /\ call'[c].op = "revoke" /\ call'[c].subject = call[c].subject
                                /\ call'[c].input = call[c].input /\ call'[c].state = "left"
      BY <1>0, <2>4, <3>1, Leaving
    <3>3. DrawerCall(c)'
      BY <1>0, <2>1, <3>1, <3>2 DEF DrawerCalls, DrawerCall, HistoryOpen
    <3> QED BY <1>8, <2>1, <2>2, <3>2, <3>3 DEF WizardOps
  <2> QED BY <1>20, <2>3, <2>4 DEF RevokeReportedFailed
<1> HIDE DEF Goal
<1>21. Goal
  BY <1>2, <1>3, <1>4, <1>6, <1>7, <1>9, <1>10, <1>12, <1>13, <1>15, <1>16, <1>17, <1>18,
     <1>19, <1>20
     DEF HistoryStep, HistoryHears
<1> QED BY <1>21 DEF Goal

----------------------------------------------------------------------------
\* The steps of the API

LEMMA Unserved ==
  ASSUME ConsoleInv, DeskInv', CheckedInv', RegistryGrows, Keeps(HistoryOps), Keeps(WizardOps),
         UNCHANGED pages
  PROVE  ConsoleInv'
  BY HistoryStays, WizardStays DEF ConsoleInv, pages

LEMMA RowsRest ==
  ASSUME RowsShaped, UNCHANGED row
  PROVE  RowsShaped' /\ RowsStay
  BY DEF RowsShaped, RowsStay, IsRow

LEMMA ChangingRule ==
  ASSUME RowsShaped, NEW i, Stored(i), NEW new, row' = [row EXCEPT ![i].rule = new]
  PROVE  /\ RowsShaped' /\ RowsStay
         /\ \A j \in Row \ {i} : row'[j] = row[j]
         /\ i \in Row => row'[i].of = row[i].of
<1>1. CASE i \in Row
  <2>1. row[i] = [of |-> row[i].of, rule |-> row[i].rule] /\ row[i].of \in Revision
    BY <1>1 DEF RowsShaped, IsRow, Stored
  <2>2. [row[i] EXCEPT !.rule = new] = [of |-> row[i].of, rule |-> new]
    BY <2>1, Z3
  <2>3. row' = [row EXCEPT ![i] = [of |-> row[i].of, rule |-> new]]
    BY <1>1, <2>2 DEF RowsShaped
  <2>4. /\ row'[i] = [of |-> row[i].of, rule |-> new]
        /\ row' = [j \in Row |-> row'[j]] /\ \A j \in Row \ {i} : row'[j] = row[j]
    BY <1>1, <2>3 DEF RowsShaped
  <2>5. IsRow(row'[i]) /\ row'[i].of = row[i].of
    BY <2>1, <2>4 DEF IsRow
  <2> QED BY <2>4, <2>5 DEF RowsShaped, RowsStay, Stored
<1>2. CASE i \notin Row
  <2>1. row' = row
    BY <1>2 DEF RowsShaped
  <2> QED BY <1>2, <2>1, RowsRest
<1> QED BY <1>1, <1>2

LEMMA NobodyChecks ==
  ASSUME ConsoleInv, RegistryGrows, RowsStay, AllSeenRests
  PROVE  CheckedInv'
  BY CheckedStays DEF ConsoleInv

\* An answer to a page that is neither the history nor the wizard.
LEMMA AnsweringOthers ==
  ASSUME ConsoleInv, NEW c \in Call, call[c] # Null,
         call[c].op \notin HistoryOps \cup WizardOps, NEW a, Answer(c, a),
         UNCHANGED registry, RowsShaped', RowsStay, UNCHANGED pages
  PROVE  ConsoleInv'
<1>1. CallsShaped' /\ OneCallMoves(c) /\ (call'[c] # Null => call'[c].op = call[c].op)
  BY Answering DEF ConsoleInv, DeskInv
<1>2. Keeps(HistoryOps) /\ Keeps(WizardOps)
  BY <1>1, OneCallKeeps
<1>3. DeskInv' /\ RegistryGrows
  BY <1>1, NothingGrows DEF ConsoleInv, DeskInv, RegistryShaped
<1>4. CheckedInv'
  BY <1>1, <1>3, OneCallSeen, NobodyChecks
<1> QED BY <1>2, <1>3, <1>4, Unserved

\* An answer to the history page.
LEMMA AnsweringHistory ==
  ASSUME ConsoleInv, NEW c \in Call, call[c] # Null, call[c].op \in HistoryOps,
         NEW a, Answer(c, a), RegistryShaped', RegistryGrows, UNCHANGED <<row, pages>>,
         call[c].op = "history" => ListFits(a),
         call[c].op = "publication" =>
           /\ a.id = call[c].subject
           /\ call[c].input = "revoked" => a.status # "ACTIVE",
         call[c].op = "revoke" /\ a = "done" => registry'[call[c].subject].status = "REVOKED"
  PROVE  ConsoleInv'
<1>1. /\ CallsShaped' /\ OneCallMoves(c)
      /\ call'[c] # Null =>
           /\ call'[c].op = call[c].op /\ call'[c].subject = call[c].subject
           /\ call'[c].input = call[c].input /\ call'[c].answer = a
  BY Answering DEF ConsoleInv, DeskInv
<1>2. DeskInv'
  BY <1>1 DEF ConsoleInv, DeskInv, RowsShaped
<1>3. Keeps(WizardOps)
  BY <1>1, OneCallKeeps DEF HistoryOps, WizardOps
<1>4. WizardInv'
  BY <1>3, WizardStays DEF ConsoleInv, pages
<1>5. ASSUME NEW d \in Call PROVE ListCall(d)' /\ DrawerCall(d)'
  <2>1. ListCall(d) /\ DrawerCall(d)
    BY DEF ConsoleInv, HistoryPageInv, ListCalls, DrawerCalls
  <2>2. ListCall(d)'
    BY <1>1, <2>1 DEF ListCall, OneCallMoves, HistoryOpen, ListFits, pages
  <2>3. DrawerCall(d)'
    BY <1>1, <2>1 DEF DrawerCall, OneCallMoves, HistoryOpen, RegistryGrows, Gone, pages
  <2> QED BY <2>2, <2>3
<1>6. DrawerInv' /\ IsList(list') /\ (Settled' => ListFits(list.shown)')
  BY DEF ConsoleInv, HistoryPageInv, DrawerInv, Settled, ListFits, HistoryOpen, RegistryGrows,
         pages
<1>7. CheckedInv'
  BY <1>1, OneCallSeen, NobodyChecks, RowsRest DEF ConsoleInv, DeskInv
<1> QED BY <1>2, <1>4, <1>5, <1>6, <1>7 DEF ConsoleInv, HistoryPageInv, ListCalls, DrawerCalls

\* A handler reads, and goes on or answers that it will not.
LEMMA Checking ==
  ASSUME ConsoleInv, NEW c \in Call, call[c] # Null, NEW read, NEW admitted,
         Check(c, read, admitted), UNCHANGED pages,
         call[c].op \notin WizardOps \cup {"history", "publication"},
         admitted =>
           /\ call[c].op = "revoke" => Made(call[c].subject)
           /\ call[c].op \in RuleOps => read # "RETIRED" /\ call[c].subject \in Revision
           /\ call[c].op = "update" => IsRuleOf(call[c].input.id, call[c].subject)
           /\ call[c].op = "remove" => IsRuleOf(call[c].input, call[c].subject)
  PROVE  ConsoleInv'
<1>0. CallsShaped /\ RegistryShaped /\ RowsShaped /\ IsCall(call[c]) /\ UNCHANGED deskVars
  BY DEF ConsoleInv, DeskInv, CallsShaped, Check
<1>1. CASE ~admitted
  <2>1. Answer(c, "refused") /\ RowsShaped' /\ RowsStay /\ UNCHANGED <<registry, row>>
    BY <1>0, <1>1, RowsRest DEF Check, deskVars
  <2>2. CASE call[c].op = "revoke"
    <3>1. RegistryShaped' /\ RegistryGrows
      BY <1>0, <2>1, NothingGrows DEF RegistryShaped
    <3> QED BY <2>1, <2>2, <3>1, AnsweringHistory DEF HistoryOps
  <2>3. CASE call[c].op # "revoke"
    BY <2>1, <2>3, AnsweringOthers DEF HistoryOps
  <2> QED BY <2>2, <2>3
<1>2. CASE admitted
  <2>1. call' = [call EXCEPT ![c] = [call[c] EXCEPT !.seen = read]]
    BY <1>0, <1>2 DEF CallsShaped, Check
  <2>2. [call[c] EXCEPT !.seen = read] =
          [op |-> call[c].op, subject |-> call[c].subject, input |-> call[c].input,
           state |-> call[c].state, answer |-> call[c].answer, seen |-> read]
    BY <1>0, Z3 DEF IsCall
  <2>3. /\ CallsShaped'
        /\ call'[c].op = call[c].op /\ call'[c].subject = call[c].subject
        /\ call'[c].input = call[c].input /\ call'[c].state = call[c].state
        /\ call'[c].answer = call[c].answer /\ call'[c].seen = read
        /\ \A d \in Call \ {c} : call'[d] = call[d]
    BY <1>0, <2>1, <2>2 DEF CallsShaped, IsCall
  <2>4. DeskInv' /\ RegistryGrows
    BY <1>0, <2>3, NothingGrows DEF DeskInv, RegistryShaped, RowsShaped, deskVars
  <2>5. Keeps(HistoryOps) /\ Keeps(WizardOps)
    BY <2>3 DEF Keeps
  <2>6. ASSUME NEW d \in Call PROVE CheckedCall(d)'
    <3>1. CASE d = c
      BY <1>0, <1>2, <2>3, <3>1 DEF CheckedCall, Made, IsRuleOf, Stored, deskVars
    <3>2. CASE d # c
      BY <1>0, <2>3, <3>2
         DEF ConsoleInv, CheckedInv, CheckedCall, Made, IsRuleOf, Stored, deskVars
    <3> QED BY <3>1, <3>2
  <2> QED BY <2>4, <2>5, <2>6, Unserved DEF CheckedInv
<1> QED BY <1>1, <1>2

LEMMA ServeCallKeeps ==
  ASSUME ConsoleInv, NEW c \in Call, ServeCall(c), UNCHANGED pages
  PROVE  ConsoleInv'
<1>0. CallsShaped /\ RegistryShaped /\ RowsShaped
  BY DEF ConsoleInv, DeskInv
<1>1. ASSUME call[c] # Null, call[c].op \notin HistoryOps \cup WizardOps, NEW a, Answer(c, a),
             UNCHANGED <<registry, row>>
      PROVE  ConsoleInv'
  BY <1>0, <1>1, RowsRest, AnsweringOthers
<1>2. CASE ListRules(c) \/ ListRevisions(c)
  BY <1>1, <1>2 DEF ListRules, ListRevisions, Sent, HistoryOps, WizardOps, deskVars
<1>3. CASE CheckUpdate(c) \/ CheckRemove(c)
  <2>1. ASSUME NEW op \in {"update", "remove"}, NEW i, CheckRule(c, op, i),
               op = "update" => i = call[c].input.id, op = "remove" => i = call[c].input
        PROVE  ConsoleInv'
    <3>1. /\ call[c] # Null /\ call[c].op = op
          /\ Check(c, status[call[c].subject],
                   Mutable(call[c].subject) /\ Finds(i, call[c].subject))
      BY <2>1 DEF CheckRule, Fresh, Sent
    <3> QED BY <2>1, <3>1, Checking DEF Finds, Mutable, WizardOps, RuleOps
  <2> QED BY <1>3, <2>1 DEF CheckUpdate, CheckRemove
<1>4. CASE CheckCreate(c)
  <2>1. /\ call[c] # Null /\ call[c].op = "create"
        /\ Check(c, status[call[c].subject], Mutable(call[c].subject))
    BY <1>4 DEF CheckCreate, Fresh, Sent
  <2> QED BY <2>1, Checking DEF Mutable, WizardOps, RuleOps
<1>5. CASE CheckMove(c)
  <2>1. /\ call[c] # Null /\ call[c].op = "move"
        /\ Check(c, status[call[c].subject],
                 call[c].input \in Follows[status[call[c].subject]])
    BY <1>5 DEF CheckMove, Fresh, Sent
  <2> QED BY <2>1, Checking DEF WizardOps, RuleOps
<1>6. CASE CheckRevoke(c)
  <2>1. /\ call[c] # Null /\ call[c].op = "revoke"
        /\ Check(c, registry[call[c].subject].status, Active(call[c].subject))
    BY <1>6 DEF CheckRevoke, Fresh, Sent
  <2> QED BY <2>1, Checking DEF Active, Made, WizardOps, RuleOps
\* The writes.
<1>13. ASSUME NEW op \in RuleOps \cup {"move"}, Checked(c, op), NEW a, Answer(c, a),
              UNCHANGED registry, RowsShaped', RowsStay
       PROVE  ConsoleInv'
  BY <1>13, AnsweringOthers DEF Checked, Sent, RuleOps, HistoryOps, WizardOps
<1>14. CASE UpdateRule(c)
  <2> DEFINE i == call[c].input.id
  <2>1. CASE ~Stored(i)
    BY <1>0, <1>13, <1>14, <2>1, RowsRest DEF UpdateRule, RuleOps
  <2>2. CASE Stored(i)
    <3> DEFINE new == Merged(row[i].rule, call[c].input.patch)
    <3>1. row' = [row EXCEPT ![i].rule = new]
      BY <1>14, <2>2 DEF UpdateRule
    <3> HIDE DEF new
    <3>2. RowsShaped' /\ RowsStay
      BY <1>0, <2>2, <3>1, ChangingRule
    <3> QED BY <1>13, <1>14, <2>2, <3>2 DEF UpdateRule, RuleOps
  <2> QED BY <2>1, <2>2
<1>15. CASE RemoveRule(c)
  <2>1. CASE ~Stored(call[c].input)
    BY <1>0, <1>13, <1>15, <2>1, RowsRest DEF RemoveRule, RuleOps
  <2>2. CASE Stored(call[c].input)
    <3>1. RowsShaped' /\ RowsStay
      BY <1>0, <1>15, <2>2 DEF RemoveRule, RowsShaped, RowsStay, IsRow, Deleted
    <3> QED BY <1>13, <1>15, <2>2, <3>1 DEF RemoveRule, RuleOps
  <2> QED BY <2>1, <2>2
<1>16. CASE CreateRule(c)
  <2> DEFINE r == call[c].subject
             new == Merged(NoScope, call[c].input.patch)
  <2>1. r \in Revision
    BY <1>16 DEF CreateRule, Checked, Sent, ConsoleInv, CheckedInv, CheckedCall, RuleOps
  <2>2. PICK i \in Row : row[i] = Unused /\ row' = [row EXCEPT ![i] = [of |-> r, rule |-> new]]
    BY <1>16 DEF CreateRule
  <2> HIDE DEF r, new
  <2>3. RowsShaped' /\ RowsStay
    BY <1>0, <2>1, <2>2 DEF RowsShaped, RowsStay, IsRow
  <2> QED BY <1>13, <1>16, <2>3 DEF CreateRule, RuleOps
<1>17. CASE MoveRevision(c)
  BY <1>0, <1>13, <1>17, RowsRest DEF MoveRevision
<1>7. CASE ReadForPreview(c)
  <2> DEFINE a == [status |-> status[call[c].subject], rules |-> RulesOf(call[c].subject)]
             w == [call[c] EXCEPT !.state = "read"]
  <2>1. call[c] # Null /\ call[c].op = "preview" /\ UNCHANGED deskVars
    BY <1>7 DEF ReadForPreview, Has
  <2>2. call' = [call EXCEPT ![c] = [w EXCEPT !.answer = a]]
    BY <1>0, <1>7 DEF ReadForPreview, CallsShaped
  <2>3. w = [op |-> call[c].op, subject |-> call[c].subject, input |-> call[c].input,
             state |-> "read", answer |-> call[c].answer,
             seen |-> call[c].seen]
    BY <1>0, <2>1, Z3 DEF CallsShaped, IsCall
  <2> HIDE DEF a, w
  <2>4. [w EXCEPT !.answer = a] =
          [op |-> call[c].op, subject |-> call[c].subject, input |-> call[c].input,
           state |-> "read", answer |-> a,
           seen |-> call[c].seen]
    BY <2>3, Z3
  <2>5. /\ CallsShaped' /\ OneCallMoves(c) /\ call'[c].op = "preview"
        /\ call'[c].subject = call[c].subject /\ call'[c].state = "read"
    BY <1>0, <2>1, <2>2, <2>4 DEF CallsShaped, IsCall, OneCallMoves, SeenRests, RuleOps
  <2>6. DeskInv' /\ RegistryGrows
    BY <1>0, <2>1, <2>5, NothingGrows DEF DeskInv, RegistryShaped, RowsShaped, deskVars
  <2>7. HistoryPageInv'
    BY <2>5, <2>6, OneCallKeeps, HistoryStays DEF HistoryOps, ConsoleInv, pages
  <2>8. WizardCallsInv'
    BY <2>1, <2>5, <2>6, PreviewStays
       DEF ConsoleInv, WizardInv, WizardCallsInv, OneCallMoves, WizardOpen, pages
  <2>9. WizardInv'
    BY <2>6, <2>8, PreviewStays DEF ConsoleInv, WizardInv, pages
  <2>10. CheckedInv'
    BY <1>0, <2>1, <2>5, <2>6, OneCallSeen, RowsRest, NobodyChecks DEF deskVars
  <2> QED BY <2>6, <2>7, <2>9, <2>10 DEF ConsoleInv
<1>8. CASE AnswerPreview(c)
  <2> DEFINE r == call[c].subject
             newRules == call[c].answer.rules
             found == {[id |-> p, reason |-> IF registry[p].revision = r
                                               THEN "ALREADY_PUBLISHED" ELSE "CONFLICT"] :
                         p \in Conflicting(r, newRules)}
             a == [canPublish |-> call[c].answer.status = "APPROVED" /\ found = {},
                   rules |-> newRules, conflicts |-> found,
                   active |-> {p \in PubId : Active(p)}]
  <2>1. call[c] # Null /\ call[c].op = "preview" /\ UNCHANGED deskVars /\ Answer(c, a)
    BY <1>8 DEF AnswerPreview, Has
  <2>2. PreviewFits(r, a)
    <3>1. found = {} => Conflicting(r, newRules) = {}
      OBVIOUS
    <3>2. a.rules = newRules /\ a.conflicts = found /\ a.active = {p \in PubId : Active(p)}
      OBVIOUS
    <3> HIDE DEF a, found
    <3> QED BY <3>1, <3>2 DEF PreviewFits, Conflicting, Active, Made
  <2> HIDE DEF a
  <2>3. /\ CallsShaped' /\ OneCallMoves(c)
        /\ call'[c] # Null =>
             /\ call'[c].op = "preview" /\ call'[c].subject = r /\ call'[c].answer = a
    BY <1>0, <2>1, Answering
  <2>4. DeskInv' /\ RegistryGrows
    BY <1>0, <2>1, <2>3, NothingGrows DEF DeskInv, RegistryShaped, RowsShaped, deskVars
  <2>5. HistoryPageInv'
    BY <2>3, <2>4, OneCallKeeps, HistoryStays DEF HistoryOps, ConsoleInv, pages
  <2>6. WizardCallsInv'
    BY <2>1, <2>2, <2>3, <2>4, PreviewStays
       DEF ConsoleInv, WizardInv, WizardCallsInv, OneCallMoves, WizardOpen, pages
  <2>7. WizardInv'
    BY <2>4, <2>6, PreviewStays DEF ConsoleInv, WizardInv, pages
  <2>8. CheckedInv'
    BY <1>0, <2>1, <2>3, <2>4, OneCallSeen, RowsRest, NobodyChecks DEF deskVars
  <2> QED BY <2>4, <2>5, <2>7, <2>8 DEF ConsoleInv
<1>9. CASE PublishRevision(c)
  <2>1. /\ call[c] # Null /\ call[c].op = "publish" /\ UNCHANGED <<row, status>>
        /\ \E a : Answer(c, a)
        /\ \/ \E p \in PubId : \E r, newRules : Publish(p, r, newRules)
           \/ UNCHANGED registry
    BY <1>9 DEF PublishRevision, Sent
  <2>2. /\ CallsShaped' /\ OneCallMoves(c)
        /\ call'[c] # Null => /\ call'[c].op = "publish" /\ call'[c].subject = call[c].subject
                              /\ call'[c].input = call[c].input
    BY <1>0, <2>1, Answering
  <2>3. RegistryShaped' /\ RegistryGrows
    BY <1>0, <2>1, PublishGrows, NothingGrows DEF RegistryShaped
  <2>4. DeskInv'
    BY <1>0, <2>1, <2>2, <2>3 DEF DeskInv, RowsShaped
  <2>5. HistoryPageInv'
    BY <2>2, <2>3, OneCallKeeps, HistoryStays DEF HistoryOps, ConsoleInv, pages
  <2>6. WizardAsks /\ WizardRests
    BY <2>1, <2>2, OneCallAsks DEF ConsoleInv, WizardInv, WizardRests, WizardLike, pages
  <2>7. WizardInv'
    BY <2>3, <2>6, RestingWizard DEF ConsoleInv
  <2>8. CheckedInv'
    BY <1>0, <2>1, <2>2, <2>3, OneCallSeen, RowsRest, NobodyChecks
  <2> QED BY <2>4, <2>5, <2>7, <2>8 DEF ConsoleInv
<1>10. CASE RevokePublication(c)
  <2> DEFINE p == call[c].subject
  <2>1. /\ call[c] # Null /\ call[c].op = "revoke" /\ call[c].seen # Null
        /\ UNCHANGED <<row, status>> /\ Answer(c, "done")
        /\ IF Active(p) THEN Revoke(p) ELSE UNCHANGED registry
    BY <1>10 DEF RevokePublication, Checked, Sent
  <2>2. p \in PubId /\ Made(p)
    BY <2>1 DEF ConsoleInv, CheckedInv, CheckedCall, HistoryPageInv, DrawerCalls, DrawerCall
  <2>3. CASE Active(p)
    <3>1. \A q \in PubId :
            Revoke(q) => RegistryShaped' /\ RegistryGrows /\ registry'[q].status = "REVOKED"
      BY <1>0, RevokeGrows DEF Gone
    <3>2. RegistryShaped' /\ RegistryGrows /\ registry'[p].status = "REVOKED"
      BY <2>1, <2>2, <2>3, <3>1
    <3> QED BY <2>1, <3>2, AnsweringHistory DEF HistoryOps
  <2>4. CASE ~Active(p)
    <3>1. RegistryShaped' /\ RegistryGrows /\ UNCHANGED registry
      BY <1>0, <2>1, <2>4, NothingGrows DEF RegistryShaped
    <3>2. registry'[p].status = "REVOKED"
      BY <1>0, <2>2, <2>4, <3>1 DEF RegistryShaped, IsPublication, Active, Made
    <3> QED BY <2>1, <3>1, <3>2, AnsweringHistory DEF HistoryOps
  <2> QED BY <2>3, <2>4
<1>11. CASE GetPublication(c)
  <2> DEFINE p == call[c].subject
  <2>1. /\ call[c] # Null /\ call[c].op = "publication" /\ UNCHANGED deskVars
        /\ Answer(c, Shown(p))
    BY <1>11 DEF GetPublication, Sent
  <2>2. call[c].input = "revoked" => Gone(p)
    BY <2>1 DEF ConsoleInv, HistoryPageInv, DrawerCalls, DrawerCall
  <2>3. Shown(p).id = p /\ (Gone(p) => Shown(p).status # "ACTIVE")
    BY DEF Shown, Gone
  <2>4. RegistryShaped' /\ RegistryGrows
    BY <1>0, <2>1, NothingGrows DEF RegistryShaped, deskVars
  <2> QED BY <2>1, <2>2, <2>3, <2>4, AnsweringHistory DEF HistoryOps, deskVars
<1>12. CASE ListPublications(c)
  <2> DEFINE items == {Shown(p) : p \in {q \in PubId : Matches(q, call[c].subject)}}
             a == [page |-> call[c].input, items |-> items]
  <2>1. /\ call[c] # Null /\ call[c].op = "history" /\ UNCHANGED deskVars /\ Answer(c, a)
    BY <1>12 DEF ListPublications, Sent
  <2>2. ListFits(a)
    <3>1. call[c].subject = list.filter /\ call[c].input = list.page
      BY <2>1 DEF ConsoleInv, HistoryPageInv, ListCalls, ListCall
    <3>2. ASSUME NEW p \in PubId, Matches(p, list.filter)
          PROVE  /\ list.filter.key \in {Null, Shown(p).key}
                 /\ list.filter.status \in {Null, Shown(p).status}
                 /\ Shown(p).id \in detail.reported => Shown(p).status # "ACTIVE"
      BY <3>2 DEF Matches, Shown, ConsoleInv, HistoryPageInv, DrawerInv, Gone
    <3> QED BY <3>1, <3>2 DEF ListFits
  <2> HIDE DEF a
  <2>3. RegistryShaped' /\ RegistryGrows
    BY <1>0, <2>1, NothingGrows DEF RegistryShaped, deskVars
  <2> QED BY <2>1, <2>2, <2>3, AnsweringHistory DEF HistoryOps, deskVars
<1> QED
  BY <1>2, <1>3, <1>4, <1>5, <1>6, <1>7, <1>8, <1>9, <1>10, <1>11, <1>12, <1>14, <1>15, <1>16,
     <1>17
     DEF ServeCall

LEMMA BreakingKeeps ==
  ASSUME ConsoleInv, NEW c \in Call, BreakConnection(c), UNCHANGED pages
  PROVE  ConsoleInv'
<1>1. CallsShaped /\ call[c] # Null /\ IsCall(call[c]) /\ UNCHANGED deskVars
  BY DEF ConsoleInv, DeskInv, CallsShaped, BreakConnection
<1>2. [call[c] EXCEPT !.state = "failed"] =
        [op |-> call[c].op, subject |-> call[c].subject, input |-> call[c].input,
         state |-> "failed", answer |-> call[c].answer,
         seen |-> call[c].seen]
  BY <1>1, Z3 DEF IsCall
<1>3. call' = [call EXCEPT ![c] = [call[c] EXCEPT !.state = "failed"]]
  BY <1>1 DEF BreakConnection, CallsShaped
<1>4. /\ CallsShaped' /\ OneCallMoves(c) /\ call'[c].op = call[c].op
      /\ call'[c].subject = call[c].subject /\ call'[c].input = call[c].input
      /\ call'[c].state = "failed"
  BY <1>1, <1>2, <1>3 DEF CallsShaped, IsCall, OneCallMoves, SeenRests
<1>5. DeskInv' /\ RegistryGrows
  BY <1>1, <1>4, NothingGrows DEF ConsoleInv, DeskInv, RegistryShaped, RowsShaped, deskVars
<1>6. Keeps(HistoryOps) /\ Keeps(WizardOps)
  BY <1>1, <1>4 DEF Keeps, OneCallMoves
<1>7. CheckedInv'
  BY <1>1, <1>4, <1>5, OneCallSeen, RowsRest, NobodyChecks DEF ConsoleInv, DeskInv, deskVars
<1> QED BY <1>5, <1>6, <1>7, Unserved

LEMMA DroppingKeeps ==
  ASSUME ConsoleInv, NEW c \in Call, DropLeft(c), UNCHANGED pages
  PROVE  ConsoleInv'
<1>1. UNCHANGED deskVars /\ CallsShaped' /\ OneCallMoves(c) /\ call'[c] = Null
  BY Forgetting DEF ConsoleInv, DeskInv, DropLeft
<1>2. DeskInv' /\ RegistryGrows
  BY <1>1, NothingGrows DEF ConsoleInv, DeskInv, RegistryShaped, RowsShaped, deskVars
<1>3. Keeps(HistoryOps) /\ Keeps(WizardOps)
  BY <1>1, OneCallKeeps
<1>4. CheckedInv'
  BY <1>1, <1>2, OneCallSeen, RowsRest, NobodyChecks DEF ConsoleInv, DeskInv, deskVars
<1> QED BY <1>2, <1>3, <1>4, Unserved

LEMMA OthersKeep ==
  ASSUME ConsoleInv, OthersStep, UNCHANGED pages
  PROVE  ConsoleInv'
<1>1. CallsShaped' /\ Keeps(HistoryOps) /\ Keeps(WizardOps) /\ AllSeenRests
  BY CallsStayKeeps DEF OthersStep, ConsoleInv, DeskInv, CallsShaped
<1>2. RegistryShaped' /\ RegistryGrows /\ RowsShaped' /\ RowsStay
  <2> DEFINE Grown == RegistryShaped' /\ RegistryGrows /\ RowsShaped' /\ RowsStay
  <2>0. RegistryShaped /\ RowsShaped
    BY DEF ConsoleInv, DeskInv
  <2>1. ASSUME NEW r \in Revision, OthersPublish(r) PROVE Grown
    BY <2>0, <2>1, PublishGrows, RowsRest DEF OthersPublish
  <2>2. ASSUME NEW r \in Revision, OthersMove(r) PROVE Grown
    BY <2>0, <2>2, NothingGrows, RowsRest DEF OthersMove, RegistryShaped
  <2>3. ASSUME NEW p \in PubId, OthersRevoke(p) PROVE Grown
    BY <2>0, <2>3, RevokeGrows, RowsRest DEF OthersRevoke
  <2>4. ASSUME NEW i \in Row, NEW rule, OthersEdit(i, rule) PROVE Grown
    BY <2>0, <2>4, NothingGrows, ChangingRule DEF OthersEdit, RegistryShaped
  <2> QED BY <2>1, <2>2, <2>3, <2>4 DEF OthersStep
<1>3. CheckedInv'
  BY <1>1, <1>2, NobodyChecks
<1> QED BY <1>1, <1>2, <1>3, Unserved DEF DeskInv

\* The pages change nothing but by their requests.
LEMMA PagesLeaveTheApi == PageStep => UNCHANGED deskVars
<1>1. WizardStep => UNCHANGED deskVars
  BY DEF WizardStep, WizardHears, LeaveWizard, OpenWizard, GoTo, RetryPreview, Confirm,
         WizardLoaded, WizardNotLoaded, PreviewArrives, PreviewFails, PublishAnswered,
         PublishFailed
<1>2. HistoryStep => UNCHANGED deskVars
  BY DEF HistoryStep, HistoryHears, CloseDetail, AskToRevoke, CloseConfirmation, OpenHistory,
         ChooseFilter, ChoosePage, OpenDetail, ConfirmRevoke, ListArrives, ListFails,
         DetailArrives, DetailFails, RevokeDone, RevokeShown, RevokeReportedFailed
<1>3. TabStep => UNCHANGED deskVars
  BY DEF TabStep, UseTab, TabHears, OpenTab, SelectRevision, RulesArrive, RulesFail,
         ChooseProduct, ChooseField, OpenForm, AskToDelete, CloseForm, CloseDialog,
         SubmitForm, FormSaved, FormFailed, DeleteRule, RuleDeleted, DeletionFailed
<1>4. DocumentStep => UNCHANGED deskVars
  BY DEF DocumentStep, DocumentHears, CloseDocument, OpenDocument, DocumentArrives,
         DocumentFails, StartMove, MoveDone, MoveFailed
<1> QED BY <1>1, <1>2, <1>3, <1>4 DEF PageStep

LEMMA PageStepKeeps == ConsoleInv /\ PageStep => ConsoleInv'
<1> SUFFICES ASSUME ConsoleInv, PageStep PROVE ConsoleInv'
  OBVIOUS
<1>0. DeskInv /\ CheckedInv /\ HistoryPageInv /\ WizardInv
  BY DEF ConsoleInv
<1>6. RowsStay
  BY <1>0, PagesLeaveTheApi, RowsRest DEF DeskInv, deskVars
<1>1. CASE WizardStep /\ InWizard
  <2>1. Tame(HistoryOps) /\ WizardInv'
    BY <1>0, <1>1, WizardStepKeeps
  <2> QED BY <1>0, <1>1, <1>6, <2>1, CheckedStays, HistoryStays DEF ConsoleInv, Tame, InWizard
<1>2. CASE HistoryStep /\ InHistory
  <2>1. Tame(WizardOps) /\ HistoryPageInv'
    BY <1>0, <1>2, HistoryStepKeeps
  <2> QED BY <1>0, <1>2, <1>6, <2>1, CheckedStays, WizardStays DEF ConsoleInv, Tame, InHistory
<1>3. ASSUME Tame(HistoryOps \cup WizardOps), UNCHANGED <<wizard, list, detail>>
      PROVE  ConsoleInv'
  <2>1. DeskInv' /\ RegistryGrows /\ AllSeenRests /\ Keeps(HistoryOps) /\ Keeps(WizardOps)
    BY <1>3 DEF Tame, Keeps
  <2> QED BY <1>0, <1>3, <1>6, <2>1, CheckedStays, HistoryStays, WizardStays DEF ConsoleInv
<1>4. CASE TabStep /\ InTab
  BY <1>0, <1>3, <1>4, TabIsTame DEF InTab
<1>5. CASE DocumentStep /\ InDocument
  BY <1>0, <1>3, <1>5, DocumentIsTame DEF InDocument
<1> QED BY <1>1, <1>2, <1>4, <1>5 DEF PageStep

LEMMA ConsoleInvStep == ConsoleInv /\ [ConsoleNext]_consoleVars => ConsoleInv'
<1> SUFFICES ASSUME ConsoleInv, [ConsoleNext]_consoleVars PROVE ConsoleInv'
  OBVIOUS
<1>1. ASSUME NEW c \in Call, ApiStep(c) PROVE ConsoleInv'
  BY <1>1, ServeCallKeeps, BreakingKeeps, DroppingKeeps DEF ApiStep
<1>2. CASE UNCHANGED consoleVars
  <2>1. UNCHANGED <<deskVars, call, pages>>
    BY <1>2 DEF consoleVars
  <2>2. Tame(HistoryOps) /\ Tame(WizardOps)
    BY <2>1, SilentStep DEF ConsoleInv
  <2>3. CheckedInv'
    BY <2>1, <2>2, RowsRest, NobodyChecks DEF Tame, ConsoleInv, DeskInv, deskVars
  <2> QED BY <2>1, <2>2, <2>3, Unserved DEF Tame
<1> QED BY <1>1, <1>2, PageStepKeeps, OthersKeep DEF ConsoleNext

THEOREM ConsoleInvHolds == ConsoleSpec => []ConsoleInv
  BY InitConsoleInv, ConsoleInvStep, PTL DEF ConsoleSpec

----------------------------------------------------------------------------
\* What follows

\* The table is the answer to the filter and the page chosen last, for any
\* number of requests answered in any order.
THEOREM TheListAnswersLatest == ConsoleSpec => []ListAnswersLatest
<1>1. ConsoleInv => ListAnswersLatest
  BY DEF ConsoleInv, HistoryPageInv, ListFits, ListAnswersLatest
<1> QED BY <1>1, ConsoleInvHolds, PTL

\* Whatever answers come late, what is revoked is what the drawer was opened for.
THEOREM TheOpenedIsRevoked == ConsoleSpec => []RevokesWhatWasOpened
<1>1. ConsoleInv => RevokesWhatWasOpened
  BY DEF ConsoleInv, HistoryPageInv, DrawerCalls, DrawerCall, RevokesWhatWasOpened, Sent
<1> QED BY <1>1, ConsoleInvHolds, PTL

\* A publication reported as revoked is not listed as ACTIVE once the list has
\* settled.
THEOREM TheReportedIsListed == ConsoleSpec => []ReportedIsListed
<1>1. ConsoleInv => ReportedIsListed
  BY DEF ConsoleInv, HistoryPageInv, ListFits, ReportedIsListed
<1> QED BY <1>1, ConsoleInvHolds, PTL

\* A confirmation the wizard allowed is refused only for something that was not
\* so when the API made the preview the user confirmed.
THEOREM ConfirmationsAreRefusedForNews == ConsoleSpec => []RefusedForNews
<1>1. ConsoleInv => RefusedForNews
  <2> SUFFICES ASSUME ConsoleInv, NEW c \in Call, Sent(c, "publish"),
                      status[call[c].subject] = "APPROVED",
                      RulesOf(call[c].subject) = call[c].input.rules,
                      \A p \in PubId : Active(p) => p \in call[c].input.active
               PROVE  MayPublish(call[c].subject)
    BY DEF RefusedForNews
  <2>1. call[c].input.conflicts = {} /\ PreviewFits(call[c].subject, call[c].input)
    BY DEF ConsoleInv, WizardInv, WizardCallsInv, Sent
  <2>2. Conflicting(call[c].subject, RulesOf(call[c].subject)) = {}
    BY <2>1 DEF PreviewFits, Conflicting
  <2> QED BY <2>2 DEF MayPublish
<1> QED BY <1>1, ConsoleInvHolds, PTL

\* What changes a rule of a retired revision is a request for that revision whose
\* handler had passed its check before, under whatever revision the table shows
\* the rule.
THEOREM RetiredRulesAreChangedInFlight == ConsoleSpec => RetiredRulesChangeOnlyInFlight
<1> DEFINE ByCall(r) ==
             \E c \in Call :
               /\ IsFor(c, {"update", "create", "remove"}) /\ call'[c] # call[c]
               /\ call[c].subject = r /\ call[c].seen \notin {Null, "RETIRED"}
           InFlight ==
             \A i \in Row, r \in Revision :
               /\ status[r] = "RETIRED" /\ row'[i] # row[i]
               /\ IsRuleOf(i, r) \/ IsRuleOf(i, r)'
               => ByCall(r)
<1>1. ConsoleInv /\ [ConsoleNext]_consoleVars => [InFlight]_row
  <2> SUFFICES ASSUME ConsoleInv, ConsoleNext, row' # row,
                      NEW i \in Row, NEW r \in Revision, status[r] = "RETIRED",
                      row'[i] # row[i], IsRuleOf(i, r) \/ IsRuleOf(i, r)'
               PROVE  ByCall(r)
    BY DEF consoleVars, deskVars
  <2>0. RowsShaped /\ CallsShaped
    BY DEF ConsoleInv, DeskInv
  <2>1. ASSUME NEW c \in Call, NEW op \in RuleOps, Checked(c, op), NEW a, Answer(c, a),
               call[c].subject = r
        PROVE  ByCall(r)
    <3>1. call[c] # Null /\ call[c].op = op /\ call[c].seen \notin {Null, "RETIRED"}
      BY <2>1 DEF Checked, Sent, ConsoleInv, CheckedInv, CheckedCall
    <3>2. call'[c] # call[c]
      <4>1. call'[c] # Null => call'[c].state = "answered"
        BY <2>0, <2>1, <3>1, Answering
      <4> QED BY <2>1, <3>1, <4>1 DEF Checked, Sent
    <3> QED BY <2>1, <3>1, <3>2 DEF IsFor, RuleOps
  <2>2. ASSUME NEW c \in Call, ServeCall(c) PROVE ByCall(r)
    <3> HIDE DEF ByCall
    <3>1. CASE UpdateRule(c)
      <4> DEFINE j == call[c].input.id
                 new == Merged(row[j].rule, call[c].input.patch)
      <4>1. /\ Checked(c, "update") /\ Stored(j) /\ Answer(c, "done")
            /\ row' = [row EXCEPT ![j].rule = new]
        BY <3>1 DEF UpdateRule
      <4> HIDE DEF new
      <4>2. i = j /\ row'[i].of = row[i].of
        BY <2>0, <4>1, ChangingRule
      <4>3. IsRuleOf(i, call[c].subject) \/ row[i] = Deleted
        BY <4>1, <4>2 DEF Checked, Sent, ConsoleInv, CheckedInv, CheckedCall
      <4>4. call[c].subject = r
        BY <4>1, <4>2, <4>3 DEF IsRuleOf, Stored, Deleted
      <4> QED BY <2>1, <4>1, <4>4 DEF RuleOps
    <3>2. CASE RemoveRule(c)
      <4>1. /\ Checked(c, "remove") /\ Stored(call[c].input) /\ Answer(c, "done")
            /\ row' = [row EXCEPT ![call[c].input] = Deleted]
        BY <3>2 DEF RemoveRule
      <4>2. i = call[c].input /\ row'[i] = Deleted
        BY <2>0, <4>1 DEF RowsShaped
      <4>3. IsRuleOf(i, r) /\ row[i] # Deleted
        BY <4>1, <4>2 DEF IsRuleOf, Stored, Deleted
      <4>4. call[c].subject = r
        BY <4>1, <4>2, <4>3 DEF IsRuleOf, Checked, Sent, ConsoleInv, CheckedInv, CheckedCall
      <4> QED BY <2>1, <4>1, <4>4 DEF RuleOps
    <3>3. CASE CreateRule(c)
      <4> DEFINE new == Merged(NoScope, call[c].input.patch)
      <4>1. Checked(c, "create") /\ Answer(c, "done")
        BY <3>3 DEF CreateRule
      <4>2. PICK j \in Row : /\ row[j] = Unused
                            /\ row' = [row EXCEPT ![j] = [of |-> call[c].subject, rule |-> new]]
        BY <3>3 DEF CreateRule
      <4> HIDE DEF new
      <4>3. i = j /\ row'[i].of = call[c].subject
        BY <2>0, <4>2 DEF RowsShaped
      <4>4. call[c].subject = r
        BY <4>2, <4>3 DEF IsRuleOf, Stored, Unused
      <4> QED BY <2>1, <4>1, <4>4 DEF RuleOps
    <3>4. CASE UNCHANGED row
      BY <3>4
    <3> QED
      BY <2>2, <3>1, <3>2, <3>3, <3>4
         DEF ServeCall, CheckUpdate, CheckRemove, CheckCreate, CheckRule, CheckMove, CheckRevoke,
             Check, ListRules, ListRevisions, MoveRevision, ReadForPreview, AnswerPreview,
             PublishRevision, RevokePublication, GetPublication, ListPublications, deskVars
  <2>3. ASSUME NEW c \in Call, ApiStep(c) PROVE ByCall(r)
    BY <2>2, <2>3 DEF ApiStep, BreakConnection, DropLeft, deskVars
  <2>4. CASE OthersStep
    <3>1. PICK j \in Row, rule \in RulePool : OthersEdit(j, rule)
      BY <2>4 DEF OthersStep, OthersPublish, OthersMove, OthersRevoke
    <3>2. /\ Stored(j) /\ Mutable(row[j].of) /\ row' = [row EXCEPT ![j].rule = rule]
      BY <3>1 DEF OthersEdit
    <3>3. i = j /\ row'[i].of = row[i].of
      BY <2>0, <3>2, ChangingRule
    <3> QED BY <3>2, <3>3 DEF Mutable, IsRuleOf, Stored
  <2>5. CASE PageStep
    BY <2>5, PagesLeaveTheApi DEF deskVars
  <2> QED BY <2>3, <2>4, <2>5 DEF ConsoleNext
<1> HIDE DEF InFlight
<1>2. ConsoleSpec => [][InFlight]_row
  BY <1>1, ConsoleInvHolds, PTL DEF ConsoleSpec
<1> QED BY <1>2 DEF InFlight, RetiredRulesChangeOnlyInFlight
=============================================================================
