------------------------------ MODULE RulesTab ------------------------------
(***************************************************************************)
(* The applicability tab of a document: the rules of the revision selected *)
(* (useApplicabilityData), the form that creates and edits one             *)
(* (RuleFormDrawer, ScopeFields) and the dialog that deletes one           *)
(* (RuleBuilderView).  Answers are taken as they come, whichever revision  *)
(* is selected by then.  The preview next to the rules only decorates them *)
(* and is left out.                                                        *)
(***************************************************************************)
EXTENDS Desk

CONSTANTS
  ShownRevision,   \* the revisions of the document
  FreeValue        \* values the form offers for the fields that stand alone

VARIABLE tab   \* the tab

Closed == [open |-> FALSE, id |-> Null, form |-> NoScope]

\* drawer: the form, for the rule with this id or for a new one.  target: the
\* rule the dialog asks about.
OpenedTab(r) ==
  [revision |-> r, shown |-> {}, drawer |-> Closed, saving |-> FALSE, target |-> Null,
   deleting |-> FALSE]

TabInit == tab = Null

Modal == tab.drawer.open \/ tab.target # Null

ShowsRule(i) == \E entry \in tab.shown : entry.id = i

----------------------------------------------------------------------------
\* The rules of the revision are fetched when the tab opens with the newest one
\* and when one is selected; who selects another meanwhile gets both answers.
OpenTab(r, c) ==
  /\ r \in ShownRevision
  /\ tab' = OpenedTab(r)
  /\ Send(c, Request("rules", r, Null))
  /\ UNCHANGED deskVars

SelectRevision(r, c) ==
  /\ r \in ShownRevision \ {tab.revision} /\ ~Modal
  /\ tab' = [tab EXCEPT !.revision = r]
  /\ Send(c, Request("rules", r, Null))
  /\ UNCHANGED deskVars

RulesArrive(c) ==
  /\ Answered(c, "rules")
  /\ tab' = [tab EXCEPT !.shown = call[c].answer]
  /\ Forget(c)
  /\ UNCHANGED deskVars

RulesFail(c) ==
  /\ Failed(c, "rules")
  /\ Forget(c)
  /\ UNCHANGED <<tab, deskVars>>

----------------------------------------------------------------------------
\* The form

OpenForm(entry) ==
  /\ entry \in tab.shown \cup {[id |-> Null, rule |-> NoScope]} /\ ~Modal
  /\ tab' = [tab EXCEPT !.drawer = [open |-> TRUE, id |-> entry.id, form |-> entry.rule]]
  /\ UNCHANGED <<call, deskVars>>

\* Variants and batches belong to a product: choosing it clears them.
ChooseProduct(p) ==
  /\ tab.drawer.open
  /\ tab' = [tab EXCEPT !.drawer.form =
       [@ EXCEPT !.productId = p, !.variantId = Null, !.batchId = Null]]
  /\ UNCHANGED <<call, deskVars>>

ChooseField(f, value) ==
  /\ tab.drawer.open
  /\ f \in {"variantId", "batchId"} => tab.drawer.form.productId # Null
  /\ tab' = [tab EXCEPT !.drawer.form = [@ EXCEPT ![f] = value]]
  /\ UNCHANGED <<call, deskVars>>

\* Escape and a click beside the drawer close it at any time.
CloseForm ==
  /\ tab.drawer.open
  /\ tab' = [tab EXCEPT !.drawer = Closed]
  /\ UNCHANGED <<call, deskVars>>

\* ruleFormToInput: a blank field is not sent, except the flag.
Input(form) ==
  [f \in {g \in DOMAIN form : form[g] # Null} |-> form[f]]

SubmitForm(c) ==
  /\ tab.drawer.open /\ ~tab.saving
  /\ Send(c, Request(IF tab.drawer.id = Null THEN "create" ELSE "update", tab.revision,
       [id |-> tab.drawer.id, patch |-> Input(tab.drawer.form), form |-> tab.drawer.form]))
  /\ tab' = [tab EXCEPT !.saving = TRUE]
  /\ UNCHANGED deskVars

\* The rules of the revision the form was sent for are fetched again, and
\* whichever form is open by now is closed.
Reload(c) == call' = [call EXCEPT ![c] = Request("rules", @.subject, Null)]

FormSaved(c) ==
  /\ Answered(c, "update") \/ Answered(c, "create")
  /\ IF call[c].answer = "done"
       THEN Reload(c) /\ tab' = [tab EXCEPT !.saving = FALSE, !.drawer = Closed]
       ELSE Forget(c) /\ tab' = [tab EXCEPT !.saving = FALSE]
  /\ UNCHANGED deskVars

FormFailed(c) ==
  /\ Failed(c, "update") \/ Failed(c, "create")
  /\ tab' = [tab EXCEPT !.saving = FALSE]
  /\ LeaveToApi(c)
  /\ UNCHANGED deskVars

----------------------------------------------------------------------------
\* The dialog

AskToDelete(i) ==
  /\ ShowsRule(i) /\ ~Modal
  /\ tab' = [tab EXCEPT !.target = i]
  /\ UNCHANGED <<call, deskVars>>

CloseDialog ==
  /\ tab.target # Null
  /\ tab' = [tab EXCEPT !.target = Null]
  /\ UNCHANGED <<call, deskVars>>

DeleteRule(c) ==
  /\ tab.target # Null /\ ~tab.deleting
  /\ Send(c, Request("remove", tab.revision, tab.target))
  /\ tab' = [tab EXCEPT !.deleting = TRUE]
  /\ UNCHANGED deskVars

RuleDeleted(c) ==
  /\ Answered(c, "remove")
  /\ IF call[c].answer = "done"
       THEN Reload(c) /\ tab' = [tab EXCEPT !.deleting = FALSE, !.target = Null]
       ELSE Forget(c) /\ tab' = [tab EXCEPT !.deleting = FALSE]
  /\ UNCHANGED deskVars

DeletionFailed(c) ==
  /\ Failed(c, "remove")
  /\ tab' = [tab EXCEPT !.deleting = FALSE]
  /\ LeaveToApi(c)
  /\ UNCHANGED deskVars

TabHears(c) ==
  \/ RulesArrive(c) \/ RulesFail(c)
  \/ FormSaved(c) \/ FormFailed(c)
  \/ RuleDeleted(c) \/ DeletionFailed(c)

UseTab ==
  \/ \E p \in Product \cup {Null} : ChooseProduct(p)
  \/ \E f \in DOMAIN FreeValue : \E value \in FreeValue[f] : ChooseField(f, value)
  \/ \E entry \in tab.shown \cup {[id |-> Null, rule |-> NoScope]} : OpenForm(entry)
  \/ \E i \in Row : AskToDelete(i)
  \/ CloseForm \/ CloseDialog
  \/ \E c \in Call :
       \/ \E r \in ShownRevision : SelectRevision(r, c)
       \/ SubmitForm(c) \/ DeleteRule(c) \/ TabHears(c)

TabStep ==
  \/ tab = Null /\ \E r \in ShownRevision, c \in Call : OpenTab(r, c)
  \/ tab # Null /\ UseTab

----------------------------------------------------------------------------
\* Properties

\* A rule of a retired revision is created, changed or deleted only by a request
\* for that very revision, checked before it was retired: the table may show rules
\* under another revision, of which the API is then told
\* (applicability-rules.service.ts:69-72, 79, 113-118).
RetiredRulesChangeOnlyInFlight ==
  [][\A i \in Row, r \in Revision :
       /\ status[r] = "RETIRED" /\ row'[i] # row[i]
       /\ IsRuleOf(i, r) \/ IsRuleOf(i, r)'
       => \E c \in Call :
            /\ IsFor(c, {"update", "create", "remove"}) /\ call'[c] # call[c]
            /\ call[c].subject = r /\ call[c].seen \notin {Null, "RETIRED"}]_row

\* A rule reported as saved is stored as the form shows it: "there is no
\* optimistic-only success path" (RuleFormDrawer.tsx:34).
SavedAsShown ==
  [][\A c \in Call :
       UpdateRule(c) /\ row' # row =>
         row'[call[c].input.id].rule = call[c].input.form]_row
=============================================================================
