---------------------------- MODULE PublishWizard ----------------------------
(***************************************************************************)
(* The publish wizard (PublishWizardPage): revision, applicability,        *)
(* impact, conflicts, confirmation.  The page reads the revision once and  *)
(* a preview whenever the user comes to the impact step.  Moving between   *)
(* the steps is never barred, so a preview may arrive at any of them.      *)
(***************************************************************************)
EXTENDS Desk, Naturals

VARIABLE wizard   \* the page; it is closed while it is about no revision

Impact == 2
Confirmation == 4

NoPreview == [rules |-> {}, conflicts |-> {}, active |-> {}, given |-> FALSE]

\* published: the publication made here, if any.  latest: whether the preview at
\* hand was asked for by the last arrival at the impact step.
OpenedWizard(r) ==
  [revision |-> r, loaded |-> Null, step |-> 0, preview |-> NoPreview, loading |-> FALSE,
   error |-> FALSE, publishing |-> FALSE, published |-> {}, latest |-> FALSE]

NoWizard == OpenedWizard(Null)

WizardOpen == wizard.revision # Null

WizardInit == wizard = NoWizard

----------------------------------------------------------------------------
\* The document, the revision and its rules, read once.
OpenWizard(r, c) ==
  /\ ~WizardOpen
  /\ wizard' = OpenedWizard(r)
  /\ Send(c, Request("revisions", r, "wizard"))
  /\ UNCHANGED deskVars

WizardLoaded(c) ==
  /\ WizardOpen /\ Answered(c, "revisions") /\ call[c].input = "wizard"
  /\ wizard' = [wizard EXCEPT !.loaded = call[c].answer[wizard.revision]]
  /\ Forget(c)
  /\ UNCHANGED deskVars

WizardNotLoaded(c) ==
  /\ WizardOpen /\ Failed(c, "revisions") /\ call[c].input = "wizard"
  /\ Forget(c)
  /\ UNCHANGED <<wizard, deskVars>>

WizardCalls ==
  {c \in Call : \/ IsFor(c, {"preview", "publish"})
                \/ IsFor(c, {"revisions"}) /\ call[c].input = "wizard"}

\* The page shows an error, or that the revision is not approved: nothing is
\* left but to go back.
LeaveWizard ==
  /\ WizardOpen
  /\ wizard' = NoWizard
  /\ ClosePage(WizardCalls)
  /\ UNCHANGED deskVars

Usable == WizardOpen /\ (wizard.loaded = "APPROVED" \/ wizard.published # {})

\* Requests of earlier arrivals stay under way, and their answers are taken.
AskPreview(c) ==
  /\ call[c] = Null
  /\ call' = [d \in Call |->
       IF d = c THEN Request("preview", wizard.revision, "latest")
       ELSE IF call[d] # Null /\ call[d].op = "preview" THEN [call[d] EXCEPT !.input = "earlier"]
       ELSE call[d]]
  /\ wizard' = [wizard EXCEPT !.step = Impact, !.loading = TRUE, !.error = FALSE,
                              !.latest = FALSE]

\* "Weiter" and "Zurück"
GoTo(step, c) ==
  /\ Usable /\ wizard.published = {}
  /\ step \in {wizard.step - 1, wizard.step + 1} \cap (0 .. Confirmation)
  /\ IF step = Impact
       THEN AskPreview(c)
       ELSE wizard' = [wizard EXCEPT !.step = step] /\ UNCHANGED call
  /\ UNCHANGED deskVars

\* The retry button: at the conflicts step, where it is shown as well, it
\* fetches nothing.
RetryPreview(c) ==
  /\ Usable /\ wizard.error /\ wizard.step = Impact
  /\ AskPreview(c)
  /\ UNCHANGED deskVars

PreviewArrives(c) ==
  /\ WizardOpen /\ Answered(c, "preview")
  /\ wizard' = [wizard EXCEPT !.loading = FALSE,
       !.preview = [rules |-> call[c].answer.rules, conflicts |-> call[c].answer.conflicts,
                    active |-> call[c].answer.active, given |-> TRUE],
       !.latest = call[c].input = "latest"]
  /\ Forget(c)
  /\ UNCHANGED deskVars

PreviewFails(c) ==
  /\ WizardOpen /\ Failed(c, "preview")
  /\ wizard' = [wizard EXCEPT !.loading = FALSE, !.error = TRUE]
  /\ Forget(c)
  /\ UNCHANGED deskVars

----------------------------------------------------------------------------
\* Mutant: only conflicts with other revisions block the button.
MayConfirmRealConflicts ==
  /\ Usable /\ wizard.step = Confirmation /\ wizard.published = {}
  /\ ~wizard.publishing /\ ~wizard.loading /\ wizard.preview.given
  /\ \A k \in wizard.preview.conflicts : k.reason = "ALREADY_PUBLISHED"

MayConfirm ==
  /\ Usable /\ wizard.step = Confirmation /\ wizard.published = {}
  /\ ~wizard.publishing /\ ~wizard.loading /\ wizard.preview.given
  /\ wizard.preview.conflicts = {}

\* The request names the revision and nothing else; what the user had in front
\* of him is kept with it for RefusedForNews.
Confirm(c) ==
  /\ MayConfirm
  /\ Send(c, Request("publish", wizard.revision, wizard.preview))
  /\ wizard' = [wizard EXCEPT !.publishing = TRUE]
  /\ UNCHANGED deskVars

PublishAnswered(c) ==
  /\ WizardOpen /\ Answered(c, "publish")
  /\ wizard' = [wizard EXCEPT !.publishing = FALSE, !.published = call[c].answer]
  /\ Forget(c)
  /\ UNCHANGED deskVars

PublishFailed(c) ==
  /\ WizardOpen /\ Failed(c, "publish")
  /\ wizard' = [wizard EXCEPT !.publishing = FALSE]
  /\ LeaveToApi(c)
  /\ UNCHANGED deskVars

\* What the page does by itself when a request of its own ends.
WizardHears(c) ==
  \/ WizardLoaded(c) \/ WizardNotLoaded(c)
  \/ PreviewArrives(c) \/ PreviewFails(c)
  \/ PublishAnswered(c) \/ PublishFailed(c)

WizardStep ==
  \/ LeaveWizard
  \/ \E c \in Call :
       \/ \E r \in Revision : OpenWizard(r, c)
       \/ \E step \in 0 .. Confirmation : GoTo(step, c)
       \/ RetryPreview(c) \/ Confirm(c) \/ WizardHears(c)

----------------------------------------------------------------------------
\* Properties

\* A confirmation the wizard allowed is refused only for news: the rules or the
\* status of the revision changed, or something was published, after the API
\* made the preview the user confirmed (PublishWizardPage.tsx:35-39).
RefusedForNews ==
  \A c \in Call :
    Sent(c, "publish") =>
      LET r == call[c].subject
      IN  \/ MayPublish(r)
          \/ status[r] # "APPROVED"
          \/ RulesOf(r) # call[c].input.rules
          \/ \E p \in PubId : Active(p) /\ p \notin call[c].input.active

\* The confirmation never rests on a preview of an earlier visit to the impact
\* step (PublishWizardPage.tsx:78-80: "never a stale snapshot from earlier
\* navigation").
ConfirmsTheLatestPreview == MayConfirm => wizard.latest

\* "This exact revision, already published with the same rule set" (publish-
\* preview.service.ts:59-60): what the API calls ALREADY_PUBLISHED is so.
AlreadyPublishedMeansSameRules ==
  \A c \in Call :
    Answered(c, "preview") =>
      \A k \in call[c].answer.conflicts :
        k.reason = "ALREADY_PUBLISHED" => registry[k.id].rules = call[c].answer.rules
=============================================================================
