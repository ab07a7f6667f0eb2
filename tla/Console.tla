------------------------------- MODULE Console -------------------------------
(***************************************************************************)
(* The publishing pages of the web application over one API: each is open  *)
(* in some browser, its requests are served and answered in any order, and *)
(* others publish, revoke, move revisions and change rules meanwhile.      *)
(***************************************************************************)
EXTENDS PublishWizard, RulesTab, HistoryPage, RevisionsPage

pages == <<wizard, tab, list, detail, document>>

consoleVars == <<deskVars, call, pages>>

ConsoleInit ==
  /\ DeskInit
  /\ WizardInit
  /\ TabInit
  /\ HistoryInit
  /\ DocumentInit

InWizard == UNCHANGED <<tab, list, detail, document>>
InTab == UNCHANGED <<wizard, list, detail, document>>
InHistory == UNCHANGED <<wizard, tab, document>>
InDocument == UNCHANGED <<wizard, tab, list, detail>>

PageStep ==
  \/ WizardStep /\ InWizard
  \/ TabStep /\ InTab
  \/ HistoryStep /\ InHistory
  \/ DocumentStep /\ InDocument

ApiStep(c) == (ServeCall(c) \/ BreakConnection(c) \/ DropLeft(c)) /\ UNCHANGED pages

ConsoleNext ==
  \/ PageStep
  \/ \E c \in Call : ApiStep(c)
  \/ OthersStep /\ UNCHANGED pages

ConsoleSpec == ConsoleInit /\ [][ConsoleNext]_consoleVars
=============================================================================
