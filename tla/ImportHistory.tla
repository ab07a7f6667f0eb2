--------------------------- MODULE ImportHistory ---------------------------
(***************************************************************************)
(* ImportWizard with a history: the rows every import was staged with, the *)
(* import every unit came from, which imports and which of their rows a    *)
(* review step has shown, and which pages went back while their commit was *)
(* under way.                                                              *)
(***************************************************************************)
EXTENDS ImportWizard

VARIABLES
  staged,      \* the rows every import was staged with
  origin,      \* the import that created each unit, or Null
  shown,       \* imports whose preview a page has shown in its review step
  listed,      \* the rows of every import that such a step has listed one by one
  strayed      \* pages that went back while a commit was under way

historyVars == <<staged, origin, shown, listed, strayed>>

\* The import a handler is inserting.
Inserting == {h \in Handler : handler[h].kind = "commit" /\ handler[h].at = "insert"
                /\ handler'[h].kind = "commit" /\ handler'[h].at = "forget"}

Imported(i) == <<"UNIT_IMPORTED", i>> \in audit

HistoryInit ==
  /\ WizardInit
  /\ staged = [i \in ImportId |-> {}]
  /\ origin = [s \in Serial |-> Null]
  /\ shown = {}
  /\ listed = [i \in ImportId |-> {}]
  /\ strayed = {}

\* Pages in their review step.
Reviewing == {w \in Wizard : page[w].step = "review" /\ page[w].preview # Null}

Recall ==
  /\ staged' = [i \in ImportId |->
       IF i \in issued' \ issued THEN pending'[i] ELSE staged[i]]
  /\ origin' = [s \in Serial |->
       IF unit[s] = Null /\ unit'[s] # Null /\ Inserting # {}
         THEN handler[CHOOSE h \in Inserting : TRUE].import ELSE origin[s]]
  /\ shown' = shown \cup {page'[w].preview.import : w \in Reviewing'}
  /\ listed' = [i \in ImportId |->
       listed[i] \cup UNION {Listed(page'[w].preview.rows) :
         w \in {x \in Reviewing' : page'[x].preview.import = i}}]
  /\ strayed' = {w \in Wizard :
       /\ page'[w] # NewPage
       /\ w \in strayed \/ (page'[w].commitCall # Null /\ page'[w].step # "commit")}

ImportHistorySpec == HistoryInit /\ [][WizardNext /\ Recall]_<<wizardVars, historyVars>>

----------------------------------------------------------------------------
\* An import is in the catalogue with all its rows or with none, and with its
\* audit event or not at all, whatever units were created since its preview
\* (imports.service.ts:345-369, docs/csv-import.md:153-160).
ImportsAreWhole ==
  \A i \in ImportId :
    /\ Imported(i) => \A r \in staged[i] : origin[r.serial] = i
    /\ ~ Imported(i) => \A s \in Serial : origin[s] # i

\* Before anything is written, the review step has shown the preview of exactly
\* the import that is confirmed, with as many of its rows as the step lists: all
\* of them if they fit.  Of the others users see the number only
\* (ImportWizardPage.tsx:61-66, 447-449; docs/csv-import.md:9-12 says every row).
ReviewedBeforeImported ==
  \A i \in ImportId : Imported(i) =>
    /\ i \in shown
    /\ listed[i] = Listed(staged[i])

\* What the last step reports is the import it stands under: the rows of its
\* preview are there (ImportWizardPage.tsx:529-545).
ResultIsOwn ==
  \A w \in Wizard : page[w].importedCount # Null /\ page[w].step = "commit" =>
    \A r \in page[w].preview.rows : origin[r.serial] = page[w].preview.import

\* It is, unless the user went back while the commit was under way.
ResultIsOwnIfNotStrayed ==
  \A w \in Wizard \ strayed :
    page[w].importedCount # Null /\ page[w].step = "commit" =>
      /\ \A r \in page[w].preview.rows : origin[r.serial] = page[w].preview.import
      /\ page[w].importedCount = Cardinality(page[w].preview.rows)
============================================================================
