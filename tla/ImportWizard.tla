---------------------------- MODULE ImportWizard ----------------------------
(***************************************************************************)
(* The import page of the web client (ImportWizardPage) on top of the API. *)
(* A page has at most one preview and one commit under way and gives each  *)
(* answer to the state it has by then: nothing ties an answer to the step, *)
(* the file or the preview it was asked for.  A call whose connection is   *)
(* lost goes on in the API with nobody listening.                          *)
(***************************************************************************)
EXTENDS Imports, FiniteSets

CONSTANTS
  Wizard,    \* pages open in some browser
  Choice,    \* what users choose in the mapping step: <<field, column or Null>>
  SampleSize \* how many valid rows the review step lists

\* What is in a column that may be taken for the serial numbers is one of Serial.
SerialColumn(c) ==
  \/ <<"serialNumber", c>> \in Choice
  \/ \E f \in File : c \in DOMAIN Content[f].header /\ Content[f].header[c] = "serialNumber"

\* What a preview answers.
Preview == [import : ImportId, rows : SUBSET Row]

ASSUME WizardAssumption ==
  /\ Null \notin Handler \cup File \cup ImportId \cup Nat \cup Preview
  /\ SampleSize \in Nat \ {0}
  /\ Choice \subseteq Field \X (Nat \cup {Null})
  /\ \A f \in File : \A i \in DOMAIN Content[f].rows : \A c \in DOMAIN Content[f].rows[i] :
       SerialColumn(c) => Content[f].rows[i][c] \in Serial \cup {Null}

VARIABLES page       \* the state of every page

wizardVars == <<vars, page>>

Step == {"file", "mapping", "review", "commit"}

\* header: the columns to choose from in the mapping step
\* previewCall, commitCall: the handler whose answer the page waits for, or Null
Page ==
  [step : Step, file : File \cup {Null},
   preview : Preview \cup {Null}, header : Header,
   mapping : Override, previewCall : Handler \cup {Null}, commitCall : Handler \cup {Null},
   commitError : {"NOT_FOUND", "IMPORT_VALIDATION_FAILED", "INTERNAL_ERROR", Null},
   importedCount : Nat \cup {Null}]

NewPage ==
  [step |-> "file", file |-> Null, preview |-> Null, header |-> <<>>,
   mapping |-> NoOverride, previewCall |-> Null, commitCall |-> Null,
   commitError |-> Null, importedCount |-> Null]

TypeOK ==
  /\ CatalogueTypeOK
  /\ page \in [Wizard -> Page]
  /\ \A w \in Wizard : page[w].preview # Null => page[w].preview.import \in issued

WizardInit == ImportInit /\ page = [w \in Wizard |-> NewPage]

----------------------------------------------------------------------------
\* What the user does

\* The file input is never disabled.
ChooseFile(w, file) ==
  /\ page[w].step = "file"
  /\ page' = [page EXCEPT ![w].file = file]
  /\ UNCHANGED vars

EditMapping(w, field, column) ==
  /\ page[w].step = "mapping"
  /\ column \in DOMAIN page[w].header \cup {Null}
  /\ page' = [page EXCEPT ![w].mapping[field] = column]
  /\ UNCHANGED vars

\* The buttons below the step are there until something has been imported.
HasNavigation(w) == page[w].importedCount = Null /\ page[w].previewCall = Null

\* Step 1 to 2: the API detects the columns; step 2 to 3: the user's mapping.
CallPreview(w, h) ==
  /\ page[w].step \in {"file", "mapping"} /\ HasNavigation(w)
  /\ page[w].file # Null
  /\ AcceptPreview(h, page[w].file,
       IF page[w].step = "file" THEN NoOverride ELSE page[w].mapping)
  /\ page' = [page EXCEPT ![w].previewCall = h]

Previous == [mapping |-> "file", review |-> "mapping", commit |-> "review"]

Back(w) ==
  /\ page[w].step \in DOMAIN Previous /\ HasNavigation(w)
  /\ page' = [page EXCEPT ![w].step = Previous[@]]
  /\ UNCHANGED vars

\* What the review step lists of the valid rows: as many as fit.  Which ones (the
\* first of the file) is left open, and so is its list of the refused ones.
Listed(rows) ==
  IF Cardinality(rows) <= SampleSize THEN rows
  ELSE CHOOSE sample \in SUBSET rows : Cardinality(sample) = SampleSize

\* Mutant: the button of the mapping step goes on without asking the API again.
ProceedUnchecked(w) ==
  /\ page[w].step \in {"mapping", "review"} /\ HasNavigation(w)
  /\ page[w].preview # Null /\ page[w].preview.rows # {}
  /\ page' = [page EXCEPT ![w].step = "commit"]
  /\ UNCHANGED vars

Proceed(w) ==
  /\ page[w].step = "review" /\ HasNavigation(w)
  /\ page[w].preview # Null /\ page[w].preview.rows # {}
  /\ page' = [page EXCEPT ![w].step = "commit"]
  /\ UNCHANGED vars

\* The API answers at once if it does not know the import any more.
CallCommit(w, h) ==
  /\ page[w].step = "commit"
  /\ page[w].importedCount = Null /\ page[w].commitCall = Null
  /\ page[w].preview # Null /\ page[w].preview.rows # {}
  /\ TakeImport(h, page[w].preview.import)
  /\ page' = [page EXCEPT
       ![w].commitCall = IF handler'[h] = Idle THEN Null ELSE h,
       ![w].commitError = IF handler'[h] = Idle THEN "NOT_FOUND" ELSE Null]

\* Abbrechen, or the way to the units: the page is taken down.
LeavePage(w) ==
  /\ page' = [page EXCEPT ![w] = NewPage]
  /\ UNCHANGED vars

----------------------------------------------------------------------------
\* What the API answers

\* Columns that were not mapped are left out of the answer.
ToMapping(columns) ==
  [field \in Field |-> IF columns[field] = Null THEN Unsaid ELSE columns[field]]

\* The answers to handleStartMapping and handleReview.
Previewed(p, preview, header, columns) ==
  IF p.step = "file"
    THEN [p EXCEPT !.preview = preview, !.header = header, !.mapping = ToMapping(columns),
                   !.step = "mapping", !.previewCall = Null]
    ELSE [p EXCEPT !.preview = preview, !.header = header,
                   !.step = "review", !.previewCall = Null]

\* A file refused for a missing column brings its header row along.
Unmapped(p, header, columns) ==
  IF p.step = "file" /\ header # <<>>
    THEN Previewed(p, Null, header, columns)
    ELSE [p EXCEPT !.previewCall = Null]

\* Mutant: every answer counts as a success, as if the status were not looked at.
CommittedAnyhow(p, code) == [p EXCEPT !.commitCall = Null, !.importedCount = 0]

CommitFailed(p, code) == [p EXCEPT !.commitCall = Null, !.commitError = code]

Committed(p, count) == [p EXCEPT !.commitCall = Null, !.importedCount = count]

\* heard: each page as it would be if it waited for h.
Hear(h, heard) ==
  page' = [w \in Wizard |->
    IF h \in {page[w].previewCall, page[w].commitCall} THEN heard[w] ELSE page[w]]

AnswerPreview(h, i) ==
  /\ StagePreview(h, i)
  /\ Hear(h, [w \in Wizard |->
       Previewed(page[w], [import |-> i, rows |-> ValidRows(handler[h])],
                 Content[handler[h].file].header, handler[h].columns)])

AnswerRefusal(h) ==
  /\ RefuseHeader(h)
  /\ Hear(h, [w \in Wizard |->
       Unmapped(page[w], Content[handler[h].file].header, handler[h].columns)])

AnswerCommit(h) ==
  /\ ForgetImport(h)
  /\ Hear(h, [w \in Wizard |-> Committed(page[w], Cardinality(handler[h].rows))])

AnswerCollision(h) ==
  /\ RefuseCollision(h)
  /\ Hear(h, [w \in Wizard |-> CommitFailed(page[w], "IMPORT_VALIDATION_FAILED")])

\* The page sees an error for a call that gets no answer.
Lost(p, calls) ==
  [p EXCEPT !.previewCall = IF @ \in calls THEN Null ELSE @,
            !.commitError = IF p.commitCall \in calls THEN "INTERNAL_ERROR" ELSE @,
            !.commitCall  = IF @ \in calls THEN Null ELSE @]

AnswerFailure(h) ==
  /\ HandlerFails(h)
  /\ Hear(h, [w \in Wizard |-> Lost(page[w], {h})])

\* The connection breaks; the handler does not notice.
LoseConnection(h) ==
  /\ Crashes
  /\ \E w \in Wizard : h \in {page[w].previewCall, page[w].commitCall}
  /\ Hear(h, [w \in Wizard |-> Lost(page[w], {h})])
  /\ UNCHANGED vars

RestartUnderPages ==
  /\ Restart
  /\ page' = [w \in Wizard |-> Lost(page[w], Handler)]

----------------------------------------------------------------------------
UserStep(w) ==
  \/ \E file \in File \cup {Null} : ChooseFile(w, file)
  \/ \E c \in Choice : EditMapping(w, c[1], c[2])
  \/ Back(w)
  \/ Proceed(w)
  \/ LeavePage(w)
  \/ \E h \in Handler : CallPreview(w, h) \/ CallCommit(w, h)

HandlerStep(h) ==
  \/ ReadReferences(h) /\ UNCHANGED page
  \/ InsertUnits(h) /\ UNCHANGED page
  \/ \E i \in ImportId : AnswerPreview(h, i)
  \/ AnswerRefusal(h)
  \/ AnswerCommit(h)
  \/ AnswerCollision(h)
  \/ AnswerFailure(h)
  \/ LoseConnection(h)

WizardNext ==
  \/ \E w \in Wizard : UserStep(w)
  \/ \E h \in Handler : HandlerStep(h)
  \/ \E k \in Keeper : CatalogueStep(k) /\ UNCHANGED <<importVars, page>>
  \/ \E i \in ImportId : GrowStale(i) /\ UNCHANGED page
  \/ RestartUnderPages

WizardSpec == WizardInit /\ [][WizardNext]_wizardVars
=============================================================================
