-------------------------- MODULE RevisionEditing --------------------------
(***************************************************************************)
(* Document revisions as editors see them: the review status of a revision *)
(* (RevisionsService.transition) and the applicability rules it carries    *)
(* (ApplicabilityRulesService).  Every handler reads the revision, decides *)
(* on what it read, then writes by id and finally records an audit event:  *)
(* three awaits, no transaction, so handlers of one revision interleave.   *)
(***************************************************************************)
EXTENDS Applicability

CONSTANTS
  Revision,        \* document revisions, each with its language
  RulePool,        \* the rules editors may write, a subset of Rule
  Row,             \* rows a revision's rules may have: bounds their number
  Editor,          \* handlers of editing requests that may be in flight
  InitialStatus,   \* where a behaviour starts: status and rules of every
  InitialRules,    \*   revision, none of them published yet
  Crashes          \* whether the API process may die within a handler

RevisionStatus == {"DRAFT", "IN_REVIEW", "APPROVED", "RETIRED"}

ASSUME EditingAssumption ==
  /\ RulePool \subseteq Rule
  /\ Null \notin RulePool /\ Null \notin Row
  /\ InitialStatus \in [Revision -> RevisionStatus]
  /\ InitialRules \in [Revision -> [Row -> RulePool \cup {Null}]]
  /\ Crashes \in BOOLEAN

VARIABLES
  status,   \* status of every revision
  rules,    \* its live applicability rules, by row
  edit,     \* per editor: the request it is working on
  audit     \* audit events recorded so far: <<action, object>>

editingVars == <<status, rules, edit, audit>>

LiveRules(r) == {rules[r][row] : row \in Row} \ {Null}

NoEdit == [pc |-> "idle", revision |-> Null, action |-> Null, row |-> Null]

\* pc: write (has read and checked), audit (has written)
TransitionRequest ==
  [pc : {"write", "audit"}, revision : Revision, action : RevisionStatus, row : {Null}]

CreateRequest ==
  [pc : {"write", "audit"}, revision : Revision, action : {"CREATE"}, row : {Null}]

RowRequest ==
  [pc : {"write", "audit"}, revision : Revision, action : {"UPDATE", "DELETE"}, row : Row]

EditRequest == {NoEdit} \cup TransitionRequest \cup CreateRequest \cup RowRequest

EditingTypeOK ==
  /\ status \in [Revision -> RevisionStatus]
  /\ rules \in [Revision -> [Row -> RulePool \cup {Null}]]
  /\ edit \in [Editor -> EditRequest]

EditingInit ==
  /\ status = InitialStatus
  /\ rules = InitialRules
  /\ edit = [e \in Editor |-> NoEdit]
  /\ audit = {}

----------------------------------------------------------------------------
\* Review: submit, approve, retire

Transitions ==
  [DRAFT     |-> {"IN_REVIEW"},
   IN_REVIEW |-> {"APPROVED"},
   APPROVED  |-> {"RETIRED"},
   RETIRED   |-> {}]

\* Mutant: the transition is not looked up in the table.
ReadForAnyTransition(e, r, target) ==
  /\ edit[e].pc = "idle"
  /\ target # status[r]
  /\ edit' = [edit EXCEPT ![e] =
       [pc |-> "write", revision |-> r, action |-> target, row |-> Null]]
  /\ UNCHANGED <<status, rules, audit>>

\* Mutant: the audit event is recorded ahead of the update.
ReadAndAuditTransition(e, r, target) ==
  /\ edit[e].pc = "idle"
  /\ target \in Transitions[status[r]]
  /\ edit' = [edit EXCEPT ![e] =
       [pc |-> "write", revision |-> r, action |-> target, row |-> Null]]
  /\ audit' = audit \cup {<<target, r>>}
  /\ UNCHANGED <<status, rules>>

ReadForTransition(e, r, target) ==
  /\ edit[e].pc = "idle"
  /\ target \in Transitions[status[r]]
  /\ edit' = [edit EXCEPT ![e] =
       [pc |-> "write", revision |-> r, action |-> target, row |-> Null]]
  /\ UNCHANGED <<status, rules, audit>>

\* An update by id: whatever the status has become meanwhile is overwritten.
WriteStatus(e) ==
  /\ edit[e].pc = "write" /\ edit[e].action \in RevisionStatus
  /\ status' = [status EXCEPT ![edit[e].revision] = edit[e].action]
  /\ edit' = [edit EXCEPT ![e].pc = "audit"]
  /\ UNCHANGED <<rules, audit>>

----------------------------------------------------------------------------
\* Applicability rules: create, update, delete

\* Mutant: the check looks at the wrong end of the lifecycle.
AssertNotDraft(r) == status[r] # "DRAFT"

AssertMutable(r) == status[r] # "RETIRED"

\* A request to change a rule names its row; one to create a rule names none.
ReadForRuleEdit(e, r, action, row) ==
  /\ edit[e].pc = "idle"
  /\ AssertMutable(r)
  /\ IF action = "CREATE" THEN row = Null ELSE row # Null /\ rules[r][row] # Null
  /\ edit' = [edit EXCEPT ![e] =
       [pc |-> "write", revision |-> r, action |-> action, row |-> row]]
  /\ UNCHANGED <<status, rules, audit>>

\* The id of a new row was never used before: no request in flight names it.
WriteNewRule(e, row, rule) ==
  LET r == edit[e].revision
  IN /\ edit[e].pc = "write" /\ edit[e].action = "CREATE"
     /\ rules[r][row] = Null
     /\ \A f \in Editor : edit[f].revision = r => edit[f].row # row
     /\ rules' = [rules EXCEPT ![r][row] = rule]
     /\ edit' = [edit EXCEPT ![e].pc = "audit"]
     /\ UNCHANGED <<status, audit>>

\* An update by id.  It merges the fields of the request into what the row
\* holds by now; what comes out may be any rule.
WriteRule(e, rule) ==
  LET r == edit[e].revision
      row == edit[e].row
  IN /\ edit[e].pc = "write" /\ edit[e].action = "UPDATE"
     /\ rules[r][row] # Null
     /\ rules' = [rules EXCEPT ![r][row] = rule]
     /\ edit' = [edit EXCEPT ![e].pc = "audit"]
     /\ UNCHANGED <<status, audit>>

DeleteRule(e) ==
  LET r == edit[e].revision
      row == edit[e].row
  IN /\ edit[e].pc = "write" /\ edit[e].action = "DELETE"
     /\ rules[r][row] # Null
     /\ rules' = [rules EXCEPT ![r][row] = Null]
     /\ edit' = [edit EXCEPT ![e].pc = "audit"]
     /\ UNCHANGED <<status, audit>>

\* The row to update or delete went away in between: the request fails.
RuleGone(e) ==
  /\ edit[e].pc = "write" /\ edit[e].action \in {"UPDATE", "DELETE"}
  /\ rules[edit[e].revision][edit[e].row] = Null
  /\ edit' = [edit EXCEPT ![e] = NoEdit]
  /\ UNCHANGED <<status, rules, audit>>

----------------------------------------------------------------------------
RecordEdit(e) ==
  /\ edit[e].pc = "audit"
  /\ audit' = audit \cup {<<edit[e].action, edit[e].revision>>}
  /\ edit' = [edit EXCEPT ![e] = NoEdit]
  /\ UNCHANGED <<status, rules>>

\* The process dies, or a query fails, between two awaits of a handler.
EditFails(e) ==
  /\ Crashes
  /\ edit[e].pc # "idle"
  /\ edit' = [edit EXCEPT ![e] = NoEdit]
  /\ UNCHANGED <<status, rules, audit>>

EditStep(e) ==
  \/ \E r \in Revision, target \in RevisionStatus : ReadForTransition(e, r, target)
  \/ WriteStatus(e)
  \/ \E r \in Revision, action \in {"CREATE", "UPDATE", "DELETE"}, row \in Row \cup {Null} :
       ReadForRuleEdit(e, r, action, row)
  \/ \E row \in Row, rule \in RulePool : WriteNewRule(e, row, rule)
  \/ \E rule \in RulePool : WriteRule(e, rule)
  \/ DeleteRule(e)
  \/ RuleGone(e)
  \/ RecordEdit(e)
  \/ EditFails(e)

EditingNext == \E e \in Editor : EditStep(e)

EditingSpec == EditingInit /\ [][EditingNext]_editingVars

----------------------------------------------------------------------------
\* Properties

\* Retired, and no request that passed its check before is still to write.
Settled ==
  {r \in Revision :
     /\ status[r] = "RETIRED"
     /\ \A e \in Editor : edit[e].pc = "write" => edit[e].revision # r}

\* Retiring is for good, for the status and for the rules, as soon as the
\* requests that were past their check when it happened are done: no request
\* gets past a check again (revisions.service.ts:139-145,
\* applicability-rules.service.ts:130-138; docs/publication-lifecycle.md:224-225).
RetiredIsFinal ==
  [][\A r \in Settled :
       /\ status'[r] = "RETIRED" /\ rules'[r] = rules[r]
       /\ r \in Settled']_editingVars
=============================================================================
