---------------------------- MODULE ReviewProofs ----------------------------
(***************************************************************************)
(* What holds of reviewing and publishing together, for any number of      *)
(* revisions, editors and publish requests: nothing is published that was  *)
(* not reviewed, what is frozen was approved, and the audit trail tells of *)
(* nothing that did not happen; and what racing requests can bring about:  *)
(* how far a revision may go back, a retirement be undone and an end move. *)
(***************************************************************************)
EXTENDS PublishingReview, PublishingProofs

----------------------------------------------------------------------------
\* What an editing request does

\* The request of one editor is taken up, goes on, or ends.
TakesUp(e) ==
  /\ edit[e].pc = "idle" /\ edit'[e].pc = "write"
  /\ \/ edit'[e].action \in Transitions[status[edit'[e].revision]]
     \/ /\ edit'[e].action \in {"CREATE", "UPDATE", "DELETE"}
        /\ status[edit'[e].revision] # "RETIRED"
  /\ UNCHANGED <<status, rules, audit>>

\* The write leaves the status and the rules of every other revision alone.
Writes(e) ==
  /\ edit[e].pc = "write" /\ edit'[e].pc = "audit"
  /\ edit'[e].action = edit[e].action /\ edit'[e].revision = edit[e].revision
  /\ edit[e].revision \in Revision
  /\ \A r \in Revision \ {edit[e].revision} : status'[r] = status[r] /\ rules'[r] = rules[r]
  /\ \/ /\ edit[e].action \in RevisionStatus /\ status'[edit[e].revision] = edit[e].action
        /\ UNCHANGED rules
     \/ edit[e].action \in {"CREATE", "UPDATE", "DELETE"} /\ UNCHANGED status
  /\ edit[e].action = "CREATE" =>
       \E row \in Row : /\ rules[edit[e].revision][row] = Null
                        /\ rules'[edit[e].revision][row] # Null
  /\ edit[e].action = "DELETE" =>
       \E row \in Row : /\ rules[edit[e].revision][row] # Null
                        /\ rules'[edit[e].revision][row] = Null
  /\ UNCHANGED audit

Ends(e) ==
  /\ edit[e].pc # "idle" /\ edit'[e].pc = "idle"
  /\ \/ UNCHANGED audit
     \/ /\ edit[e].pc = "audit"
        /\ audit' = audit \cup {<<edit[e].action, edit[e].revision>>}
  /\ UNCHANGED <<status, rules>>

EditMove ==
  \E e \in Editor :
    /\ \A f \in Editor \ {e} : edit'[f] = edit[f]
    /\ TakesUp(e) \/ Writes(e) \/ Ends(e)
    /\ UNCHANGED publishingVars

LEMMA EditInFlight ==
  ASSUME EditingTypeOK, NEW e \in Editor, edit[e].pc # "idle"
  PROVE  /\ edit[e] \in TransitionRequest \cup CreateRequest \cup RowRequest
         /\ edit[e].revision \in Revision
         /\ edit[e].action \in RevisionStatus \cup {"CREATE", "UPDATE", "DELETE"}
  BY DEF EditingTypeOK, EditRequest, NoEdit, TransitionRequest, CreateRequest, RowRequest

LEMMA EditMoves ==
  ASSUME EditingTypeOK, EditingNext, UNCHANGED publishingVars
  PROVE  EditMove
<1> USE EditingAssumption
<1>1. PICK e \in Editor : EditStep(e)
  BY DEF EditingNext
<1>2. edit \in [Editor -> EditRequest] /\ status \in [Revision -> RevisionStatus]
      /\ rules \in [Revision -> [Row -> RulePool \cup {Null}]]
  BY DEF EditingTypeOK
<1>3. ASSUME NEW r \in Revision, NEW target \in RevisionStatus,
             ReadForTransition(e, r, target)
      PROVE  TakesUp(e) /\ \A f \in Editor \ {e} : edit'[f] = edit[f]
  BY <1>2, <1>3 DEF ReadForTransition, TakesUp
<1>4. ASSUME NEW r \in Revision, NEW action \in {"CREATE", "UPDATE", "DELETE"},
             NEW row \in Row \cup {Null}, ReadForRuleEdit(e, r, action, row)
      PROVE  TakesUp(e) /\ \A f \in Editor \ {e} : edit'[f] = edit[f]
  BY <1>2, <1>4 DEF ReadForRuleEdit, AssertMutable, TakesUp
<1>5. ASSUME edit[e].pc = "write", edit' = [edit EXCEPT ![e].pc = "audit"]
      PROVE  /\ \A f \in Editor \ {e} : edit'[f] = edit[f]
             /\ edit'[e].pc = "audit" /\ edit'[e].action = edit[e].action
             /\ edit'[e].revision = edit[e].revision
             /\ edit[e].revision \in Revision
  <2>1. edit[e] \in TransitionRequest \cup CreateRequest \cup RowRequest
    BY <1>5, EditInFlight
  <2>2. edit'[e] = [edit[e] EXCEPT !.pc = "audit"]
    BY <1>2, <1>5
  <2> QED
    BY <1>2, <1>5, <2>1, <2>2, EditInFlight DEF TransitionRequest, CreateRequest, RowRequest
<1>6. ASSUME WriteStatus(e) PROVE Writes(e) /\ \A f \in Editor \ {e} : edit'[f] = edit[f]
  <2>1. edit[e].action \notin {"CREATE", "DELETE"}
    BY <1>6 DEF WriteStatus, RevisionStatus
  <2> QED BY <1>2, <1>5, <1>6, <2>1 DEF WriteStatus, Writes
<1>7. ASSUME NEW row \in Row, NEW rule \in RulePool, WriteNewRule(e, row, rule)
      PROVE  Writes(e) /\ \A f \in Editor \ {e} : edit'[f] = edit[f]
  <2>1. rules'[edit[e].revision][row] = rule /\ rule # Null
    BY <1>2, <1>5, <1>7 DEF WriteNewRule
  <2> QED BY <1>2, <1>5, <1>7, <2>1 DEF WriteNewRule, Writes
<1>8. ASSUME NEW rule \in RulePool, WriteRule(e, rule)
      PROVE  Writes(e) /\ \A f \in Editor \ {e} : edit'[f] = edit[f]
  BY <1>2, <1>5, <1>8 DEF WriteRule, Writes
<1>9. ASSUME DeleteRule(e) PROVE Writes(e) /\ \A f \in Editor \ {e} : edit'[f] = edit[f]
  <2>1. edit[e].row \in Row
    BY <1>9, EditInFlight
       DEF DeleteRule, TransitionRequest, CreateRequest, RowRequest, RevisionStatus
  <2>2. rules'[edit[e].revision][edit[e].row] = Null
    BY <1>2, <1>5, <1>9, <2>1 DEF DeleteRule
  <2> QED BY <1>2, <1>5, <1>9, <2>1, <2>2 DEF DeleteRule, Writes
<1>10. ASSUME RuleGone(e) \/ RecordEdit(e) \/ EditFails(e)
       PROVE  Ends(e) /\ \A f \in Editor \ {e} : edit'[f] = edit[f]
  BY <1>2, <1>10 DEF RuleGone, RecordEdit, EditFails, Ends, NoEdit
<1> QED
  BY <1>1, <1>3, <1>4, <1>6, <1>7, <1>8, <1>9, <1>10 DEF EditStep, EditMove

\* What happens to editing in a step of publishing: nothing, but for the audit trail.
LEMMA EditingOrNot ==
  ASSUME [Next]_vars, TypeInv
  PROVE  EditMove \/ UNCHANGED <<status, rules, edit>>
<1>1. CASE EditingNext /\ UNCHANGED publishingVars
  BY <1>1, EditMoves DEF TypeInv, TypeOK
<1> QED
  BY <1>1
     DEF Next, vars, editingVars, BeginPublish, PublishStep, RequestLock, CheckConflicts,
         RejectConflict, CommitPublish, RefuseSerialization, PublishFails, RollBack,
         ReadForRevoke, RevokeStep, WriteRevoke, RecordRevoke, RevokeFails, Tick

----------------------------------------------------------------------------
\* Requests that race for one revision

\* What a request found when it read the revision still holds when it writes,
\* unless it was overtaken.
PlannedInv ==
  \A e \in Editor \ overtaken : edit[e].pc = "write" /\ edit[e].action \in RevisionStatus =>
    edit[e].action \in Transitions[status[edit[e].revision]]

LEMMA PlannedInvStep ==
  ASSUME TypeInv, PlannedInv, [Next]_vars, Overtaking
  PROVE  PlannedInv'
<1> SUFFICES ASSUME NEW e \in Editor, e \notin overtaken', edit'[e].pc = "write",
                    edit'[e].action \in RevisionStatus
             PROVE  edit'[e].action \in Transitions[status'[edit'[e].revision]]
  BY DEF PlannedInv
<1>1. CASE edit'[e] = edit[e]
  <2>1. e \notin overtaken /\ status'[edit[e].revision] = status[edit[e].revision]
    BY <1>1 DEF Overtaking
  <2> QED BY <1>1, <2>1 DEF PlannedInv
<1>2. CASE edit'[e] # edit[e]
  <2>1. TakesUp(e)
    BY <1>2, EditingOrNot DEF EditMove, Writes, Ends
  <2>2. edit'[e].action \notin {"CREATE", "UPDATE", "DELETE"}
    BY DEF RevisionStatus
  <2> QED BY <2>1, <2>2 DEF TakesUp
<1> QED BY <1>1, <1>2

LEMMA InitPlannedInv == ReviewInit => PlannedInv
  BY DEF ReviewInit, Init, EditingInit, NoEdit, PlannedInv

\* A step of publishing or editing with its history, stuttering included.
LEMMA ReviewSteps ==
  ASSUME [ReviewNext]_reviewVars
  PROVE  [Next]_vars /\ (Races \/ UNCHANGED reviewVars)
  BY DEF ReviewNext, reviewVars

LEMMA TypeInvEver == ReviewSpec => []TypeInv
<1>1. ReviewInit => TypeInv
  BY InitTypeInv DEF ReviewInit
<1>2. TypeInv /\ [ReviewNext]_reviewVars => TypeInv'
  BY NextTypeInv, ReviewSteps
<1> QED BY <1>1, <1>2, PTL DEF ReviewSpec

\* A revision moves along the table of transitions whenever it moves, unless it is
\* moved by a request that another one has overtaken between its read and its
\* write (revisions.service.ts:139-147), for any number of requests at once.
THEOREM BackOnlyIfOvertakenEver == ReviewSpec => BackOnlyIfOvertaken
<1>1. ASSUME TypeInv, PlannedInv, [ReviewNext]_reviewVars
      PROVE  [\A r \in Revision : status'[r] # status[r] =>
                \/ status'[r] \in Transitions[status[r]]
                \/ \E e \in overtaken : edit[e].revision = r /\ edit[e].action = status'[r]
             ]_reviewVars
  <2>1. CASE UNCHANGED <<status, rules, edit>>
    BY <2>1
  <2>2. ASSUME NEW e \in Editor, TakesUp(e) \/ Writes(e) \/ Ends(e),
               NEW r \in Revision, status'[r] # status[r]
        PROVE  \/ status'[r] \in Transitions[status[r]]
               \/ \E f \in overtaken : edit[f].revision = r /\ edit[f].action = status'[r]
    <3>1. /\ edit[e].pc = "write" /\ edit[e].revision = r
          /\ edit[e].action \in RevisionStatus /\ edit[e].action = status'[r]
      BY <2>2 DEF TakesUp, Writes, Ends
    <3> QED BY <1>1, <3>1 DEF PlannedInv
  <2> QED BY <1>1, <2>1, <2>2, EditingOrNot, ReviewSteps DEF EditMove
<1>2. PlannedInv /\ UNCHANGED reviewVars => PlannedInv'
  BY DEF PlannedInv, reviewVars, vars, editingVars, raceVars
<1>3. TypeInv /\ PlannedInv /\ [ReviewNext]_reviewVars => PlannedInv'
  BY <1>2, PlannedInvStep, ReviewSteps DEF Races
<1> QED BY <1>1, <1>3, TypeInvEver, InitPlannedInv, PTL DEF ReviewSpec, BackOnlyIfOvertaken

\* A retired revision that no request is about to write to is left alone.
LEMMA SettledStays ==
  ASSUME TypeInv, [Next]_vars, NEW r \in Settled
  PROVE  status'[r] = "RETIRED" /\ rules'[r] = rules[r] /\ r \in Settled'
<1>0. r \in Revision /\ status[r] = "RETIRED"
  BY DEF Settled
<1>1. CASE UNCHANGED <<status, rules, edit>>
  BY <1>1 DEF Settled
<1>2. ASSUME NEW e \in Editor, \A f \in Editor \ {e} : edit'[f] = edit[f],
             TakesUp(e) \/ Writes(e) \/ Ends(e)
      PROVE  status'[r] = "RETIRED" /\ rules'[r] = rules[r] /\ r \in Settled'
  <2>1. CASE TakesUp(e)
    <3>1. edit'[e].revision # r
      BY <1>0, <2>1 DEF TakesUp, Transitions
    <3> QED BY <1>0, <1>2, <2>1, <3>1 DEF TakesUp, Settled
  <2>2. CASE Writes(e)
    <3>1. edit[e].revision # r
      BY <2>2 DEF Writes, Settled
    <3> QED BY <1>0, <1>2, <2>2, <3>1 DEF Writes, Settled
  <2>3. CASE Ends(e)
    BY <1>0, <1>2, <2>3 DEF Ends, Settled
  <2> QED BY <1>2, <2>1, <2>2, <2>3
<1> QED BY <1>1, <1>2, EditingOrNot DEF EditMove

\* Retiring is for good, for the status and for the rules, as soon as the requests
\* that were past their check when it happened are done, for any number of them.
THEOREM RetiredIsFinalEver == Spec => RetiredIsFinal
<1>1. TypeInv /\ [Next]_vars =>
        [\A r \in Settled :
           /\ status'[r] = "RETIRED" /\ rules'[r] = rules[r]
           /\ r \in Settled']_editingVars
  BY SettledStays
<1> QED BY <1>1, InitTypeInv, NextTypeInv, PTL DEF Spec, RetiredIsFinal

----------------------------------------------------------------------------
\* What is published has been reviewed

\* A transaction in flight goes on, or has just read its revision.
LEMMA ContinuesOrBegins ==
  ASSUME TypeInv, [Next]_vars, NEW w \in Publisher, tx'[w].pc # "idle"
  PROVE  \/ Continues(w)
         \/ \E r \in Revision : BeginPublish(w, r)
<1> USE DEF TypeInv, TypeOK, PublishingTypeOK
<1>1. CASE tx'[w] = tx[w]
  BY <1>1 DEF Continues
<1>2. ASSUME tx'[w] # tx[w]
      PROVE  (\E r \in Revision : BeginPublish(w, r)) \/ PublishStep(w) \/ PublishFails(w)
  <2>1. PICK x \in Publisher : \/ \E r \in Revision : BeginPublish(x, r)
                               \/ PublishStep(x) \/ PublishFails(x)
    BY <1>2
       DEF Next, RevokeStep, vars, publishingVars, ReadForRevoke, WriteRevoke, RecordRevoke,
           RevokeFails, Tick
  <2>2. x # w => tx'[w] = tx[w]
    BY <2>1
       DEF BeginPublish, PublishStep, RequestLock, CheckConflicts, RejectConflict,
           CommitPublish, RefuseSerialization, PublishFails, RollBack
  <2> QED BY <1>2, <2>1, <2>2
<1>3. PublishStep(w) \/ PublishFails(w) => tx'[w].pc # "begun"
  <2>1. RequestLock(w) => tx'[w].pc = "waiting"
    <3>1. RequestLock(w) => tx[w] \in RunningTx
      BY InFlightTx DEF RequestLock
    <3> QED BY <3>1 DEF RequestLock, RunningTx
  <2>2. CheckConflicts(w) => tx'[w].pc = "checked"
    <3>1. CheckConflicts(w) => tx[w] \in RunningTx
      BY InFlightTx DEF CheckConflicts
    <3> QED BY <3>1 DEF CheckConflicts, RunningTx
  <2>3. tx' = [tx EXCEPT ![w] = NoTx] => tx'[w].pc = "idle"
    BY DEF NoTx
  <2> QED
    BY <2>1, <2>2, <2>3
       DEF PublishStep, RejectConflict, CommitPublish, RefuseSerialization, PublishFails,
           RollBack
<1> QED BY <1>1, <1>2, <1>3, TxSteps DEF Begins

\* What is published is what its transaction carried.
LEMMA PublishedIsCarried ==
  ASSUME TypeInv, [Next]_vars, NEW p \in Published'
  PROVE  \/ p \in Published /\ pub'[p].revision = pub[p].revision /\ pub'[p].rules = pub[p].rules
         \/ \E w \in Publisher :
              /\ tx[w].pc = "checked" /\ pub'[p].revision = tx[w].revision
              /\ pub'[p].rules = tx[w].rules
<1>1. CASE p \in Published
  BY <1>1, PublicationsAreFrozen DEF Frozen
<1>2. CASE p \notin Published
  <2>1. p \in PubId
    BY DEF Published
  <2>2. PICK w \in Publisher :
          \E q \in PubId, t \in tx[w].since .. now : CommitPublish(w, q, t)
    BY <1>2, <2>1, NewIsCommitted
  <2>3. PICK q \in PubId, t \in tx[w].since .. now : CommitPublish(w, q, t)
    BY <2>2
  <2>4. pub'[p] # pub[p] /\ pub \in [PubId -> Publication \cup {Null}]
    BY <1>2, <2>1 DEF Published, TypeInv, TypeOK, PublishingTypeOK
  <2>5. pub'[p].revision = tx[w].revision /\ pub'[p].rules = tx[w].rules
    BY <2>1, <2>3, <2>4 DEF CommitPublish
  <2> QED BY <2>3, <2>5 DEF CommitPublish
<1> QED BY <1>1, <1>2

Approved(r) == {"IN_REVIEW", "APPROVED"} \subseteq reached[r]

ReviewInv ==
  /\ TypeInv
  /\ reached \in [Revision -> SUBSET RevisionStatus]
  /\ \A r \in Revision :
       /\ status[r] \in reached[r]
       /\ "APPROVED" \in reached[r] => Approved(r)
       /\ "RETIRED" \in reached[r] => Approved(r)
  /\ \A e \in Editor : edit[e].pc = "write" =>
       /\ edit[e].action = "APPROVED" => "IN_REVIEW" \in reached[edit[e].revision]
       /\ edit[e].action = "RETIRED" => Approved(edit[e].revision)
  /\ \A w \in Publisher : tx[w].pc # "idle" => Approved(tx[w].revision)
  /\ \A p \in Published : Approved(pub[p].revision)

LEMMA InitReviewInv == ReviewInit => ReviewInv
<1> SUFFICES ASSUME ReviewInit PROVE ReviewInv
  OBVIOUS
<1>1. TypeInv /\ Published = {} /\ status \in [Revision -> RevisionStatus]
  BY InitTypeInv DEF ReviewInit, Init, Published, TypeInv, TypeOK, EditingTypeOK
<1>2. reached = [r \in Revision |-> Path[status[r]]]
  BY DEF ReviewInit
<1>3. \A s \in RevisionStatus :
        /\ Path[s] \in SUBSET RevisionStatus /\ s \in Path[s]
        /\ "APPROVED" \in Path[s] => {"IN_REVIEW", "APPROVED"} \subseteq Path[s]
        /\ "RETIRED" \in Path[s] => {"IN_REVIEW", "APPROVED"} \subseteq Path[s]
  BY DEF Path, RevisionStatus
<1> QED
  BY <1>1, <1>2, <1>3 DEF ReviewInv, Approved, ReviewInit, Init, EditingInit, NoEdit, NoTx

ApprovedThen(r) == {"IN_REVIEW", "APPROVED"} \subseteq reached'[r]

LEMMA ReviewInvStep ==
  ASSUME ReviewInv, Next, Review
  PROVE  ReviewInv'
<1>0. /\ TypeInv /\ TypeInv' /\ reached \in [Revision -> SUBSET RevisionStatus]
      /\ status \in [Revision -> RevisionStatus] /\ status' \in [Revision -> RevisionStatus]
      /\ EditingTypeOK /\ EditingTypeOK'
  BY NextTypeInv DEF ReviewInv, TypeInv, TypeOK, EditingTypeOK
<1>1. \A r \in Revision : reached'[r] = reached[r] \cup {status'[r]}
  BY DEF Review
<1>2. reached' \in [Revision -> SUBSET RevisionStatus]
  BY <1>0 DEF Review
<1>3. \A r \in Revision : Approved(r) => ApprovedThen(r)
  BY <1>1 DEF Approved, ApprovedThen
<1>4. ASSUME NEW r \in Revision
      PROVE  /\ status'[r] \in reached'[r]
             /\ "APPROVED" \in reached'[r] => ApprovedThen(r)
             /\ "RETIRED" \in reached'[r] => ApprovedThen(r)
  <2>1. CASE status'[r] = status[r]
    BY <1>0, <1>1, <1>3, <2>1 DEF ReviewInv
  <2>2. CASE status'[r] # status[r]
    <3>1. PICK e \in Editor : Writes(e)
      BY <1>0, <2>2, EditingOrNot DEF EditMove, TakesUp, Ends
    <3>2. r = edit[e].revision /\ status'[r] = edit[e].action
      BY <2>2, <3>1 DEF Writes
    <3>3. edit[e].action = "APPROVED" => "IN_REVIEW" \in reached[r]
      BY <3>1, <3>2 DEF Writes, ReviewInv
    <3>4. edit[e].action = "RETIRED" => Approved(r)
      BY <3>1, <3>2 DEF Writes, ReviewInv
    <3> QED BY <1>0, <1>1, <1>3, <3>2, <3>3, <3>4 DEF ReviewInv, Approved, ApprovedThen
  <2> QED BY <2>1, <2>2
<1>5. ASSUME NEW e \in Editor, edit'[e].pc = "write"
      PROVE  /\ edit'[e].action = "APPROVED" => "IN_REVIEW" \in reached'[edit'[e].revision]
             /\ edit'[e].action = "RETIRED" => ApprovedThen(edit'[e].revision)
  <2>1. edit'[e].revision \in Revision
    BY <1>0, <1>5
       DEF EditingTypeOK, EditRequest, NoEdit, TransitionRequest, CreateRequest, RowRequest
  <2>2. CASE edit'[e] = edit[e]
    <3>1. /\ edit[e].action = "APPROVED" => "IN_REVIEW" \in reached[edit[e].revision]
          /\ edit[e].action = "RETIRED" => Approved(edit[e].revision)
      BY <1>5, <2>2 DEF ReviewInv
    <3> QED BY <1>1, <1>3, <2>1, <2>2, <3>1
  <2>3. CASE edit'[e] # edit[e]
    <3>1. TakesUp(e)
      BY <1>0, <1>5, <2>3, EditingOrNot DEF EditMove, Writes, Ends
    <3> DEFINE r == edit'[e].revision
    <3>2. status[r] \in RevisionStatus /\ status[r] \in reached[r]
          /\ ("APPROVED" \in reached[r] => Approved(r))
      BY <1>0, <2>1 DEF ReviewInv
    <3>3. /\ edit'[e].action = "APPROVED" => status[r] = "IN_REVIEW"
          /\ edit'[e].action = "RETIRED" => status[r] = "APPROVED"
      BY <3>1, <3>2 DEF TakesUp, Transitions, RevisionStatus
    <3> QED BY <1>1, <1>3, <2>1, <3>2, <3>3
  <2> QED BY <2>2, <2>3
<1>6. ASSUME NEW w \in Publisher, tx'[w].pc # "idle" PROVE ApprovedThen(tx'[w].revision)
  <2>1. tx'[w].revision \in Revision
    BY <1>0, <1>6 DEF TypeInv, TypeOK, PublishingTypeOK, Transaction, NoTx, RunningTx
  <2>2. CASE Continues(w)
    <3>1. Approved(tx[w].revision) /\ tx'[w].revision = tx[w].revision
      BY <2>2 DEF Continues, ReviewInv
    <3> QED BY <1>3, <2>1, <3>1
  <2>3. ASSUME NEW r \in Revision, BeginPublish(w, r) PROVE ApprovedThen(tx'[w].revision)
    <3>1. tx'[w].revision = r /\ status[r] = "APPROVED"
      BY <1>0, <2>3 DEF BeginPublish, TypeInv, TypeOK, PublishingTypeOK
    <3> QED BY <1>3, <3>1 DEF ReviewInv
  <2> QED BY <1>0, <1>6, <2>2, <2>3, ContinuesOrBegins
<1>7. ASSUME NEW p \in Published' PROVE ApprovedThen(pub'[p].revision)
  <2>1. pub'[p].revision \in Revision
    BY <1>0, <1>7 DEF TypeInv, TypeOK, PublishingTypeOK, Published, Publication
  <2>2. Approved(pub'[p].revision)
    BY <1>0, <1>7, PublishedIsCarried DEF ReviewInv
  <2> QED BY <1>3, <2>1, <2>2
<1> QED BY <1>0, <1>2, <1>4, <1>5, <1>6, <1>7 DEF ReviewInv, Approved, ApprovedThen

LEMMA ReviewInvHolds == ReviewSpec => []ReviewInv
<1>1. ReviewInv /\ [ReviewNext]_reviewVars => ReviewInv'
  <2>1. ASSUME ReviewInv, UNCHANGED reviewVars PROVE ReviewInv'
    <3>1. TypeInv'
      BY <2>1, NextTypeInv DEF ReviewInv, reviewVars
    <3> QED
      BY <2>1, <3>1
         DEF ReviewInv, reviewVars, vars, editingVars, publishingVars, Approved, Published
  <2> QED BY <2>1, ReviewInvStep DEF ReviewNext
<1> QED BY <1>1, InitReviewInv, PTL DEF ReviewSpec

\* However requests race, crash and overwrite each other, whatever is published has
\* been IN_REVIEW and APPROVED, and whatever is RETIRED has been APPROVED.
THEOREM NoReviewIsSkipped == ReviewSpec => []NoReviewSkipped
<1>1. ReviewInv => NoReviewSkipped
  BY DEF ReviewInv, NoReviewSkipped, Approved
<1> QED BY <1>1, ReviewInvHolds, PTL

----------------------------------------------------------------------------
\* What is frozen was approved

FrozenInv ==
  /\ TypeInv
  /\ approvedRules \in [Revision -> SUBSET SUBSET RulePool]
  /\ \A r \in Revision : status[r] = "APPROVED" => LiveRules(r) \in approvedRules[r]
  /\ \A w \in Publisher : tx[w].pc # "idle" => tx[w].rules \in approvedRules[tx[w].revision]
  /\ FrozenWhileApproved

LEMMA LiveRulesType ==
  ASSUME EditingTypeOK, NEW r \in Revision
  PROVE  LiveRules(r) \in SUBSET RulePool
  BY DEF EditingTypeOK, LiveRules

LEMMA InitFrozenInv == ReviewInit => FrozenInv
<1> SUFFICES ASSUME ReviewInit PROVE FrozenInv
  OBVIOUS
<1>1. TypeInv /\ Published = {} /\ EditingTypeOK
  BY InitTypeInv DEF ReviewInit, Init, Published, TypeInv, TypeOK
<1>2. approvedRules = [r \in Revision |-> IF status[r] = "APPROVED" THEN {LiveRules(r)} ELSE {}]
  BY DEF ReviewInit
<1> QED
  BY <1>1, <1>2, LiveRulesType DEF FrozenInv, FrozenWhileApproved, ReviewInit, Init, NoTx

LEMMA FrozenInvStep ==
  ASSUME FrozenInv, Next, Review
  PROVE  FrozenInv'
<1>0. /\ TypeInv /\ TypeInv' /\ approvedRules \in [Revision -> SUBSET SUBSET RulePool]
      /\ EditingTypeOK /\ EditingTypeOK'
  BY NextTypeInv DEF FrozenInv, TypeInv, TypeOK
<1>1. \A r \in Revision :
        /\ approvedRules[r] \subseteq approvedRules'[r]
        /\ status'[r] = "APPROVED" => LiveRules(r)' \in approvedRules'[r]
  BY DEF Review
<1>2. \A r \in Revision : LiveRules(r)' \in SUBSET RulePool
  BY <1>0 DEF EditingTypeOK, LiveRules
<1>3. approvedRules' \in [Revision -> SUBSET SUBSET RulePool]
  BY <1>0, <1>2 DEF Review
<1>4. ASSUME NEW w \in Publisher, tx'[w].pc # "idle"
      PROVE  tx'[w].rules \in approvedRules'[tx'[w].revision]
  <2>1. tx'[w].revision \in Revision
    BY <1>0, <1>4 DEF TypeInv, TypeOK, PublishingTypeOK, Transaction, NoTx, RunningTx
  <2>2. CASE Continues(w)
    <3>1. /\ tx[w].rules \in approvedRules[tx[w].revision]
          /\ tx'[w].rules = tx[w].rules /\ tx'[w].revision = tx[w].revision
      BY <2>2 DEF Continues, FrozenInv
    <3> QED BY <1>1, <2>1, <3>1
  <2>3. ASSUME NEW r \in Revision, BeginPublish(w, r)
        PROVE  tx'[w].rules \in approvedRules'[tx'[w].revision]
    <3>1. tx'[w].revision = r /\ tx'[w].rules = LiveRules(r) /\ status[r] = "APPROVED"
      BY <1>0, <2>3 DEF BeginPublish, TypeInv, TypeOK, PublishingTypeOK
    <3> QED BY <1>1, <2>1, <3>1 DEF FrozenInv
  <2> QED BY <1>0, <1>4, <2>2, <2>3, ContinuesOrBegins
<1>5. ASSUME NEW p \in Published' PROVE pub'[p].rules \in approvedRules'[pub'[p].revision]
  <2>1. pub'[p].revision \in Revision
    BY <1>0, <1>5 DEF TypeInv, TypeOK, PublishingTypeOK, Published, Publication
  <2>2. pub'[p].rules \in approvedRules[pub'[p].revision]
    BY <1>0, <1>5, PublishedIsCarried DEF FrozenInv, FrozenWhileApproved
  <2> QED BY <1>1, <2>1, <2>2
<1> QED BY <1>0, <1>1, <1>3, <1>4, <1>5 DEF FrozenInv, FrozenWhileApproved

\* What a publication froze is a rule set its revision carried while it was APPROVED,
\* however long the transaction took and whatever was edited meanwhile.
THEOREM WhatIsFrozenWasApproved == ReviewSpec => []FrozenWhileApproved
<1>1. FrozenInv /\ [ReviewNext]_reviewVars => FrozenInv'
  <2>1. ASSUME FrozenInv, UNCHANGED reviewVars PROVE FrozenInv'
    <3>1. TypeInv'
      BY <2>1, NextTypeInv DEF FrozenInv, reviewVars
    <3> QED
      BY <2>1, <3>1
         DEF FrozenInv, reviewVars, vars, editingVars, publishingVars, FrozenWhileApproved,
             Published, LiveRules
  <2> QED BY <2>1, FrozenInvStep DEF ReviewNext
<1>2. FrozenInv => FrozenWhileApproved
  BY DEF FrozenInv
<1> QED BY <1>1, <1>2, InitFrozenInv, PTL DEF ReviewSpec

----------------------------------------------------------------------------
\* The audit trail tells of nothing that did not happen

AuditInv ==
  /\ TypeInv
  /\ AuditTellsTheTruth
  /\ \A e \in Editor :
       /\ edit[e].pc = "audit" /\ edit[e].action # "UPDATE"
            => <<edit[e].action, edit[e].revision>> \in changed
       /\ edit[e].pc = "write" /\ edit[e].action = status[edit[e].revision]
            => <<edit[e].action, edit[e].revision>> \in changed
  /\ \A v \in Revoker : revocation[v].pc = "audit" => ~IsActive(revocation[v].publication)

LEMMA ChangesGrow ==
  ASSUME Changes
  PROVE  /\ changed \subseteq changed'
         /\ \A r \in Revision :
              /\ status'[r] # status[r] => <<status'[r], r>> \in changed'
              /\ (\E row \in Row : rules[r][row] = Null /\ rules'[r][row] # Null)
                   => <<"CREATE", r>> \in changed'
              /\ (\E row \in Row : rules[r][row] # Null /\ rules'[r][row] = Null)
                   => <<"DELETE", r>> \in changed'
  BY DEF Changes

LEMMA AuditSteps ==
  ASSUME TypeInv, Next
  PROVE  \/ EditMove
         \/ \E p \in Published' : audit' = audit \cup {<<"PUBLICATION_CREATED", p>>}
         \/ \E v \in Revoker : RecordRevoke(v)
         \/ UNCHANGED audit
<1>1. ASSUME NEW w \in Publisher, NEW p \in PubId, NEW t \in tx[w].since .. now,
             CommitPublish(w, p, t)
      PROVE  p \in Published' /\ audit' = audit \cup {<<"PUBLICATION_CREATED", p>>}
  <2>1. pub' \in [PubId -> Publication \cup {Null}] /\ pub \in [PubId -> Publication \cup {Null}]
    BY NextTypeInv DEF TypeInv, TypeOK, PublishingTypeOK
  <2> DEFINE new == [revision |-> tx[w].revision, rules |-> tx[w].rules, status |-> "ACTIVE",
                     publishedAt |-> t, revokedAt |-> Null]
  <2>2. pub'[p] = new
    BY <1>1, <2>1 DEF CommitPublish
  <2>3. new \in Publication
    <3>1. tx[w] \in RunningTx
      BY <1>1, InFlightTx DEF CommitPublish, TypeInv, TypeOK, PublishingTypeOK
    <3>2. t \in Nat
      BY <1>1, <3>1 DEF RunningTx, TypeInv, TypeOK, PublishingTypeOK
    <3> QED BY <3>1, <3>2 DEF RunningTx, Publication
  <2> QED BY <1>1, <2>2, <2>3, PublishingAssumption DEF CommitPublish, Published
<1> QED
  BY <1>1, EditMoves
     DEF Next, TypeInv, TypeOK, editingVars, BeginPublish, PublishStep, RequestLock,
         CheckConflicts, RejectConflict, RefuseSerialization, PublishFails, RollBack,
         ReadForRevoke, RevokeStep, WriteRevoke, RevokeFails, Tick

LEMMA RevocationSteps ==
  ASSUME TypeInv, Next, NEW v \in Revoker, revocation'[v].pc = "audit"
  PROVE  \/ revocation'[v] = revocation[v]
         \/ /\ revocation'[v].publication \in Published
            /\ pub'[revocation'[v].publication].status = "REVOKED"
<1> USE DEF TypeInv, TypeOK, PublishingTypeOK
<1>1. ASSUME NEW x \in Revoker, x # v,
             \/ \E p \in PubId : ReadForRevoke(x, p)
             \/ RevokeStep(x) \/ RevokeFails(x)
      PROVE  revocation'[v] = revocation[v]
  BY <1>1 DEF ReadForRevoke, RevokeStep, WriteRevoke, RecordRevoke, RevokeFails
<1>2. (\E p \in PubId : ReadForRevoke(v, p)) \/ RecordRevoke(v) \/ RevokeFails(v) => FALSE
  BY DEF ReadForRevoke, RecordRevoke, RevokeFails, NoRevocation
<1>3. ASSUME NEW t \in revocation[v].since .. now, WriteRevoke(v, t)
      PROVE  /\ revocation'[v].publication \in Published
             /\ pub'[revocation'[v].publication].status = "REVOKED"
  <2>1. revocation[v] \in RunningRevocation
    BY <1>3, InFlightRevocation DEF WriteRevoke
  <2>2. revocation'[v].publication = revocation[v].publication
    BY <1>3, <2>1 DEF WriteRevoke, RunningRevocation
  <2>3. revocation[v].publication \in Published
    BY <1>3 DEF WriteRevoke, RevocationsRefer
  <2> DEFINE p == revocation[v].publication
  <2>4. pub[p] \in Publication /\ p \in PubId
    BY <2>3 DEF Published
  <2>5. pub'[p] = [pub[p] EXCEPT !.status = "REVOKED", !.revokedAt = t]
    BY <1>3, <2>4 DEF WriteRevoke
  <2>6. pub'[p].status = "REVOKED"
    BY <2>4, <2>5 DEF Publication
  <2> QED BY <2>2, <2>3, <2>6
<1> QED
  BY <1>1, <1>2, <1>3
     DEF Next, RevokeStep, publishingVars, BeginPublish, PublishStep, RequestLock,
         CheckConflicts, RejectConflict, CommitPublish, RefuseSerialization, PublishFails,
         RollBack, Tick

LEMMA AuditInvStep ==
  ASSUME AuditInv, Next, Changes
  PROVE  AuditInv'
<1>0. TypeInv /\ TypeInv' /\ EditingTypeOK /\ EditingTypeOK'
  BY NextTypeInv DEF AuditInv, TypeInv, TypeOK
<1>1. \A p \in Published : p \in Published' /\ (~IsActive(p) => ~IsActive(p)')
  <2>1. ASSUME NEW p \in Published PROVE p \in Published' /\ (~IsActive(p) => ~IsActive(p)')
    <3>1. Frozen(p)
      BY <1>0, PublicationsAreFrozen
    <3> QED BY <3>1 DEF Frozen, IsActive, Published
  <2> QED BY <2>1
<1>2. ASSUME NEW v \in Revoker, revocation'[v].pc = "audit"
      PROVE  ~IsActive(revocation[v].publication)'
  <2>1. CASE revocation'[v] = revocation[v]
    <3>1. revocation[v].publication \in Published /\ ~IsActive(revocation[v].publication)
      BY <1>0, <1>2, <2>1 DEF AuditInv, TypeInv, RevocationsRefer
    <3> QED BY <1>1, <2>1, <3>1 DEF IsActive
  <2>2. CASE pub'[revocation'[v].publication].status = "REVOKED"
    BY <2>2 DEF IsActive
  <2> QED BY <1>0, <1>2, <2>1, <2>2, RevocationSteps
<1>3. ASSUME NEW e \in Editor, edit'[e].pc = "audit", edit'[e].action # "UPDATE"
      PROVE  <<edit'[e].action, edit'[e].revision>> \in changed'
  <2>1. CASE edit'[e] = edit[e]
    BY <1>3, <2>1, ChangesGrow DEF AuditInv
  <2>2. CASE edit'[e] # edit[e]
    <3>1. Writes(e)
      BY <1>0, <1>3, <2>2, EditingOrNot DEF EditMove, TakesUp, Ends
    <3> DEFINE r == edit[e].revision
    <3>2. edit'[e].action = edit[e].action /\ edit'[e].revision = r /\ r \in Revision
      BY <3>1 DEF Writes
    <3>3. CASE edit[e].action \in RevisionStatus
      <4>1. status'[r] = edit[e].action /\ edit[e].pc = "write"
        BY <3>1, <3>3 DEF Writes, RevisionStatus
      <4> QED BY <3>2, <4>1, ChangesGrow DEF AuditInv
    <3>4. CASE edit[e].action \in {"CREATE", "DELETE"}
      BY <3>1, <3>2, <3>4, ChangesGrow DEF Writes
    <3> QED BY <1>3, <3>1, <3>2, <3>3, <3>4 DEF Writes
  <2> QED BY <2>1, <2>2
<1>4. ASSUME NEW e \in Editor, edit'[e].pc = "write",
             edit'[e].action = status'[edit'[e].revision]
      PROVE  <<edit'[e].action, edit'[e].revision>> \in changed'
  <2>1. edit'[e].revision \in Revision
    BY <1>0, <1>4
       DEF EditingTypeOK, EditRequest, NoEdit, TransitionRequest, CreateRequest, RowRequest
  <2>2. CASE edit'[e] = edit[e]
    BY <1>4, <2>1, <2>2, ChangesGrow DEF AuditInv
  <2>3. CASE edit'[e] # edit[e]
    <3>1. TakesUp(e)
      BY <1>0, <1>4, <2>3, EditingOrNot DEF EditMove, Writes, Ends
    <3>2. status'[edit'[e].revision] \in RevisionStatus /\ UNCHANGED status
      BY <1>0, <2>1, <3>1 DEF EditingTypeOK, TakesUp
    <3> QED BY <1>4, <3>1, <3>2 DEF TakesUp, Transitions, RevisionStatus
  <2> QED BY <2>2, <2>3
<1>5. AuditTellsTheTruth'
  <2> DEFINE Told == changed' \cup ({"PUBLICATION_CREATED"} \X Published')
                       \cup ({"PUBLICATION_REVOKED"} \X {p \in Published' : ~IsActive(p)'})
  <2>1. audit \ ({"UPDATE"} \X Revision) \subseteq Told
    <3>1. {p \in Published : ~IsActive(p)} \subseteq {p \in Published' : ~IsActive(p)'}
      BY <1>1
    <3> QED BY <1>1, <3>1, ChangesGrow DEF AuditInv, AuditTellsTheTruth
  <2>2. ASSUME NEW event, audit' = audit \cup {event}, event \in Told
        PROVE  AuditTellsTheTruth'
    BY <2>1, <2>2 DEF AuditTellsTheTruth
  <2>3. CASE UNCHANGED audit
    BY <2>1, <2>3 DEF AuditTellsTheTruth
  <2>4. CASE EditMove
    <3>1. PICK e \in Editor : TakesUp(e) \/ Writes(e) \/ Ends(e)
      BY <2>4 DEF EditMove
    <3>2. CASE TakesUp(e) \/ Writes(e)
      BY <2>3, <3>2 DEF TakesUp, Writes
    <3>3. ASSUME edit[e].pc = "audit", audit' = audit \cup {<<edit[e].action, edit[e].revision>>}
          PROVE  AuditTellsTheTruth'
      <4>1. CASE edit[e].action = "UPDATE"
        <5>1. <<edit[e].action, edit[e].revision>> \in {"UPDATE"} \X Revision
          BY <1>0, <3>3, <4>1, EditInFlight
        <5> QED BY <2>1, <3>3, <5>1 DEF AuditTellsTheTruth
      <4>2. CASE edit[e].action # "UPDATE"
        <5>1. <<edit[e].action, edit[e].revision>> \in Told
          BY <3>3, <4>2, ChangesGrow DEF AuditInv
        <5> QED BY <2>2, <3>3, <5>1
      <4> QED BY <4>1, <4>2
    <3> QED BY <2>3, <3>1, <3>2, <3>3 DEF Ends
  <2>5. ASSUME NEW p \in Published', audit' = audit \cup {<<"PUBLICATION_CREATED", p>>}
        PROVE  AuditTellsTheTruth'
    BY <2>2, <2>5
  <2>6. ASSUME NEW v \in Revoker, RecordRevoke(v) PROVE AuditTellsTheTruth'
    <3> DEFINE p == revocation[v].publication
    <3>1. p \in Published /\ ~IsActive(p)
      BY <1>0, <2>6 DEF RecordRevoke, AuditInv, TypeInv, RevocationsRefer
    <3>2. <<"PUBLICATION_REVOKED", p>> \in Told
      BY <1>1, <3>1
    <3> QED BY <2>2, <2>6, <3>2 DEF RecordRevoke
  <2> QED BY <1>0, <2>3, <2>4, <2>5, <2>6, AuditSteps
<1> QED BY <1>0, <1>2, <1>3, <1>4, <1>5 DEF AuditInv, IsActive

LEMMA InitAuditInv == ReviewInit => AuditInv
  BY InitTypeInv
     DEF ReviewInit, Init, EditingInit, AuditInv, AuditTellsTheTruth, NoEdit, NoRevocation

\* The audit trail may lack an event, but it never tells of a transition, a creation,
\* a deletion, a publication or a revocation that did not happen, wherever the process
\* dies and however requests for one revision race.
THEOREM TheAuditTellsTheTruth == ReviewSpec => []AuditTellsTheTruth
<1>1. AuditInv /\ [ReviewNext]_reviewVars => AuditInv'
  <2>1. ASSUME AuditInv, UNCHANGED reviewVars PROVE AuditInv'
    <3>1. TypeInv'
      BY <2>1, NextTypeInv DEF AuditInv, reviewVars
    <3> QED
      BY <2>1, <3>1
         DEF AuditInv, reviewVars, vars, editingVars, publishingVars, AuditTellsTheTruth,
             Published, IsActive
  <2> QED BY <2>1, AuditInvStep DEF ReviewNext
<1>2. AuditInv => AuditTellsTheTruth
  BY DEF AuditInv
<1> QED BY <1>1, <1>2, InitAuditInv, PTL DEF ReviewSpec

----------------------------------------------------------------------------
(***************************************************************************)
(* Looking up the past.  Two requests that revoke a publication at once    *)
(* can move its end past the beginning of the one that replaced it; of     *)
(* publications no two requests revoked at once, no moment ever had two    *)
(* winners.                                                                *)
(***************************************************************************)

\* p was revoked before q was published.
Before(p, q) ==
  /\ pub[p].status = "REVOKED"
  /\ pub[p].revokedAt <= pub[q].publishedAt

\* What two requests are at work on is known to be contested; what a request is
\* about to write to is contested or still ACTIVE.
ContestInv ==
  /\ \A v, x \in Revoker :
       v # x /\ revocation[v].pc # "idle" /\ revocation[x].pc # "idle"
         /\ revocation[v].publication = revocation[x].publication
         => revocation[v].publication \in contested
  /\ \A v \in Revoker : revocation[v].pc = "write" =>
       revocation[v].publication \in contested \/ IsActive(revocation[v].publication)

\* What a transaction saw and did not have to check had ended before.
EndedInv ==
  \A w \in Publisher : tx[w].pc # "idle" =>
    \A p \in tx[w].seen \ tx[w].seenActive :
      KeyOfPub(p) = TxKey(w) /\ p \notin contested =>
        pub[p].status = "REVOKED" /\ pub[p].revokedAt <= tx[w].since

\* Conflicting publications of a key were never in force together.
DisjointInv ==
  \A p, q \in Published \ contested :
    /\ p # q /\ KeyOfPub(p) = KeyOfPub(q)
    /\ RuleSetsConflict(pub[p].rules, pub[q].rules)
    => Before(p, q) \/ Before(q, p)

HistoryInv == SafetyInv /\ TimeInv /\ ContestInv /\ EndedInv /\ DisjointInv

LEMMA InitHistoryInv == ReviewInit => HistoryInv
  BY InitSafetyInv
     DEF ReviewInit, Init, HistoryInv, TimeInv, ContestInv, EndedInv, DisjointInv,
         Published, NoTx, NoRevocation

\* A publication that is revoked and not contested stays as it is.
LEMMA UncontestedStays ==
  ASSUME TypeInv, ContestInv, [Next]_vars,
         NEW p \in Published \ contested, pub[p].status = "REVOKED"
  PROVE  pub'[p] = pub[p]
<1>1. ASSUME NEW v \in Revoker, revocation[v].pc = "write", revocation[v].publication = p
      PROVE  FALSE
  <2>1. IsActive(p)
    BY <1>1 DEF ContestInv
  <2> QED BY <2>1 DEF IsActive
<1>2. p \in Published
  OBVIOUS
<1> QED BY <1>1, <1>2, RevokedMoves

LEMMA ContestInvStep ==
  ASSUME TypeInv, ContestInv, [Next]_vars, Contest
  PROVE  ContestInv'
<1>1. contested \subseteq contested'
  BY DEF Contest
<1>2. TypeInv'
  BY NextTypeInv
<1>3. ASSUME NEW v \in Revoker, NEW x \in Revoker, v # x,
             revocation'[v].pc # "idle", revocation'[x].pc # "idle",
             revocation'[v].publication = revocation'[x].publication
      PROVE  revocation'[v].publication \in contested'
  <2>1. revocation'[v].publication \in PubId
    BY <1>2, <1>3
       DEF TypeInv, TypeOK, PublishingTypeOK, Revocation, RunningRevocation, NoRevocation
  <2> QED BY <1>3, <2>1 DEF Contest
<1>4. ASSUME NEW v \in Revoker, revocation'[v].pc = "write"
      PROVE  \/ revocation'[v].publication \in contested'
             \/ IsActive(revocation[v].publication)'
  <2>1. CASE IsActive(revocation'[v].publication) /\ UNCHANGED pub
    BY <2>1 DEF IsActive
  <2>2. CASE revocation'[v] = revocation[v]
    <3> DEFINE p == revocation[v].publication
    <3>1. p \in Published /\ p \in PubId
      BY <1>4, <2>2 DEF TypeInv, RevocationsRefer, Published
    <3>2. CASE p \in contested
      BY <1>1, <2>2, <3>2
    <3>3. CASE p \notin contested
      <4>1. IsActive(p)
        BY <1>4, <2>2, <3>3 DEF ContestInv
      <4>2. ASSUME NEW x \in Revoker, NEW t \in revocation[x].since .. now, WriteRevoke(x, t)
            PROVE  pub'[p] = pub[p]
        <5>1. x # v
          BY <1>4, <2>2, <4>2, InFlightRevocation
             DEF WriteRevoke, RunningRevocation, TypeInv, TypeOK, PublishingTypeOK
        <5>2. revocation[x].pc # "idle" /\ revocation[v].pc # "idle"
          BY <1>4, <2>2, <4>2 DEF WriteRevoke
        <5>3. revocation[x].publication # p
          BY <3>3, <5>1, <5>2 DEF ContestInv
        <5> QED BY <4>2, <5>3 DEF WriteRevoke
      <4>3. ASSUME NEW w \in Publisher, NEW q \in PubId, NEW t \in tx[w].since .. now,
                   CommitPublish(w, q, t)
            PROVE  pub'[p] = pub[p]
        BY <3>1, <4>3 DEF CommitPublish, TypeInv, TypeOK, PublishingTypeOK
      <4>4. pub'[p] = pub[p]
        BY <4>2, <4>3
           DEF Next, PublishStep, RevokeStep, vars, publishingVars, BeginPublish,
               RequestLock, CheckConflicts, RejectConflict, RefuseSerialization,
               PublishFails, RollBack, ReadForRevoke, RecordRevoke, RevokeFails, Tick
      <4> QED BY <2>2, <4>1, <4>4 DEF IsActive
    <3> QED BY <3>2, <3>3
  <2> QED BY <1>4, <2>1, <2>2, RevocationMoves
<1> QED BY <1>3, <1>4 DEF ContestInv

LEMMA EndedInvStep ==
  ASSUME TypeInv, SnapshotInv, TimeInv, ContestInv, EndedInv, [Next]_vars, Contest
  PROVE  EndedInv'
<1> SUFFICES ASSUME NEW w \in Publisher, tx'[w].pc # "idle",
                    NEW p \in tx'[w].seen \ tx'[w].seenActive, KeyOfPub(p)' = TxKey(w)',
                    p \notin contested'
             PROVE  pub'[p].status = "REVOKED" /\ pub'[p].revokedAt <= tx'[w].since
  BY DEF EndedInv
<1>0. p \notin contested
  BY DEF Contest
<1>1. CASE Continues(w)
  <2>1. p \in Published /\ p \in tx[w].seen \ tx[w].seenActive
    BY <1>1 DEF Continues, SnapshotInv
  <2>2. KeyOfPub(p) = TxKey(w)
    BY <1>1, <2>1, PublicationsAreFrozen DEF Frozen, Continues, KeyOfPub, TxKey
  <2>3. pub[p].status = "REVOKED" /\ pub[p].revokedAt <= tx[w].since
    BY <1>0, <1>1, <2>1, <2>2 DEF EndedInv, Continues
  <2>4. pub'[p] = pub[p]
    BY <1>0, <2>1, <2>3, UncontestedStays
  <2>5. pub[p].revokedAt <= now
    BY <2>1, <2>3 DEF TimeInv
  <2> QED BY <1>1, <2>3, <2>4, <2>5 DEF Continues
<1>2. CASE Begins(w)
  <2>1. p \in Published /\ pub' = pub /\ tx'[w].since = now
    BY <1>2 DEF Begins
  <2>2. pub[p].status # "ACTIVE"
    BY <1>2, <2>1 DEF Begins, ActivePubs, IsActive, KeyOfPub, Published
  <2>3. pub[p].status = "REVOKED"
    BY <2>1, <2>2 DEF TypeInv, TypeOK, PublishingTypeOK, Published, Publication
  <2> QED BY <2>1, <2>3 DEF TimeInv
<1> QED BY <1>1, <1>2, TxSteps

LEMMA DisjointInvStep ==
  ASSUME HistoryInv, [Next]_vars, Contest
  PROVE  DisjointInv'
<1> USE DEF HistoryInv, SafetyInv
<1>0. contested \subseteq contested'
  BY DEF Contest
<1> SUFFICES ASSUME NEW p \in Published' \ contested', NEW q \in Published' \ contested',
                    p # q, KeyOfPub(p)' = KeyOfPub(q)',
                    RuleSetsConflict(pub'[p].rules, pub'[q].rules)
             PROVE  Before(p, q)' \/ Before(q, p)'
  BY DEF DisjointInv
<1>1. CASE p \in Published /\ q \in Published
  <2>1. /\ KeyOfPub(p) = KeyOfPub(q)
        /\ RuleSetsConflict(pub[p].rules, pub[q].rules)
        /\ pub'[p].publishedAt = pub[p].publishedAt
        /\ pub'[q].publishedAt = pub[q].publishedAt
    BY <1>1, PublicationsAreFrozen DEF Frozen, KeyOfPub
  <2>2. Before(p, q) \/ Before(q, p)
    BY <1>0, <1>1, <2>1 DEF DisjointInv
  <2>3. /\ Before(p, q) => pub'[p] = pub[p]
        /\ Before(q, p) => pub'[q] = pub[q]
    BY <1>0, <1>1, UncontestedStays DEF Before
  <2> QED BY <2>1, <2>2, <2>3 DEF Before
<1>2. ASSUME NEW x \in PubId \ Published, NEW y \in Published' \ contested', x \in Published',
             x # y, KeyOfPub(x)' = KeyOfPub(y)', RuleSetsConflict(pub'[x].rules, pub'[y].rules)
      PROVE  Before(y, x)'
  <2>1. PICK w \in Publisher :
          \E z \in PubId, t \in tx[w].since .. now : CommitPublish(w, z, t)
    BY <1>2, NewIsCommitted
  <2>2. PICK z \in PubId, t \in tx[w].since .. now : CommitPublish(w, z, t)
    BY <2>1
  <2> USE DEF TypeInv, TypeOK, PublishingTypeOK
  <2>3. x = z /\ pub'[y] = pub[y] /\ y \in Published
    BY <1>2, <2>2 DEF CommitPublish, Published
  <2>4. /\ pub'[x].rules = tx[w].rules
        /\ pub'[x].publishedAt = t
        /\ KeyOfPub(x)' = TxKey(w)
    BY <2>2, <2>3 DEF CommitPublish, KeyOfPub, TxKey
  <2>5. KeyOfPub(y) = TxKey(w)
    BY <1>2, <2>3, <2>4 DEF KeyOfPub
  <2>6. y \in tx[w].seen
    BY <2>2, <2>3, <2>5 DEF CommitPublish, SerializationFailure
  <2>7. y \notin tx[w].seenActive
    BY <1>2, <2>2, <2>3, <2>4 DEF CommitPublish, CheckInv, FindConflicts
  <2>8. pub[y].status = "REVOKED" /\ pub[y].revokedAt <= tx[w].since
    BY <1>0, <1>2, <2>2, <2>5, <2>6, <2>7 DEF CommitPublish, EndedInv
  <2>9. tx[w].since \in Nat /\ now \in Nat /\ tx[w].since <= t /\ pub[y].revokedAt \in Nat
    BY <2>2, <2>3, <2>8, InFlightTx DEF CommitPublish, RunningTx, TimeInv
  <2> QED BY <2>3, <2>4, <2>8, <2>9 DEF Before
<1>3. p \in PubId /\ q \in PubId
  BY DEF Published
<1>4. CASE p \notin Published
  BY <1>2, <1>3, <1>4
<1>5. CASE q \notin Published
  BY <1>2, <1>3, <1>5, ConflictIsSymmetric
<1> QED BY <1>1, <1>4, <1>5

LEMMA HistoryInvStep == HistoryInv /\ [ReviewNext]_reviewVars => HistoryInv'
<1>1. SafetyInv /\ [Next]_vars => SafetyInv'
  BY NextTypeInv, SnapshotInvStep, CheckInvStep, NoCompetingStep DEF SafetyInv
<1>2. ASSUME HistoryInv, Next, Contest PROVE HistoryInv'
  BY <1>1, <1>2, TimeInvStep, ContestInvStep, EndedInvStep, DisjointInvStep
     DEF HistoryInv, SafetyInv
<1>3. ASSUME HistoryInv, UNCHANGED reviewVars PROVE HistoryInv'
  <2>1. SafetyInv' /\ TimeInv'
    BY <1>1, <1>3, TimeInvStep DEF HistoryInv, SafetyInv, reviewVars
  <2> QED
    BY <1>3, <2>1
       DEF HistoryInv, ContestInv, EndedInv, DisjointInv, Before, Published, IsActive,
           KeyOfPub, TxKey, reviewVars, vars, publishingVars, raceVars
<1> QED BY <1>2, <1>3 DEF ReviewNext, Races

\* Looking up what applied at any earlier moment never ends in a tie either, unless
\* one of the winners was being revoked by two requests at once
\* (resolver.service.ts:23-92), for any number of requests.
THEOREM HistoryUnambiguousEver == ReviewSpec => []HistoryUnambiguous
<1>1. HistoryInv => HistoryUnambiguous
  <2> SUFFICES ASSUME HistoryInv, NEW k \in Key, NEW context \in ContextPool,
                      NEW t \in 0 .. now, NEW p \in Top(k, context, t) \ contested,
                      NEW q \in Top(k, context, t) \ contested, p # q
               PROVE  FALSE
    BY DEF HistoryUnambiguous
  <2>1. TypeInv
    BY DEF HistoryInv, SafetyInv
  <2>2. RuleSetsConflict(pub[p].rules, pub[q].rules)
    BY <2>1, TopsTie, PublishingAssumption
  <2>3. \A x \in Top(k, context, t) :
          x \in Published /\ InForce(x, t) /\ KeyOfPub(x) = k
    BY DEF Top, Candidates, InForce, Published
  <2>4. Before(p, q) \/ Before(q, p)
    BY <2>2, <2>3 DEF HistoryInv, DisjointInv
  <2>5. ASSUME NEW x \in Top(k, context, t), NEW y \in Top(k, context, t)
        PROVE  ~Before(x, y)
    <3>1. pub[y] \in Publication /\ t \in Nat
      BY <2>1, <2>3 DEF TypeInv, TypeOK, PublishingTypeOK, Published
    <3>2. pub[y].publishedAt \in Nat /\ pub[y].publishedAt <= t
      BY <2>3, <3>1 DEF InForce, Publication
    <3>3. pub[x].status = "REVOKED" => pub[x].revokedAt \in Nat /\ t < pub[x].revokedAt
      BY <2>3, NullAssumption DEF HistoryInv, TimeInv, InForce
    <3> QED BY <3>1, <3>2, <3>3 DEF Before
  <2> QED BY <2>4, <2>5
<1> QED BY <1>1, InitHistoryInv, HistoryInvStep, PTL DEF ReviewSpec
=============================================================================
