-------------------------- MODULE PublishingProofs --------------------------
(***************************************************************************)
(* What holds of Publishing for any number of revisions, rules,            *)
(* publications and requests in flight.                                    *)
(***************************************************************************)
EXTENDS Publishing, ApplicabilityProofs

----------------------------------------------------------------------------
\* Type correctness

\* A queue of publishers with one of them taken out is a queue of publishers.
LEMMA LeaveType ==
  ASSUME NEW queue \in Seq(Publisher), NEW w
  PROVE  Leave(queue, w) \in Seq(Publisher)
<1>1. CASE \E i \in 1 .. Len(queue) : queue[i] = w
  <2> DEFINE i == CHOOSE i \in 1 .. Len(queue) : queue[i] = w
             q == [j \in 1 .. Len(queue) - 1 |-> queue[IF j < i THEN j ELSE j + 1]]
  <2>1. i \in 1 .. Len(queue)
    BY <1>1
  <2>2. Len(queue) - 1 \in Nat
    BY <2>1
  <2>3. \A j \in 1 .. Len(queue) - 1 : q[j] \in Publisher
    BY <2>1, <2>2
  <2>4. q \in Seq(Publisher)
    BY <2>2, <2>3
  <2> QED BY <1>1, <2>4 DEF Leave
<1>2. CASE ~\E i \in 1 .. Len(queue) : queue[i] = w
  BY <1>2 DEF Leave
<1> QED BY <1>1, <1>2

\* Whoever is at the head of a queue stays there when another one leaves.
LEMMA LeaveKeepsHead ==
  ASSUME NEW queue \in Seq(Publisher), queue # << >>, NEW w, w # Head(queue)
  PROVE  Leave(queue, w) # << >> /\ Head(Leave(queue, w)) = Head(queue)
<1>1. CASE \E i \in 1 .. Len(queue) : queue[i] = w
  <2> DEFINE i == CHOOSE i \in 1 .. Len(queue) : queue[i] = w
             q == [j \in 1 .. Len(queue) - 1 |-> queue[IF j < i THEN j ELSE j + 1]]
  <2>1. i \in 1 .. Len(queue) /\ queue[i] = w
    BY <1>1
  <2>2. i # 1
    BY <2>1
  <2>3. 1 \in 1 .. Len(queue) - 1 /\ 1 < i
    BY <2>1, <2>2
  <2>4. q[1] = queue[1]
    BY <2>3
  <2>5. Leave(queue, w) = q
    BY <1>1 DEF Leave
  <2>6. q \in Seq(Publisher)
    BY <2>5, LeaveType
  <2>7. q # << >>
    <3>1. DOMAIN q = 1 .. Len(queue) - 1
      OBVIOUS
    <3>2. DOMAIN << >> = {}
      OBVIOUS
    <3> HIDE DEF q
    <3> QED BY <2>3, <3>1, <3>2
  <2>8. Head(queue) = queue[1]
    OBVIOUS
  <2> HIDE DEF q
  <2>9. Head(q) = q[1]
    BY <2>6, <2>7
  <2> QED BY <2>4, <2>5, <2>7, <2>8, <2>9
<1>2. CASE ~\E i \in 1 .. Len(queue) : queue[i] = w
  BY <1>2 DEF Leave
<1> QED BY <1>1, <1>2

\* TypeOK and RevocationsRefer depend on one another: revoking a publication
\* that is not there would write no publication.
TypeInv == TypeOK /\ RevocationsRefer

LEMMA InitTypeInv == Init => TypeInv
  BY EditingAssumption, PublishingAssumption
     DEF Init, EditingInit, TypeInv, TypeOK, EditingTypeOK, PublishingTypeOK,
         EditRequest, Transaction, Revocation, RevocationsRefer, NoRevocation

\* Editing keeps its own part of the type.
LEMMA EditingKeepsType ==
  ASSUME EditingTypeOK, EditingNext
  PROVE  EditingTypeOK'
<1> USE EditingAssumption
<1>1. PICK e \in Editor : EditStep(e)
  BY DEF EditingNext
<1>2. NoEdit \in EditRequest
  BY DEF EditRequest
<1>3. ASSUME NEW r \in Revision, NEW target \in RevisionStatus,
             ReadForTransition(e, r, target)
      PROVE  EditingTypeOK'
  <2>1. [pc |-> "write", revision |-> r, action |-> target, row |-> Null] \in EditRequest
    BY DEF EditRequest, TransitionRequest
  <2> QED BY <1>3, <2>1 DEF ReadForTransition, EditingTypeOK
<1>4. ASSUME edit[e].pc = "write" PROVE [edit[e] EXCEPT !.pc = "audit"] \in EditRequest
  <2>1. edit[e] \in TransitionRequest \/ edit[e] \in CreateRequest \/ edit[e] \in RowRequest
    BY <1>4 DEF EditingTypeOK, EditRequest, NoEdit
  <2>2. CASE edit[e] \in TransitionRequest
    BY <2>2 DEF TransitionRequest, EditRequest
  <2>3. CASE edit[e] \in CreateRequest
    BY <2>3 DEF CreateRequest, EditRequest
  <2>4. CASE edit[e] \in RowRequest
    BY <2>4 DEF RowRequest, EditRequest
  <2> QED BY <2>1, <2>2, <2>3, <2>4
<1>5. ASSUME edit[e].pc = "write", edit' = [edit EXCEPT ![e].pc = "audit"]
      PROVE  edit' \in [Editor -> EditRequest]
  BY <1>4, <1>5 DEF EditingTypeOK
<1>6. ASSUME WriteStatus(e) PROVE EditingTypeOK'
  <2>1. status' \in [Revision -> RevisionStatus]
    BY <1>6 DEF WriteStatus, EditingTypeOK
  <2> QED BY <1>5, <1>6, <2>1 DEF WriteStatus, EditingTypeOK
<1>7. ASSUME NEW r \in Revision, NEW action \in {"CREATE", "UPDATE", "DELETE"},
             NEW row \in Row \cup {Null}, ReadForRuleEdit(e, r, action, row)
      PROVE  EditingTypeOK'
  <2>1. [pc |-> "write", revision |-> r, action |-> action, row |-> row] \in EditRequest
    BY <1>7 DEF ReadForRuleEdit, EditRequest, CreateRequest, RowRequest
  <2> QED BY <1>7, <2>1 DEF ReadForRuleEdit, EditingTypeOK
<1>8. ASSUME NEW rows, NEW r, NEW rule \in RulePool \cup {Null},
             rules' = [rules EXCEPT ![r][rows] = rule]
      PROVE  rules' \in [Revision -> [Row -> RulePool \cup {Null}]]
  BY <1>8 DEF EditingTypeOK
<1>9. ASSUME NEW row \in Row, NEW rule \in RulePool, WriteNewRule(e, row, rule)
      PROVE  EditingTypeOK'
  BY <1>5, <1>8, <1>9 DEF WriteNewRule, EditingTypeOK
<1>10. ASSUME NEW rule \in RulePool, WriteRule(e, rule) PROVE EditingTypeOK'
  BY <1>5, <1>8, <1>10 DEF WriteRule, EditingTypeOK
<1>11. ASSUME DeleteRule(e) PROVE EditingTypeOK'
  BY <1>5, <1>8, <1>11 DEF DeleteRule, EditingTypeOK
<1>12. ASSUME RuleGone(e) \/ RecordEdit(e) \/ EditFails(e) PROVE EditingTypeOK'
  BY <1>2, <1>12 DEF RuleGone, RecordEdit, EditFails, EditingTypeOK
<1> QED BY <1>1, <1>3, <1>6, <1>7, <1>9, <1>10, <1>11, <1>12 DEF EditStep

\* A transaction that ends, however it ends, leaves its variables typed.
LEMMA EndingKeepsType ==
  ASSUME PublishingTypeOK, NEW w \in Publisher, tx' = [tx EXCEPT ![w] = NoTx], Release(w)
  PROVE  /\ tx' \in [Publisher -> Transaction]
         /\ lockQueue' \in [Key -> Seq(Publisher)]
<1>1. NoTx \in Transaction
  BY DEF Transaction
<1> QED BY <1>1, LeaveType DEF Release, PublishingTypeOK

\* A request in flight carries a revision, or a publication, to work on.
LEMMA InFlightTx ==
  ASSUME PublishingTypeOK, NEW w \in Publisher, tx[w].pc # "idle"
  PROVE  tx[w] \in RunningTx
  BY DEF PublishingTypeOK, Transaction, NoTx

LEMMA InFlightRevocation ==
  ASSUME PublishingTypeOK, NEW v \in Revoker, revocation[v].pc # "idle"
  PROVE  revocation[v] \in RunningRevocation
  BY DEF PublishingTypeOK, Revocation, NoRevocation

LEMMA NextTypeInv == TypeInv /\ [Next]_vars => TypeInv'
<1> SUFFICES ASSUME TypeInv, [Next]_vars PROVE TypeInv'
  OBVIOUS
<1> USE PublishingAssumption DEF TypeInv, TypeOK
<1>0. ASSUME UNCHANGED editingVars, PublishingTypeOK', RevocationsRefer' PROVE TypeInv'
  BY <1>0 DEF editingVars, EditingTypeOK
<1>1. ASSUME EditingNext, UNCHANGED publishingVars PROVE TypeInv'
  BY <1>1, EditingKeepsType
     DEF publishingVars, PublishingTypeOK, RevocationsRefer, Published
<1>2. ASSUME NEW w \in Publisher, NEW r \in Revision, BeginPublish(w, r) PROVE TypeInv'
  <2>1. LiveRules(r) \in SUBSET RulePool /\ now \in Nat
    BY DEF LiveRules, EditingTypeOK, PublishingTypeOK
  <2>2. Published \in SUBSET PubId /\ ActivePubs(KeyOf[r]) \in SUBSET PubId
    BY DEF Published, ActivePubs
  <2>3. tx' \in [Publisher -> Transaction]
    BY <1>2, <2>1, <2>2 DEF BeginPublish, PublishingTypeOK, Transaction, RunningTx
  <2> QED BY <1>0, <1>2, <2>3 DEF BeginPublish, PublishingTypeOK, RevocationsRefer, Published
<1>3. ASSUME NEW w \in Publisher, RequestLock(w) PROVE TypeInv'
  <2>1. [tx[w] EXCEPT !.pc = "waiting"] \in Transaction
    BY <1>3, InFlightTx DEF RequestLock, RunningTx, Transaction
  <2>2. tx' \in [Publisher -> Transaction]
    BY <1>3, <2>1 DEF RequestLock, PublishingTypeOK
  <2>3. lockQueue' \in [Key -> Seq(Publisher)]
    <3>1. \A k \in Key : Append(lockQueue[k], w) \in Seq(Publisher)
      BY DEF PublishingTypeOK
    <3> QED BY <1>3, <3>1 DEF RequestLock, PublishingTypeOK
  <2> QED BY <1>0, <1>3, <2>2, <2>3 DEF RequestLock, PublishingTypeOK, RevocationsRefer, Published
<1>4. ASSUME NEW w \in Publisher, CheckConflicts(w) PROVE TypeInv'
  <2>1. [tx[w] EXCEPT !.pc = "checked", !.since = now] \in Transaction
    <3>1. now \in Nat
      BY DEF PublishingTypeOK
    <3> QED BY <1>4, <3>1, InFlightTx DEF CheckConflicts, RunningTx, Transaction
  <2>2. tx' \in [Publisher -> Transaction]
    BY <1>4, <2>1 DEF CheckConflicts, PublishingTypeOK
  <2> QED BY <1>0, <1>4, <2>2 DEF CheckConflicts, PublishingTypeOK, RevocationsRefer, Published
<1>5. ASSUME NEW w \in Publisher,
             RejectConflict(w) \/ RefuseSerialization(w) \/ PublishFails(w)
      PROVE  TypeInv'
  <2>1. RollBack(w)
    BY <1>5 DEF RejectConflict, RefuseSerialization, PublishFails, RollBack
  <2> QED BY <1>0, <2>1, EndingKeepsType
          DEF RollBack, PublishingTypeOK, RevocationsRefer, Published
<1>6. ASSUME NEW w \in Publisher, NEW p \in PubId, NEW t \in tx[w].since .. now,
             CommitPublish(w, p, t)
      PROVE  TypeInv'
  <2>1. /\ tx[w].revision \in Revision
        /\ tx[w].rules \in SUBSET RulePool
        /\ t \in Nat
    BY <1>6, InFlightTx DEF CommitPublish, PublishingTypeOK, RunningTx
  <2>2. pub' \in [PubId -> Publication \cup {Null}]
    BY <1>6, <2>1 DEF CommitPublish, PublishingTypeOK, Publication
  <2>3. tx' \in [Publisher -> Transaction] /\ lockQueue' \in [Key -> Seq(Publisher)]
    BY <1>6, EndingKeepsType DEF CommitPublish
  <2>4. PublishingTypeOK' /\ EditingTypeOK'
    BY <1>6, <2>2, <2>3 DEF CommitPublish, PublishingTypeOK, EditingTypeOK
  <2>5. Published \subseteq Published'
    BY <1>6 DEF CommitPublish, Published, PublishingTypeOK
  <2> QED BY <1>6, <2>4, <2>5 DEF CommitPublish, RevocationsRefer
<1>7. ASSUME NEW v \in Revoker, NEW p \in PubId, ReadForRevoke(v, p) PROVE TypeInv'
  <2>1. revocation' \in [Revoker -> Revocation]
    BY <1>7 DEF ReadForRevoke, PublishingTypeOK, Revocation, RunningRevocation
  <2>2. p \in Published
    BY <1>7 DEF ReadForRevoke, IsActive, Published
  <2> QED BY <1>0, <1>7, <2>1, <2>2
          DEF ReadForRevoke, PublishingTypeOK, RevocationsRefer, Published
<1>8. ASSUME NEW v \in Revoker, NEW t \in revocation[v].since .. now, WriteRevoke(v, t)
      PROVE  TypeInv'
  <2> DEFINE q == revocation[v].publication
  <2>1. q \in Published /\ t \in Nat
    BY <1>8, InFlightRevocation
       DEF WriteRevoke, RevocationsRefer, PublishingTypeOK, RunningRevocation
  <2>2. pub[q] \in Publication
    BY <2>1 DEF Published, PublishingTypeOK
  <2>3. [pub[q] EXCEPT !.status = "REVOKED", !.revokedAt = t] \in Publication
    BY <2>1, <2>2 DEF Publication
  <2>4. pub' = [pub EXCEPT ![q] = [pub[q] EXCEPT !.status = "REVOKED", !.revokedAt = t]]
    BY <1>8 DEF WriteRevoke
  <2>5. pub' \in [PubId -> Publication \cup {Null}]
    BY <2>3, <2>4 DEF PublishingTypeOK
  <2>6. Published' = Published
    BY <2>1, <2>3, <2>4 DEF Published, PublishingTypeOK
  <2>7. [revocation[v] EXCEPT !.pc = "audit"] \in Revocation
    BY <1>8, InFlightRevocation DEF WriteRevoke, Revocation, RunningRevocation
  <2>8. revocation' \in [Revoker -> Revocation]
    BY <1>8, <2>7 DEF WriteRevoke, PublishingTypeOK
  <2>9. RevocationsRefer'
    BY <1>8, <2>6 DEF WriteRevoke, RevocationsRefer, PublishingTypeOK
  <2> QED BY <1>0, <1>8, <2>5, <2>8, <2>9 DEF WriteRevoke, PublishingTypeOK
<1>9. ASSUME NEW v \in Revoker, RecordRevoke(v) \/ RevokeFails(v) PROVE TypeInv'
  <2>1. revocation' \in [Revoker -> Revocation]
    BY <1>9 DEF RecordRevoke, RevokeFails, PublishingTypeOK, Revocation
  <2>2. RevocationsRefer'
    <3>1. NoRevocation.pc = "idle" /\ pub' = pub
      BY <1>9 DEF RecordRevoke, RevokeFails, NoRevocation
    <3>2. \A x \in Revoker : revocation'[x] = NoRevocation \/ revocation'[x] = revocation[x]
      BY <1>9 DEF RecordRevoke, RevokeFails, PublishingTypeOK
    <3> QED BY <3>1, <3>2 DEF RevocationsRefer, Published
  <2>3. PublishingTypeOK' /\ EditingTypeOK'
    BY <1>9, <2>1 DEF RecordRevoke, RevokeFails, PublishingTypeOK, EditingTypeOK, editingVars
  <2> QED BY <2>2, <2>3
<1>10. ASSUME Tick PROVE TypeInv'
  BY <1>0, <1>10 DEF Tick, PublishingTypeOK, RevocationsRefer, Published
<1>11. ASSUME UNCHANGED vars PROVE TypeInv'
  BY <1>0, <1>11 DEF vars, publishingVars, PublishingTypeOK, RevocationsRefer, Published
<1> QED BY <1>1, <1>2, <1>3, <1>4, <1>5, <1>6, <1>7, <1>8, <1>9, <1>10, <1>11
        DEF Next, PublishStep, RevokeStep

\* Every variable keeps its type whatever requests do (the tables' columns and
\* the fields a handler carries from one await to the next).
THEOREM TypeCorrect == Spec => []TypeOK
<1>1. Spec => []TypeInv
  BY InitTypeInv, NextTypeInv, PTL DEF Spec
<1> QED BY <1>1, PTL DEF TypeInv

----------------------------------------------------------------------------
(***************************************************************************)
(* The conflict check keeps its promise whatever publishes, revokes and    *)
(* edits run at once, for any number of each.                              *)
(*                                                                         *)
(* The argument does not use the advisory lock.  A transaction past its    *)
(* check conflicts with nothing that was ACTIVE in its snapshot; what was  *)
(* published since its snapshot makes its commit fail; what was revoked    *)
(* never becomes ACTIVE again; and what a publication froze stays as it is.*)
(***************************************************************************)

\* How the publications table evolves

\* What a publication froze never changes, and REVOKED is for good.
Frozen(p) ==
  /\ p \in Published'
  /\ pub'[p].revision = pub[p].revision
  /\ pub'[p].rules = pub[p].rules
  /\ pub'[p].publishedAt = pub[p].publishedAt
  /\ pub'[p].status = "ACTIVE" => pub[p].status = "ACTIVE"

LEMMA PublicationsAreFrozen ==
  ASSUME TypeInv, [Next]_vars, NEW p \in Published
  PROVE  Frozen(p)
<1> USE DEF TypeInv, TypeOK, PublishingTypeOK
<1>1. CASE UNCHANGED pub
  BY <1>1 DEF Frozen, Published
<1>2. CASE \E v \in Revoker : \E t \in revocation[v].since .. now : WriteRevoke(v, t)
  <2>0. PICK v \in Revoker : \E t \in revocation[v].since .. now : WriteRevoke(v, t)
    BY <1>2
  <2>1. PICK t \in revocation[v].since .. now : WriteRevoke(v, t)
    BY <2>0
  <2> DEFINE q == revocation[v].publication
  <2>2. q \in Published /\ t \in Nat
    BY <2>1, InFlightRevocation DEF WriteRevoke, RevocationsRefer, RunningRevocation
  <2>3. pub[q] \in Publication
    BY <2>2 DEF Published
  <2>4. [pub[q] EXCEPT !.status = "REVOKED", !.revokedAt = t] \in Publication
    BY <2>2, <2>3 DEF Publication
  <2>5. pub' = [pub EXCEPT ![q] = [pub[q] EXCEPT !.status = "REVOKED", !.revokedAt = t]]
    BY <2>1 DEF WriteRevoke
  <2>6. p \in Published'
    BY <2>2, <2>4, <2>5, PublishingAssumption DEF Published
  <2>7. /\ pub'[p].revision = pub[p].revision
        /\ pub'[p].rules = pub[p].rules
        /\ pub'[p].publishedAt = pub[p].publishedAt
        /\ pub'[p].status = pub[p].status \/ pub'[p].status = "REVOKED"
    BY <2>2, <2>3, <2>5 DEF Published, Publication
  <2> QED BY <2>6, <2>7 DEF Frozen
<1>3. CASE \E w \in Publisher : \E q \in PubId, t \in tx[w].since .. now : CommitPublish(w, q, t)
  <2>0. PICK w \in Publisher :
          \E q \in PubId, t \in tx[w].since .. now : CommitPublish(w, q, t)
    BY <1>3
  <2>1. PICK q \in PubId, t \in tx[w].since .. now : CommitPublish(w, q, t)
    BY <2>0
  <2>2. pub'[p] = pub[p]
    BY <2>1 DEF CommitPublish, Published
  <2> QED BY <2>2 DEF Frozen, Published
<1> QED BY <1>1, <1>2, <1>3
        DEF Next, PublishStep, RevokeStep, vars, publishingVars, BeginPublish, RequestLock,
            CheckConflicts, RejectConflict, RefuseSerialization, PublishFails, RollBack,
            ReadForRevoke, RecordRevoke, RevokeFails, Tick

\* Only a commit adds a publication.
LEMMA NewIsCommitted ==
  ASSUME TypeInv, [Next]_vars, NEW p \in PubId \ Published, p \in Published'
  PROVE  \E w \in Publisher :
           \E q \in PubId, t \in tx[w].since .. now : CommitPublish(w, q, t)
<1>1. pub'[p] # pub[p]
  BY DEF Published
<1>2. ASSUME NEW v \in Revoker, NEW t \in revocation[v].since .. now, WriteRevoke(v, t)
      PROVE  FALSE
  <2>1. revocation[v].publication \in Published
    BY <1>2 DEF WriteRevoke, TypeInv, RevocationsRefer
  <2> QED BY <1>1, <1>2, <2>1
          DEF WriteRevoke, Published, TypeInv, TypeOK, PublishingTypeOK
<1> QED BY <1>1, <1>2
        DEF Next, PublishStep, RevokeStep, vars, publishingVars, BeginPublish, RequestLock,
            CheckConflicts, RejectConflict, RefuseSerialization, PublishFails, RollBack,
            ReadForRevoke, RecordRevoke, RevokeFails, Tick

\* What a step does to the transaction of one publisher.
Continues(w) ==
  /\ tx'[w].pc # "idle" /\ tx[w].pc # "idle"
  /\ tx'[w].revision = tx[w].revision
  /\ tx'[w].rules = tx[w].rules
  /\ tx'[w].seen = tx[w].seen
  /\ tx'[w].seenActive = tx[w].seenActive
  /\ tx'[w].since = tx[w].since \/ tx'[w].since = now
  /\ tx'[w].pc = "checked" =>
       tx[w].pc = "checked" \/ FindConflicts(tx[w].seenActive, tx[w].rules) = {}

Begins(w) ==
  /\ tx'[w].pc = "begun"
  /\ tx'[w].seen = Published
  /\ tx'[w].seenActive = ActivePubs(TxKey(w)')
  /\ tx'[w].since = now
  /\ UNCHANGED pub

LEMMA TxSteps ==
  ASSUME TypeInv, [Next]_vars, NEW w \in Publisher
  PROVE  tx'[w].pc = "idle" \/ Continues(w) \/ Begins(w)
<1> USE DEF TypeInv, TypeOK, PublishingTypeOK
<1>1. ASSUME UNCHANGED tx PROVE Continues(w) \/ tx'[w].pc = "idle"
  BY <1>1 DEF Continues
<1>2. ASSUME NEW x \in Publisher,
             \/ \E r \in Revision : BeginPublish(x, r)
             \/ PublishStep(x) \/ PublishFails(x)
      PROVE  tx'[w].pc = "idle" \/ Continues(w) \/ Begins(w)
  <2>1. ASSUME x # w PROVE tx'[w] = tx[w]
    BY <1>2, <2>1
       DEF BeginPublish, PublishStep, RequestLock, CheckConflicts, RejectConflict,
           CommitPublish, RefuseSerialization, PublishFails, RollBack
  <2>2. ASSUME x = w, \E r \in Revision : BeginPublish(x, r) PROVE Begins(w)
    BY <2>2 DEF BeginPublish, Begins, TxKey, ActivePubs, IsActive, KeyOfPub
  <2>3. ASSUME x = w, RequestLock(x) PROVE Continues(w)
    <3>1. tx[w] \in RunningTx
      BY <2>3, InFlightTx DEF RequestLock
    <3> QED BY <2>3, <3>1 DEF RequestLock, Continues, RunningTx
  <2>4. ASSUME x = w, CheckConflicts(x) PROVE Continues(w)
    <3>1. tx[w] \in RunningTx
      BY <2>4, InFlightTx DEF CheckConflicts
    <3> QED BY <2>4, <3>1 DEF CheckConflicts, Continues, RunningTx
  <2>5. ASSUME x = w, tx' = [tx EXCEPT ![x] = NoTx] PROVE tx'[w].pc = "idle"
    BY <2>5 DEF NoTx
  <2>6. x = w => \/ \E r \in Revision : BeginPublish(x, r)
                \/ RequestLock(x) \/ CheckConflicts(x)
                \/ tx' = [tx EXCEPT ![x] = NoTx]
    BY <1>2
       DEF PublishStep, RejectConflict, CommitPublish, RefuseSerialization, PublishFails,
           RollBack
  <2>7. tx'[w] = tx[w] => Continues(w) \/ tx'[w].pc = "idle"
    BY DEF Continues
  <2> QED BY <2>1, <2>2, <2>3, <2>4, <2>5, <2>6, <2>7
<1>3. \/ UNCHANGED tx
      \/ \E x \in Publisher : \/ \E r \in Revision : BeginPublish(x, r)
                              \/ PublishStep(x) \/ PublishFails(x)
  BY DEF Next, RevokeStep, vars, publishingVars, ReadForRevoke, WriteRevoke, RecordRevoke,
         RevokeFails, Tick
<1> QED BY <1>1, <1>2, <1>3

\* Only the holder of the lock gets past the check.
LEMMA OnlyHolderChecks ==
  ASSUME [Next]_vars, TypeInv, NEW w \in Publisher, tx'[w].pc = "checked",
         tx[w].pc # "checked"
  PROVE  HoldsLock(w, TxKey(w))
<1> USE DEF TypeInv, TypeOK, PublishingTypeOK
<1>1. ASSUME NEW x \in Publisher,
             \/ \E r \in Revision : BeginPublish(x, r)
             \/ PublishStep(x) \/ PublishFails(x)
      PROVE  x = w /\ CheckConflicts(x)
  <2>1. CASE \E r \in Revision : BeginPublish(x, r)
    BY <2>1 DEF BeginPublish
  <2>2. CASE RequestLock(x)
    BY <2>2 DEF RequestLock
  <2>3. CASE CheckConflicts(x)
    BY <2>3 DEF CheckConflicts
  <2>4. CASE tx' = [tx EXCEPT ![x] = NoTx]
    BY <2>4 DEF NoTx
  <2> QED BY <1>1, <2>1, <2>2, <2>3, <2>4
          DEF PublishStep, RejectConflict, CommitPublish, RefuseSerialization, PublishFails,
              RollBack
<1>2. tx' # tx
  OBVIOUS
<1> QED BY <1>1, <1>2
        DEF Next, RevokeStep, vars, publishingVars, ReadForRevoke, WriteRevoke, RecordRevoke,
            RevokeFails, Tick, CheckConflicts

----------------------------------------------------------------------------
\* No two ACTIVE publications of a key compete

\* A transaction has seen what was published when it began, the ACTIVE
\* publications of its key among it.
SnapshotInv ==
  \A w \in Publisher : tx[w].pc # "idle" =>
    /\ tx[w].seen \subseteq Published
    /\ tx[w].seenActive \subseteq Published
    /\ \A p \in tx[w].seen :
         IsActive(p) /\ KeyOfPub(p) = TxKey(w) => p \in tx[w].seenActive

\* What it was checked against, it does not conflict with.
CheckInv ==
  \A w \in Publisher :
    tx[w].pc = "checked" => FindConflicts(tx[w].seenActive, tx[w].rules) = {}

SafetyInv == TypeInv /\ SnapshotInv /\ CheckInv /\ NoCompetingPublications

LEMMA InitSafetyInv == Init => SafetyInv
  BY InitTypeInv
     DEF Init, SafetyInv, SnapshotInv, CheckInv, NoCompetingPublications, NoTx, IsActive

LEMMA SnapshotInvStep ==
  ASSUME TypeInv, SnapshotInv, [Next]_vars
  PROVE  SnapshotInv'
<1> SUFFICES ASSUME NEW w \in Publisher, tx'[w].pc # "idle"
             PROVE  /\ tx'[w].seen \subseteq Published'
                    /\ tx'[w].seenActive \subseteq Published'
                    /\ \A p \in tx'[w].seen :
                         IsActive(p)' /\ KeyOfPub(p)' = TxKey(w)' => p \in tx'[w].seenActive
  BY DEF SnapshotInv
<1>1. Published \subseteq Published'
  BY PublicationsAreFrozen DEF Frozen
<1>2. CASE Continues(w)
  <2>1. /\ tx'[w].seen \subseteq Published
        /\ tx'[w].seenActive \subseteq Published
        /\ TxKey(w)' = TxKey(w)
    BY <1>2 DEF Continues, SnapshotInv, TxKey
  <2>2. ASSUME NEW p \in tx'[w].seen, IsActive(p)', KeyOfPub(p)' = TxKey(w)'
        PROVE  p \in tx'[w].seenActive
    <3>1. IsActive(p) /\ KeyOfPub(p) = TxKey(w)
      BY <2>1, <2>2, PublicationsAreFrozen DEF Frozen, IsActive, Published, KeyOfPub
    <3> QED BY <1>2, <2>2, <3>1 DEF Continues, SnapshotInv
  <2> QED BY <1>1, <2>1, <2>2
<1>3. CASE Begins(w)
  <2>1. Published' = Published
    BY <1>3 DEF Begins, Published
  <2> QED BY <1>3, <2>1 DEF Begins, ActivePubs, IsActive, KeyOfPub, Published
<1> QED BY <1>2, <1>3, TxSteps

LEMMA CheckInvStep ==
  ASSUME TypeInv, SnapshotInv, CheckInv, [Next]_vars
  PROVE  CheckInv'
<1> SUFFICES ASSUME NEW w \in Publisher, tx'[w].pc = "checked",
                    NEW p \in tx'[w].seenActive
             PROVE  ~RuleSetsConflict(tx'[w].rules, pub'[p].rules)
  BY DEF CheckInv, FindConflicts
<1>1. Continues(w)
  BY TxSteps DEF Begins
<1>2. p \in Published /\ ~RuleSetsConflict(tx[w].rules, pub[p].rules)
  BY <1>1 DEF Continues, SnapshotInv, CheckInv, FindConflicts
<1> QED BY <1>1, <1>2, PublicationsAreFrozen DEF Continues, Frozen

LEMMA NoCompetingStep ==
  ASSUME SafetyInv, [Next]_vars
  PROVE  NoCompetingPublications'
<1> USE DEF SafetyInv
<1> SUFFICES ASSUME NEW p \in PubId, NEW q \in PubId, p # q, IsActive(p)', IsActive(q)',
                    KeyOfPub(p)' = KeyOfPub(q)'
             PROVE  ~RuleSetsConflict(pub'[p].rules, pub'[q].rules)
  BY DEF NoCompetingPublications
<1>1. \A x \in Published : /\ IsActive(x)' => IsActive(x)
                          /\ pub'[x].rules = pub[x].rules
                          /\ KeyOfPub(x)' = KeyOfPub(x)
  BY PublicationsAreFrozen DEF Frozen, IsActive, Published, KeyOfPub
<1>2. CASE p \in Published /\ q \in Published
  BY <1>1, <1>2 DEF NoCompetingPublications
<1>3. ASSUME NEW x \in PubId \ Published, NEW y \in PubId, x # y,
             IsActive(x)', IsActive(y)', KeyOfPub(x)' = KeyOfPub(y)'
      PROVE  y \in Published /\ ~RuleSetsConflict(pub'[x].rules, pub'[y].rules)
  <2>1. PICK w \in Publisher :
          \E z \in PubId, t \in tx[w].since .. now : CommitPublish(w, z, t)
    <3>1. x \in Published'
      BY <1>3 DEF IsActive, Published
    <3> QED BY <3>1, NewIsCommitted
  <2>2. PICK z \in PubId, t \in tx[w].since .. now : CommitPublish(w, z, t)
    BY <2>1
  <2>3. x = z /\ pub'[y] = pub[y] /\ y \in Published
    BY <1>3, <2>2 DEF CommitPublish, Published, IsActive, TypeInv, TypeOK, PublishingTypeOK
  <2>4. pub'[x].rules = tx[w].rules /\ KeyOfPub(x)' = TxKey(w)
    BY <2>2, <2>3 DEF CommitPublish, TypeInv, TypeOK, PublishingTypeOK, KeyOfPub, TxKey
  <2>5. IsActive(y) /\ KeyOfPub(y) = TxKey(w)
    BY <1>1, <1>3, <2>3, <2>4
  <2>6. y \in tx[w].seen
    BY <2>2, <2>3, <2>5 DEF CommitPublish, SerializationFailure
  <2>7. y \in tx[w].seenActive
    BY <2>2, <2>5, <2>6 DEF CommitPublish, SnapshotInv
  <2>8. ~RuleSetsConflict(tx[w].rules, pub[y].rules)
    BY <2>2, <2>7 DEF CommitPublish, CheckInv, FindConflicts
  <2> QED BY <2>3, <2>4, <2>8
<1>4. CASE p \notin Published
  BY <1>3, <1>4
<1>5. CASE q \notin Published
  BY <1>3, <1>5, ConflictIsSymmetric
<1> QED BY <1>2, <1>4, <1>5

\* Two ACTIVE publications of one document and language never have rules of
\* equal specificity that could apply to one unit, however many publish,
\* revoke and edit at once (publish.service.ts:26-118).
THEOREM NoCompetingPublicationsEver == Spec => []NoCompetingPublications
<1>1. SafetyInv /\ [Next]_vars => SafetyInv'
  BY NextTypeInv, SnapshotInvStep, CheckInvStep, NoCompetingStep DEF SafetyInv
<1>2. Spec => []SafetyInv
  BY <1>1, InitSafetyInv, PTL DEF Spec
<1> QED BY <1>2, PTL DEF SafetyInv
----------------------------------------------------------------------------
\* One transaction per key is past its check

LockInv ==
  \A w \in Publisher : tx[w].pc = "checked" => HoldsLock(w, TxKey(w))

\* A lock stays with its holder until the holder's transaction ends.
LEMMA LockStays ==
  ASSUME TypeInv, [Next]_vars, NEW w \in Publisher, NEW k \in Key, HoldsLock(w, k),
         tx'[w].pc # "idle"
  PROVE  HoldsLock(w, k)'
<1> USE DEF TypeInv, TypeOK, PublishingTypeOK
<1>1. CASE UNCHANGED lockQueue
  BY <1>1 DEF HoldsLock
<1>2. ASSUME NEW x \in Publisher, RequestLock(x) PROVE HoldsLock(w, k)'
  <2>1. lockQueue[k] \in Seq(Publisher) /\ lockQueue[k] # << >> /\ Head(lockQueue[k]) = w
    BY DEF HoldsLock
  <2>2. lockQueue'[k] = lockQueue[k] \/ lockQueue'[k] = Append(lockQueue[k], x)
    BY <1>2 DEF RequestLock
  <2>3. Append(lockQueue[k], x) # << >> /\ Head(Append(lockQueue[k], x)) = w
    BY <2>1
  <2> QED BY <2>1, <2>2, <2>3 DEF HoldsLock
<1>3. ASSUME NEW x \in Publisher, Release(x), tx' = [tx EXCEPT ![x] = NoTx]
      PROVE  HoldsLock(w, k)'
  <2>1. x # w
    BY <1>3 DEF NoTx
  <2>2. lockQueue'[k] = Leave(lockQueue[k], x)
    BY <1>3 DEF Release
  <2> QED BY <2>1, <2>2, LeaveKeepsHead DEF HoldsLock
<1> QED BY <1>1, <1>2, <1>3
        DEF Next, PublishStep, RevokeStep, vars, publishingVars, BeginPublish,
            CheckConflicts, RejectConflict, CommitPublish, RefuseSerialization,
            PublishFails, RollBack, ReadForRevoke, WriteRevoke, RecordRevoke, RevokeFails,
            Tick

LEMMA LockInvStep ==
  ASSUME TypeInv, LockInv, [Next]_vars
  PROVE  LockInv'
<1> SUFFICES ASSUME NEW w \in Publisher, tx'[w].pc = "checked"
             PROVE  HoldsLock(w, TxKey(w))'
  BY DEF LockInv
<1>1. Continues(w)
  BY TxSteps DEF Begins
<1>2. TxKey(w)' = TxKey(w) /\ TxKey(w) \in Key
  BY <1>1, InFlightTx, PublishingAssumption
     DEF Continues, TxKey, TypeInv, TypeOK, RunningTx
<1>3. HoldsLock(w, TxKey(w))
  <2>1. CASE tx[w].pc = "checked"
    BY <2>1 DEF LockInv
  <2>2. CASE tx[w].pc # "checked"
    BY <2>2, OnlyHolderChecks
  <2> QED BY <2>1, <2>2
<1>4. \A k \in Key : HoldsLock(w, k) => HoldsLock(w, k)'
  BY LockStays
<1>5. PICK k \in Key : k = TxKey(w)
  BY <1>2
<1> QED BY <1>2, <1>3, <1>4, <1>5 DEF HoldsLock

\* Two transactions are never past the conflict check of one key together:
\* the advisory lock is held until the transaction ends
\* (publish.service.ts:38-43).
THEOREM OneCheckedPerKeyEver == Spec => []OneCheckedPerKey
<1>1. Init => TypeInv /\ LockInv
  BY InitTypeInv DEF Init, LockInv, NoTx
<1>2. TypeInv /\ LockInv /\ [Next]_vars => TypeInv' /\ LockInv'
  BY NextTypeInv, LockInvStep
<1>3. LockInv => OneCheckedPerKey
  BY DEF LockInv, HoldsLock, OneCheckedPerKey
<1> QED BY <1>1, <1>2, <1>3, PTL DEF Spec

----------------------------------------------------------------------------
\* The resolver never meets a tie

\* Nothing is stamped with a time to come, and revokedAt is set with REVOKED.
TimeInv ==
  \A p \in Published :
    /\ pub[p].publishedAt <= now
    /\ pub[p].status = "REVOKED" => pub[p].revokedAt \in Nat /\ pub[p].revokedAt <= now

LEMMA TimeInvStep ==
  ASSUME TypeInv, TimeInv, [Next]_vars
  PROVE  TimeInv'
<1> USE DEF TypeInv, TypeOK, PublishingTypeOK
<1> USE PublishingAssumption
<1>1. CASE UNCHANGED <<pub, now>>
  BY <1>1 DEF TimeInv, Published
<1>2. CASE Tick
  <2>1. now \in Nat /\ now' = now + 1 /\ pub' = pub
    BY <1>2 DEF Tick
  <2>2. \A p \in Published : pub[p] \in Publication
    BY DEF Published
  <2> QED BY <2>1, <2>2 DEF TimeInv, Published, Publication
<1>3. ASSUME NEW w \in Publisher, NEW q \in PubId, NEW t \in tx[w].since .. now,
             CommitPublish(w, q, t)
      PROVE  TimeInv'
  <2>1. t <= now /\ now' = now
    BY <1>3, InFlightTx DEF CommitPublish, RunningTx
  <2>2. pub'[q].publishedAt = t /\ pub'[q].status = "ACTIVE"
    BY <1>3 DEF CommitPublish
  <2>3. \A p \in Published' : p = q \/ (p \in Published /\ pub'[p] = pub[p])
    BY <1>3 DEF CommitPublish, Published
  <2> QED BY <2>1, <2>2, <2>3 DEF TimeInv
<1>4. ASSUME NEW v \in Revoker, NEW t \in revocation[v].since .. now, WriteRevoke(v, t)
      PROVE  TimeInv'
  <2> DEFINE q == revocation[v].publication
  <2>1. q \in Published /\ t \in Nat /\ t <= now /\ now' = now
    BY <1>4, InFlightRevocation DEF WriteRevoke, RevocationsRefer, RunningRevocation
  <2>2. pub[q] \in Publication
    BY <2>1 DEF Published
  <2>3. pub' = [pub EXCEPT ![q] = [pub[q] EXCEPT !.status = "REVOKED", !.revokedAt = t]]
    BY <1>4 DEF WriteRevoke
  <2>4. pub'[q].publishedAt = pub[q].publishedAt /\ pub'[q].revokedAt = t
    BY <2>1, <2>2, <2>3 DEF Publication, Published
  <2>5. \A p \in Published' : p = q \/ (p \in Published /\ pub'[p] = pub[p])
    BY <2>1, <2>3 DEF Published
  <2> QED BY <2>1, <2>4, <2>5 DEF TimeInv
<1> QED BY <1>1, <1>2, <1>3, <1>4
        DEF Next, PublishStep, RevokeStep, vars, publishingVars, BeginPublish, RequestLock,
            CheckConflicts, RejectConflict, RefuseSerialization, PublishFails, RollBack,
            ReadForRevoke, RecordRevoke, RevokeFails

\* Two candidates at the top reach the unit at the same rank.
LEMMA TopsTie ==
  ASSUME TypeInv, NEW k, NEW context \in UnitContext, NEW t,
         NEW p \in Top(k, context, t), NEW q \in Top(k, context, t)
  PROVE  RuleSetsConflict(pub[p].rules, pub[q].rules)
<1>1. pub[p].rules \in SUBSET Rule /\ pub[q].rules \in SUBSET Rule
  BY EditingAssumption
     DEF TypeInv, TypeOK, PublishingTypeOK, Publication, Top, Candidates, InForce
<1>2. PICK s \in MatchedSpecificities(pub[p].rules, context, t) :
        \A x \in Candidates(k, context, t) :
          \A y \in MatchedSpecificities(pub[x].rules, context, t) : y <= s
  BY DEF Top
<1>3. PICK u \in MatchedSpecificities(pub[q].rules, context, t) :
        \A x \in Candidates(k, context, t) :
          \A y \in MatchedSpecificities(pub[x].rules, context, t) : y <= u
  BY DEF Top
<1>4. u <= s /\ s <= u
  BY <1>2, <1>3 DEF Top
<1>5. s \in Nat /\ u \in Nat
  BY <1>1, SpecificityIsNat DEF MatchedSpecificities
<1>6. s = u
  BY <1>4, <1>5
<1> QED BY <1>1, <1>2, <1>3, <1>6, TieIsConflict

\* Whatever applies to a unit now, the resolver has one winner: no tie, hence
\* no conflict response and no arbitrary choice (resolver.service.ts:55-92).
THEOREM ResolverUnambiguousEver == Spec => []ResolverUnambiguous
<1>1. Init => TimeInv
  BY DEF Init, TimeInv, Published
<1>2. TypeInv /\ TimeInv /\ [Next]_vars => TypeInv' /\ TimeInv'
  BY NextTypeInv, TimeInvStep
<1>3. TypeInv /\ TimeInv /\ NoCompetingPublications => ResolverUnambiguous
  <2> SUFFICES ASSUME TypeInv, TimeInv, NoCompetingPublications,
                      NEW k \in Key, NEW context \in ContextPool,
                      NEW p \in Top(k, context, now), NEW q \in Top(k, context, now), p # q
               PROVE  FALSE
    BY DEF ResolverUnambiguous
  <2>1. RuleSetsConflict(pub[p].rules, pub[q].rules)
    BY TopsTie, PublishingAssumption
  <2>2. ASSUME NEW x \in Top(k, context, now)
        PROVE  x \in PubId /\ IsActive(x) /\ KeyOfPub(x) = k
    <3>1. x \in Published /\ InForce(x, now) /\ KeyOfPub(x) = k
      BY DEF Top, Candidates, InForce, Published
    <3>2. pub[x] \in Publication /\ now \in Nat
      BY <3>1 DEF Published, TypeInv, TypeOK, PublishingTypeOK
    <3>3. pub[x].status = "REVOKED" =>
            pub[x].revokedAt \in Nat /\ pub[x].revokedAt <= now /\ now < pub[x].revokedAt
      BY <3>1, NullAssumption DEF TimeInv, InForce
    <3>4. pub[x].status # "REVOKED"
      BY <3>2, <3>3
    <3> QED BY <3>1, <3>2, <3>4 DEF IsActive, Published, Publication
  <2> QED BY <2>1, <2>2 DEF NoCompetingPublications
<1> QED BY <1>1, <1>2, <1>3, InitTypeInv, NoCompetingPublicationsEver, PTL DEF Spec

----------------------------------------------------------------------------
(***************************************************************************)
(* Publishing implements PublicationRegistry: to whoever looks only at the *)
(* publications, a publish request is one atomic step, at its commit.      *)
(***************************************************************************)

\* The registry's notion of conflict is the same one.
LEMMA SameConflict ==
  \A X, Y : Registry!RuleSetsConflict(X, Y) <=> RuleSetsConflict(X, Y)
<1>1. \A x : Registry!Specificity(x) = Specificity(x)
  BY DEF Registry!Specificity, Specificity, Registry!HasRange, HasRange
<1>2. \A x, y : Registry!RulesCouldOverlap(x, y) <=> RulesCouldOverlap(x, y)
  BY DEF Registry!RulesCouldOverlap, RulesCouldOverlap,
         Registry!ProvenDisjointIds, ProvenDisjointIds, Registry!Differ, Differ,
         Registry!ProvenDisjointSerials, ProvenDisjointSerials, Registry!HasRange, HasRange,
         Registry!RangePrefix, RangePrefix, Registry!EndsBefore, EndsBefore
<1> QED BY <1>1, <1>2
        DEF Registry!RuleSetsConflict, RuleSetsConflict, Registry!Compete, Compete

\* A commit is the atomic Publish: its check, made on an old snapshot, still
\* holds of every publication that is ACTIVE at the commit.
LEMMA CommitIsPublish ==
  ASSUME SafetyInv, NEW w \in Publisher, NEW p \in PubId, NEW t \in tx[w].since .. now,
         CommitPublish(w, p, t)
  PROVE  \E r \in Revision, newRules \in SUBSET RulePool : Registry!Publish(p, r, newRules)
<1> USE DEF SafetyInv, TypeInv, TypeOK, PublishingTypeOK
<1>1. tx[w] \in RunningTx
  BY InFlightTx DEF CommitPublish
<1>2. tx[w].revision \in Revision /\ tx[w].rules \in SUBSET RulePool
  BY <1>1 DEF RunningTx
<1>3. RegistryView[p] = Registry!Vacant
  BY DEF CommitPublish, Published, RegistryView, Registry!Vacant
<1>4. ASSUME NEW q \in PubId, Registry!Active(q),
             KeyOf[RegistryView[q].revision] = KeyOf[tx[w].revision]
      PROVE  ~RuleSetsConflict(tx[w].rules, RegistryView[q].rules)
  <2>1. /\ IsActive(q) /\ q \in Published
        /\ RegistryView[q].rules = pub[q].rules
        /\ KeyOfPub(q) = TxKey(w)
    BY <1>4 DEF Registry!Active, RegistryView, IsActive, Published, KeyOfPub, TxKey
  <2>2. q \in tx[w].seenActive
    BY <2>1 DEF CommitPublish, SerializationFailure, SnapshotInv
  <2> QED BY <2>1, <2>2 DEF CommitPublish, CheckInv, FindConflicts
<1>5. RegistryView' = [RegistryView EXCEPT ![p] =
        [revision |-> tx[w].revision, rules |-> tx[w].rules, status |-> "ACTIVE"]]
  <2>1. pub'[p] = [revision |-> tx[w].revision, rules |-> tx[w].rules, status |-> "ACTIVE",
                   publishedAt |-> t, revokedAt |-> Null]
    BY DEF CommitPublish
  <2>2. pub'[p] # Null
    <3>1. pub'[p] \in Publication
      BY <1>1, <1>2, <2>1 DEF Publication, RunningTx
    <3> QED BY <3>1, PublishingAssumption
  <2>3. \A q \in PubId \ {p} : pub'[q] = pub[q]
    BY DEF CommitPublish
  <2>4. RegistryView'[p] =
          [revision |-> tx[w].revision, rules |-> tx[w].rules, status |-> "ACTIVE"]
    BY <2>1, <2>2 DEF RegistryView
  <2>5. \A q \in PubId \ {p} : RegistryView'[q] = RegistryView[q]
    BY <2>3 DEF RegistryView
  <2>6. DOMAIN RegistryView = PubId /\ DOMAIN RegistryView' = PubId
    BY DEF RegistryView
  <2> QED BY <2>4, <2>5, <2>6 DEF RegistryView
<1>6. Registry!Publish(p, tx[w].revision, tx[w].rules)
  BY <1>3, <1>4, <1>5, SameConflict DEF Registry!Publish
<1> QED BY <1>2, <1>6

LEMMA WriteIsRevoke ==
  ASSUME SafetyInv, NEW v \in Revoker, NEW t \in revocation[v].since .. now,
         WriteRevoke(v, t)
  PROVE  (\E p \in PubId : Registry!Revoke(p)) \/ UNCHANGED RegistryView
<1> USE DEF SafetyInv, TypeInv, TypeOK, PublishingTypeOK
<1> DEFINE q == revocation[v].publication
<1>1. q \in Published /\ t \in Nat
  BY InFlightRevocation DEF WriteRevoke, RevocationsRefer, RunningRevocation
<1>2. pub[q] \in Publication
  BY <1>1 DEF Published
<1>3. /\ pub'[q].revision = pub[q].revision
      /\ pub'[q].rules = pub[q].rules
      /\ pub'[q].status = "REVOKED"
      /\ pub'[q] \in Publication
  BY <1>1, <1>2 DEF WriteRevoke, Publication, Published
<1>4. \A p \in PubId \ {q} : pub'[p] = pub[p]
  BY DEF WriteRevoke
<1>5. /\ RegistryView[q] = [revision |-> pub[q].revision, rules |-> pub[q].rules,
                            status |-> pub[q].status]
      /\ q \in PubId
  BY <1>1 DEF RegistryView, Published
<1>6. RegistryView' = [RegistryView EXCEPT ![q] =
        [revision |-> pub[q].revision, rules |-> pub[q].rules, status |-> "REVOKED"]]
  BY <1>1, <1>3, <1>4, PublishingAssumption DEF RegistryView, Published
<1>7. CASE pub[q].status = "ACTIVE"
  <2>1. [RegistryView[q] EXCEPT !.status = "REVOKED"] =
          [revision |-> pub[q].revision, rules |-> pub[q].rules, status |-> "REVOKED"]
    BY <1>5
  <2>2. Registry!Active(q)
    BY <1>5, <1>7 DEF Registry!Active
  <2>3. Registry!Revoke(q)
    BY <1>6, <2>1, <2>2 DEF Registry!Revoke
  <2> QED BY <1>5, <2>3
<1>8. CASE pub[q].status = "REVOKED"
  <2>1. [RegistryView EXCEPT ![q] = RegistryView[q]] = RegistryView
    BY DEF RegistryView
  <2> QED BY <1>5, <1>6, <1>8, <2>1
<1> QED BY <1>2, <1>7, <1>8 DEF Publication

LEMMA StepIsRegistryStep ==
  ASSUME SafetyInv, [Next]_vars
  PROVE  [Registry!Next]_RegistryView
<1>1. CASE UNCHANGED pub
  BY <1>1 DEF RegistryView
<1>2. ASSUME NEW w \in Publisher, NEW p \in PubId, NEW t \in tx[w].since .. now,
             CommitPublish(w, p, t)
      PROVE  Registry!Next
  BY <1>2, CommitIsPublish DEF Registry!Next
<1>3. ASSUME NEW v \in Revoker, NEW t \in revocation[v].since .. now, WriteRevoke(v, t)
      PROVE  [Registry!Next]_RegistryView
  BY <1>3, WriteIsRevoke DEF Registry!Next
<1> QED BY <1>1, <1>2, <1>3
        DEF Next, PublishStep, RevokeStep, vars, publishingVars, BeginPublish, RequestLock,
            CheckConflicts, RejectConflict, RefuseSerialization, PublishFails, RollBack,
            ReadForRevoke, RecordRevoke, RevokeFails, Tick

\* Publishing implements the atomic registry: a transaction takes effect in
\* one step, at its commit, and what its conflict check found out on its
\* snapshot is still good there (publish.service.ts:26-118).
THEOREM PublishingImplementsRegistry == Spec => ImplementsRegistry
<1>1. Init => Registry!Init
  BY DEF Init, RegistryView, Registry!Init, Registry!Vacant
<1>2. SafetyInv /\ [Next]_vars => SafetyInv'
  BY NextTypeInv, SnapshotInvStep, CheckInvStep, NoCompetingStep DEF SafetyInv
<1>3. SafetyInv /\ [Next]_vars => [Registry!Next]_RegistryView
  BY StepIsRegistryStep
<1> QED BY <1>1, <1>2, <1>3, InitSafetyInv, PTL DEF Spec, ImplementsRegistry, Registry!Spec

----------------------------------------------------------------------------
\* Revoking for good: at first two requests may both have found a publication
\* ACTIVE; when they are done, nobody gets to write to it again.

\* One revoke request moves on, or starts with a publication it found ACTIVE.
LEMMA RevocationMoves ==
  ASSUME TypeInv, [Next]_vars, NEW v \in Revoker, revocation'[v].pc = "write"
  PROVE  \/ revocation'[v] = revocation[v]
         \/ IsActive(revocation'[v].publication) /\ UNCHANGED pub
<1> USE DEF TypeInv, TypeOK, PublishingTypeOK
<1>1. ASSUME NEW x \in Revoker, NEW p \in PubId, ReadForRevoke(x, p)
      PROVE  \/ revocation'[v] = revocation[v]
             \/ IsActive(revocation'[v].publication) /\ UNCHANGED pub
  BY <1>1 DEF ReadForRevoke, NoRevocation
<1>2. ASSUME NEW x \in Revoker, RevokeStep(x) \/ RevokeFails(x)
      PROVE  revocation'[v] = revocation[v]
  <2>1. ASSUME NEW t \in revocation[x].since .. now, WriteRevoke(x, t), x = v
        PROVE  FALSE
    BY <2>1, InFlightRevocation DEF WriteRevoke, RunningRevocation
  <2>2. ASSUME RecordRevoke(x) \/ RevokeFails(x), x = v PROVE FALSE
    BY <2>2 DEF RecordRevoke, RevokeFails, NoRevocation
  <2> QED BY <1>2, <2>1, <2>2 DEF RevokeStep, WriteRevoke, RecordRevoke, RevokeFails
<1> QED BY <1>1, <1>2
        DEF Next, PublishStep, vars, publishingVars, BeginPublish, RequestLock,
            CheckConflicts, RejectConflict, CommitPublish, RefuseSerialization,
            PublishFails, RollBack, Tick

\* A publication that was revoked is written to only by a request that was about
\* to, and loses nothing but the moment of its end.
LEMMA RevokedMoves ==
  ASSUME TypeInv, [Next]_vars, NEW p \in Published, pub[p].status = "REVOKED"
  PROVE  /\ pub'[p] = [pub[p] EXCEPT !.revokedAt = pub'[p].revokedAt]
         /\ \/ pub'[p] = pub[p]
            \/ \E v \in Revoker : revocation[v].pc = "write" /\ revocation[v].publication = p
<1> USE DEF TypeInv, TypeOK, PublishingTypeOK
<1>0. pub[p] \in Publication /\ p \in PubId
  BY DEF Published
<1>1. pub[p] = [pub[p] EXCEPT !.revokedAt = pub[p].revokedAt]
  BY <1>0 DEF Publication
<1>2. ASSUME NEW v \in Revoker, NEW t \in revocation[v].since .. now, WriteRevoke(v, t)
      PROVE  \/ pub'[p] = pub[p]
             \/ /\ revocation[v].pc = "write" /\ revocation[v].publication = p
                /\ pub'[p] = [pub[p] EXCEPT !.revokedAt = pub'[p].revokedAt]
  <2>1. CASE revocation[v].publication # p
    BY <1>2, <2>1 DEF WriteRevoke
  <2>2. CASE revocation[v].publication = p
    <3>1. pub'[p] = [pub[p] EXCEPT !.status = "REVOKED", !.revokedAt = t]
      BY <1>0, <1>2, <2>2 DEF WriteRevoke
    <3>2. pub'[p] = [pub[p] EXCEPT !.revokedAt = t] /\ pub'[p].revokedAt = t
      BY <1>0, <3>1 DEF Publication
    <3> QED BY <1>2, <2>2, <3>2 DEF WriteRevoke
  <2> QED BY <2>1, <2>2
<1>3. ASSUME NEW w \in Publisher, NEW q \in PubId, NEW t \in tx[w].since .. now,
             CommitPublish(w, q, t)
      PROVE  pub'[p] = pub[p]
  BY <1>3 DEF CommitPublish, Published
<1> QED BY <1>1, <1>2, <1>3
        DEF Next, PublishStep, RevokeStep, vars, publishingVars, BeginPublish, RequestLock,
            CheckConflicts, RejectConflict, RefuseSerialization, PublishFails, RollBack,
            ReadForRevoke, RecordRevoke, RevokeFails, Tick

\* What has ended stays as it is, and nobody gets to write to it.
LEMMA EndedStays ==
  ASSUME TypeInv, [Next]_vars, NEW p \in Ended
  PROVE  pub'[p] = pub[p] /\ p \in Ended'
<1>1. p \in Published /\ pub[p].status = "REVOKED"
  BY DEF Ended
<1>2. pub'[p] = pub[p]
  BY <1>1, RevokedMoves DEF Ended
<1>3. ASSUME NEW v \in Revoker, revocation'[v].pc = "write"
      PROVE  revocation'[v].publication # p
  <2>1. CASE revocation'[v] = revocation[v]
    BY <1>3, <2>1 DEF Ended
  <2>2. CASE IsActive(revocation'[v].publication)
    BY <1>1, <2>2 DEF IsActive
  <2> QED BY <1>3, <2>1, <2>2, RevocationMoves
<1> QED BY <1>1, <1>2, <1>3 DEF Ended, Published

\* What was revoked stays REVOKED with what it froze, and as soon as the requests
\* that found it ACTIVE are done it stays as it is, however many requests to
\* revoke come at once (publish.service.ts:124-134).
THEOREM RevokedIsFinalEver == Spec => RevokedIsFinal
<1>1. TypeInv /\ [Next]_vars =>
        [\A p \in Published : pub[p].status = "REVOKED" =>
           /\ pub'[p] = [pub[p] EXCEPT !.revokedAt = pub'[p].revokedAt]
           /\ p \in Ended => pub'[p] = pub[p] /\ p \in Ended']_vars
  <2> SUFFICES ASSUME TypeInv, [Next]_vars, NEW p \in Published, pub[p].status = "REVOKED"
               PROVE  /\ pub'[p] = [pub[p] EXCEPT !.revokedAt = pub'[p].revokedAt]
                      /\ p \in Ended => pub'[p] = pub[p] /\ p \in Ended'
    OBVIOUS
  <2> QED BY RevokedMoves, EndedStays
<1> QED BY <1>1, InitTypeInv, NextTypeInv, PTL DEF Spec, RevokedIsFinal
==============================================================================
