-------------------------------- MODULE Desk --------------------------------
(***************************************************************************)
(* Publishing as the pages of the web application see it: the API, and the *)
(* requests of the pages, which are answered late, out of order or not at  *)
(* all.  A publish takes effect in one step, which is what Publishing      *)
(* implements (ImplementsRegistry); the other handlers that change         *)
(* something check first and write, by the id alone, in a later step.      *)
(***************************************************************************)
EXTENDS PublicationRegistry

CONSTANTS
  Row,             \* ids of applicability rules
  InitialRow,      \* the rules at the start: the revision of each and the rule
  InitialStatus,   \* what the status of the revisions may be at the start
  Call,            \* requests a browser may have under way
  Faults           \* whether requests and answers get lost

NoScope ==
  [productFamilyId |-> Null, productId |-> Null, variantId |-> Null, batchId |-> Null,
   unitId |-> Null, serialFrom |-> Null, serialTo |-> Null, validFrom |-> Null,
   validUntil |-> Null, explicitExclusion |-> FALSE]

\* An id that no rule has yet, and one that is not used again.
Unused == [of |-> Null, rule |-> Null]

Deleted == [of |-> Null, rule |-> NoScope]

ASSUME DeskAssumption ==
  /\ Null \notin Revision \cup Call \cup PubId /\ Null # NoScope
  /\ InitialRow = [i \in Row |-> InitialRow[i]]
  /\ \A i \in Row : InitialRow[i] # Unused =>
       InitialRow[i] \in [of : Revision, rule : {InitialRow[i].rule}]

VARIABLES
  row,      \* applicability rules by id: the revision of each and the rule
  status,   \* status of every revision
  call      \* requests under way

deskVars == <<registry, row, status>>

DeskInit ==
  /\ Init
  /\ row = InitialRow
  /\ status \in InitialStatus
  /\ call = [c \in Call |-> Null]

Stored(i) == row[i].of # Null

IsRuleOf(i, r) == Stored(i) /\ row[i].of = r

RuleIds(r) == {i \in Row : IsRuleOf(i, r)}

RulesOf(r) == {row[i].rule : i \in RuleIds(r)}

----------------------------------------------------------------------------
\* Requests.  state: sent; read (a preview half made); answered; failed (the
\* page gets an error, whatever the API did); left (no page listens).  seen: the
\* status by which its handler has decided to go on and write.

Request(op, subject, input) ==
  [op |-> op, subject |-> subject, input |-> input, state |-> "sent", answer |-> Null,
   seen |-> Null]

Send(c, request) == call[c] = Null /\ call' = [call EXCEPT ![c] = request]

IsFor(c, ops) == call[c] # Null /\ call[c].op \in ops

Sent(c, op) == call[c] # Null /\ call[c].op = op /\ call[c].state \in {"sent", "left"}

Fresh(c, op) == Sent(c, op) /\ call[c].seen = Null

Checked(c, op) == Sent(c, op) /\ call[c].seen # Null

Answer(c, a) ==
  call' = [call EXCEPT ![c] =
    IF @.state = "left" THEN Null ELSE [@ EXCEPT !.state = "answered", !.answer = a]]

\* The handler reads a status: whether it goes on is decided by it.
Check(c, read, admitted) ==
  /\ IF admitted THEN call' = [call EXCEPT ![c].seen = read] ELSE Answer(c, "refused")
  /\ UNCHANGED deskVars

Has(c, op, state) == call[c] # Null /\ call[c].op = op /\ call[c].state = state

Answered(c, op) == Has(c, op, "answered")

Failed(c, op) == Has(c, op, "failed")

Forget(c) == call' = [call EXCEPT ![c] = Null]

\* The connection breaks.  The API may go on with the request all the same:
\* the page is told at once, the effect may come later.
BreakConnection(c) ==
  /\ Faults
  /\ call[c] # Null /\ call[c].state \in {"sent", "read", "answered"}
  /\ call' = [call EXCEPT ![c].state = "failed"]
  /\ UNCHANGED deskVars

\* A page that is told of a failure, or is closed, does not take a request back
\* that the API has not served yet.
Leave(c) == IF call[c].answer = Null THEN [call[c] EXCEPT !.state = "left"] ELSE Null

LeaveToApi(c) == call' = [call EXCEPT ![c] = Leave(c)]

Writes == {"update", "create", "remove", "move", "publish", "revoke"}

\* The page that sent these requests is closed.
ClosePage(sent) ==
  call' = [c \in Call |-> IF c \notin sent THEN call[c]
                          ELSE IF call[c].op \in Writes THEN Leave(c) ELSE Null]

\* A request nobody listens to may also never reach the API.
DropLeft(c) ==
  /\ call[c] # Null /\ call[c].state = "left"
  /\ Forget(c)
  /\ UNCHANGED deskVars

----------------------------------------------------------------------------
\* Rules: an update changes the fields the request gives.

Merged(rule, patch) ==
  [f \in DOMAIN rule |-> IF f \in DOMAIN patch THEN patch[f] ELSE rule[f]]

\* requireRevision, assertMutable
Mutable(r) == r \in Revision /\ status[r] # "RETIRED"

\* Mutant: the rule is looked up by its id alone.
FindsById(i, r) == Stored(i)

\* where: { id, organizationId, revisionId }
Finds(i, r) == IsRuleOf(i, r)

ListRules(c) ==
  /\ Sent(c, "rules")
  /\ Answer(c, {[id |-> i, rule |-> row[i].rule] : i \in RuleIds(call[c].subject)})
  /\ UNCHANGED deskVars

CheckRule(c, op, i) ==
  /\ Fresh(c, op)
  /\ LET r == call[c].subject IN Check(c, status[r], Mutable(r) /\ Finds(i, r))

CheckUpdate(c) == CheckRule(c, "update", call[c].input.id)

CheckRemove(c) == CheckRule(c, "remove", call[c].input)

CheckCreate(c) ==
  /\ Fresh(c, "create")
  /\ LET r == call[c].subject IN Check(c, status[r], Mutable(r))

\* where: { id }; the rule may be gone.
UpdateRule(c) ==
  /\ Checked(c, "update")
  /\ LET i == call[c].input.id
     IN  IF Stored(i)
           THEN /\ row' = [row EXCEPT ![i].rule = Merged(@, call[c].input.patch)]
                /\ Answer(c, "done")
           ELSE Answer(c, "refused") /\ UNCHANGED row
  /\ UNCHANGED <<registry, status>>

RemoveRule(c) ==
  /\ Checked(c, "remove")
  /\ LET i == call[c].input
     IN  IF Stored(i)
           THEN row' = [row EXCEPT ![i] = Deleted] /\ Answer(c, "done")
           ELSE Answer(c, "refused") /\ UNCHANGED row
  /\ UNCHANGED <<registry, status>>

CreateRule(c) ==
  /\ Checked(c, "create")
  /\ \E i \in Row :
       /\ row[i] = Unused
       /\ row' = [row EXCEPT ![i] =
            [of |-> call[c].subject, rule |-> Merged(NoScope, call[c].input.patch)]]
  /\ Answer(c, "done")
  /\ UNCHANGED <<registry, status>>

----------------------------------------------------------------------------
\* Revisions

Follows == [DRAFT |-> {"IN_REVIEW"}, IN_REVIEW |-> {"APPROVED"},
            APPROVED |-> {"RETIRED"}, RETIRED |-> {}]

ListRevisions(c) ==
  /\ Sent(c, "revisions")
  /\ Answer(c, status)
  /\ UNCHANGED deskVars

CheckMove(c) ==
  /\ Fresh(c, "move")
  /\ LET r == call[c].subject IN Check(c, status[r], call[c].input \in Follows[status[r]])

\* where: { id }, whatever the status is by now.
MoveRevision(c) ==
  /\ Checked(c, "move")
  /\ status' = [status EXCEPT ![call[c].subject] = call[c].input]
  /\ Answer(c, "done")
  /\ UNCHANGED <<registry, row>>

----------------------------------------------------------------------------
\* Publications

Conflicting(r, newRules) ==
  {p \in PubId : /\ Active(p) /\ KeyOf[registry[p].revision] = KeyOf[r]
                 /\ RuleSetsConflict(newRules, registry[p].rules)}

\* The preview reads the revision and its rules first ...
ReadForPreview(c) ==
  /\ Has(c, "preview", "sent")
  /\ call' = [call EXCEPT ![c].state = "read",
       ![c].answer = 
         [status |-> status[call[c].subject], rules |-> RulesOf(call[c].subject)]]
  /\ UNCHANGED deskVars

\* ... and then the active publications; active: those there are.
AnswerPreview(c) ==
  /\ Has(c, "preview", "read")
  /\ LET r         == call[c].subject
         newRules  == call[c].answer.rules
         conflicts == {[id |-> p, reason |-> IF registry[p].revision = r
                                               THEN "ALREADY_PUBLISHED" ELSE "CONFLICT"] :
                         p \in Conflicting(r, newRules)}
     IN  Answer(c, [canPublish |-> call[c].answer.status = "APPROVED" /\ conflicts = {},
                    rules |-> newRules, conflicts |-> conflicts,
                    active |-> {p \in PubId : Active(p)}])
  /\ UNCHANGED deskVars

MayPublish(r) == status[r] = "APPROVED" /\ Conflicting(r, RulesOf(r)) = {}

PublishRevision(c) ==
  /\ Sent(c, "publish")
  /\ LET r == call[c].subject
     IN  IF MayPublish(r)
           THEN \E p \in PubId : Publish(p, r, RulesOf(r)) /\ Answer(c, {p})
           ELSE Answer(c, {}) /\ UNCHANGED registry
  /\ UNCHANGED <<row, status>>

CheckRevoke(c) ==
  /\ Fresh(c, "revoke")
  /\ LET p == call[c].subject IN Check(c, registry[p].status, Active(p))

\* where: { id }; a second revoke only moves the instant of the first.
RevokePublication(c) ==
  /\ Checked(c, "revoke")
  /\ IF Active(call[c].subject) THEN Revoke(call[c].subject) ELSE UNCHANGED registry
  /\ Answer(c, "done")
  /\ UNCHANGED <<row, status>>

Shown(p) == [id |-> p, key |-> KeyOf[registry[p].revision], status |-> registry[p].status]

GetPublication(c) ==
  /\ Sent(c, "publication")
  /\ Answer(c, Shown(call[c].subject))
  /\ UNCHANGED deskVars

\* The filter: a document, a status, or neither.
Matches(p, filter) ==
  /\ registry[p] # Vacant
  /\ filter.key \in {Null, KeyOf[registry[p].revision]}
  /\ filter.status \in {Null, registry[p].status}

ListPublications(c) ==
  /\ Sent(c, "history")
  /\ Answer(c, [page |-> call[c].input, items |->
       {Shown(p) : p \in {q \in PubId : Matches(q, call[c].subject)}}])
  /\ UNCHANGED deskVars

----------------------------------------------------------------------------
ServeCall(c) ==
  \/ CheckUpdate(c) \/ CheckRemove(c) \/ CheckCreate(c)
  \/ UpdateRule(c) \/ RemoveRule(c) \/ CreateRule(c) \/ ListRules(c)
  \/ CheckMove(c) \/ MoveRevision(c) \/ ListRevisions(c)
  \/ ReadForPreview(c) \/ AnswerPreview(c) \/ PublishRevision(c)
  \/ CheckRevoke(c) \/ RevokePublication(c)
  \/ GetPublication(c) \/ ListPublications(c)

\* Somebody else, in another browser, publishes, revokes, moves a revision or
\* changes a rule, each at one go: what happens between the checks and writes of
\* others is in Publishing and RevisionEditing.
OthersPublish(r) ==
  /\ status[r] = "APPROVED"
  /\ \E p \in PubId : Publish(p, r, RulesOf(r))
  /\ UNCHANGED <<row, status>>

OthersRevoke(p) == Revoke(p) /\ UNCHANGED <<row, status>>

OthersMove(r) ==
  /\ \E target \in Follows[status[r]] : status' = [status EXCEPT ![r] = target]
  /\ UNCHANGED <<registry, row>>

OthersEdit(i, rule) ==
  /\ Stored(i) /\ Mutable(row[i].of)
  /\ row' = [row EXCEPT ![i].rule = rule]
  /\ UNCHANGED <<registry, status>>

OthersStep ==
  /\ \/ \E r \in Revision : OthersPublish(r) \/ OthersMove(r)
     \/ \E p \in PubId : OthersRevoke(p)
     \/ \E i \in Row, rule \in RulePool : OthersEdit(i, rule)
  /\ UNCHANGED call
=============================================================================
