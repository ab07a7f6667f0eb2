-------------------------- MODULE PublishingReview --------------------------
(***************************************************************************)
(* Publishing with a history: the statuses a revision has had, the rule    *)
(* sets it carried while it was APPROVED, what editing really did, and     *)
(* which requests act on what is not so any more.  It is what the          *)
(* properties are about that no single state shows: that nothing is        *)
(* published which was not reviewed, that the audit trail tells of nothing *)
(* that did not happen, and what exactly racing requests can bring about.  *)
(***************************************************************************)
EXTENDS Publishing

VARIABLES
  reached,         \* the statuses a revision has had
  approvedRules,   \* the rule sets it had while APPROVED
  changed,         \* what editing has done to the tables, as <<action, revision>>
  overtaken,       \* editing requests whose revision changed its status since they read it
  contested        \* publications that two requests have been revoking at once

raceVars == <<overtaken, contested>>
reviewVars == <<vars, reached, approvedRules, changed, raceVars>>

\* A revision has come the usual way to where a behaviour starts.
Path ==
  [DRAFT     |-> {"DRAFT"},
   IN_REVIEW |-> {"DRAFT", "IN_REVIEW"},
   APPROVED  |-> {"DRAFT", "IN_REVIEW", "APPROVED"},
   RETIRED   |-> RevisionStatus]

ReviewInit ==
  /\ Init
  /\ reached = [r \in Revision |-> Path[status[r]]]
  /\ approvedRules = [r \in Revision |-> IF status[r] = "APPROVED" THEN {LiveRules(r)} ELSE {}]
  /\ changed = {} /\ overtaken = {} /\ contested = {}

Review ==
  /\ reached' = [r \in Revision |-> reached[r] \cup {status'[r]}]
  /\ approvedRules' = [r \in Revision |->
       IF status'[r] = "APPROVED" THEN approvedRules[r] \cup {LiveRules(r)'}
                                  ELSE approvedRules[r]]

\* An update may leave a rule as it was: only appearing and vanishing rows count.
Changes ==
  changed' = changed
    \cup {<<status'[r], r>> : r \in {s \in Revision : status'[s] # status[s]}}
    \cup {<<"CREATE", r>> : r \in {s \in Revision :
            \E row \in Row : rules[s][row] = Null /\ rules'[s][row] # Null}}
    \cup {<<"DELETE", r>> : r \in {s \in Revision :
            \E row \in Row : rules[s][row] # Null /\ rules'[s][row] = Null}}

Overtaking ==
  overtaken' = {e \in Editor :
    /\ edit'[e].pc # "idle"
    /\ \/ e \in overtaken
       \/ edit[e].pc # "idle" /\ status'[edit[e].revision] # status[edit[e].revision]}

Contest ==
  contested' = contested \cup {p \in PubId : \E v, x \in Revoker :
    v # x /\ revocation'[v].publication = p /\ revocation'[x].publication = p}

Races == Overtaking /\ Contest

ReviewNext == Next /\ Review /\ Changes /\ Races

ReviewSpec == ReviewInit /\ [][ReviewNext]_reviewVars

----------------------------------------------------------------------------
\* However requests race, crash and overwrite each other, no revision is
\* published that was never reviewed, or RETIRED that was never APPROVED
\* (revisions.service.ts:18-23, publish.service.ts:34).
NoReviewSkipped ==
  \A r \in Revision :
    /\ \A p \in Published : pub[p].revision = r => {"IN_REVIEW", "APPROVED"} \subseteq reached[r]
    /\ "RETIRED" \in reached[r] => "APPROVED" \in reached[r]

\* What a publication froze is a rule set its revision carried while it was
\* APPROVED, however editing and reviewing went on during the transaction:
\* status and rules are read from one snapshot (publish.service.ts:29-45).
FrozenWhileApproved ==
  \A p \in Published : pub[p].rules \in approvedRules[pub[p].revision]

\* A revision moves one step along DRAFT, IN_REVIEW, APPROVED, RETIRED
\* (docs/domain-model.md:41) whenever it moves, unless it is moved by a request
\* that another one has overtaken between its read and its write
\* (revisions.service.ts:138-147).
BackOnlyIfOvertaken ==
  [][\A r \in Revision : status'[r] # status[r] =>
       \/ status'[r] \in Transitions[status[r]]
       \/ \E e \in overtaken : edit[e].revision = r /\ edit[e].action = status'[r]
     ]_reviewVars

\* Looking up what applied at any earlier moment never ends in a tie either,
\* unless one of the winners was being revoked by two requests at once, of
\* which the later one moved its end (publish.service.ts:125-134,
\* resolver.service.ts:26-36).
HistoryUnambiguous ==
  \A k \in Key, context \in ContextPool, t \in 0 .. now :
    \A p, q \in Top(k, context, t) \ contested : p = q

\* The audit trail may lack an event, but it never tells of a transition, a
\* creation, a deletion, a publication or a revocation that did not happen, wherever
\* the process dies (revisions.service.ts:147-157, applicability-rules.service.ts:37-59,
\* 115-127, publish.service.ts:98-113, 131-145).
AuditTellsTheTruth ==
  audit \ ({"UPDATE"} \X Revision)
    \subseteq changed \cup ({"PUBLICATION_CREATED"} \X Published)
      \cup ({"PUBLICATION_REVOKED"} \X {p \in Published : ~IsActive(p)})
=============================================================================
