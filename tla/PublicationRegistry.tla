------------------------ MODULE PublicationRegistry ------------------------
(***************************************************************************)
(* What publishing promises, with no transactions, locks or snapshots: a   *)
(* registry of publications in which publishing is one atomic step that    *)
(* looks at the registry as it is, and revoking is one-way.                *)
(***************************************************************************)
EXTENDS Applicability

CONSTANTS PubId, Revision, RulePool, Key, KeyOf

VARIABLE registry   \* per id: what was published, if anything, and whether it holds

Vacant == [revision |-> Null, rules |-> {}, status |-> "VACANT"]

Active(p) == registry[p].status = "ACTIVE"

Init == registry = [p \in PubId |-> Vacant]

Publish(p, r, newRules) ==
  /\ registry[p] = Vacant
  /\ registry' = [registry EXCEPT ![p] =
       [revision |-> r, rules |-> newRules, status |-> "ACTIVE"]]
  /\ \A q \in PubId :
       Active(q) /\ KeyOf[registry[q].revision] = KeyOf[r]
         => ~RuleSetsConflict(newRules, registry[q].rules)

Revoke(p) ==
  /\ Active(p)
  /\ registry' = [registry EXCEPT ![p] = [@ EXCEPT !.status = "REVOKED"]]

Next ==
  \E p \in PubId :
    \/ \E r \in Revision, newRules \in SUBSET RulePool : Publish(p, r, newRules)
    \/ Revoke(p)

Spec == Init /\ [][Next]_registry
=============================================================================
