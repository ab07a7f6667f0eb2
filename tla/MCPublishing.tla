---------------------------- MODULE MCPublishing ----------------------------
(***************************************************************************)
(* Instances of Publishing for TLC.  The rules meet in every way that      *)
(* matters to the conflict check: equal rank and overlapping, equal rank   *)
(* and disjoint, different rank and overlapping, and an exclusion.         *)
(***************************************************************************)
EXTENDS PublishingReview, TLC

CONSTANTS r1, r2, r3, r4, k1, k2, p1, p2, u1, A

VARIABLE focus   \* what a behaviour is about

mcVars == <<reviewVars, focus>>

Blank ==
  [productFamilyId |-> Null, productId |-> Null, variantId |-> Null,
   batchId |-> Null, unitId |-> Null, serialFrom |-> Null, serialTo |-> Null,
   validFrom |-> Null, validUntil |-> Null, explicitExclusion |-> FALSE]

Bound(n) == [prefix |-> A, sequence |-> n]

Low      == [Blank EXCEPT !.serialFrom = Bound(1), !.serialTo = Bound(1)]
High     == [Blank EXCEPT !.serialFrom = Bound(2)]
All      == [Blank EXCEPT !.serialFrom = Bound(0)]
Whole    == [Blank EXCEPT !.productId = p1]
Exclude1 == [Blank EXCEPT !.unitId = u1, !.explicitExclusion = TRUE]

Context(product, unit, n) ==
  [productFamilyId |-> Null, productId |-> product, variantId |-> Null,
   batchId |-> Null, unitId |-> unit, parsedSerial |-> Bound(n)]

Contexts ==
  {Context(p1, u1, 1), Context(p1, Null, 1), Context(p1, Null, 2), Context(p2, Null, 2)}

\* Editors may write two rules of equal rank that overlap, and a wider one.
EditedPool == {Low, All}
SharedPool == {Low, High, All, Whole, Exclude1}
FourPool   == {Low, All, Whole, Exclude1}

\* r4 is a revision of another document.
TwoKeys == [r \in Revision |-> IF r = r4 THEN k2 ELSE k1]
OneKey  == [r \in Revision |-> k1]

\* Two rows per revision, of which the first ones may be filled.
NoRules == [r \in Revision |-> [row \in Row |-> Null]]

CompetingRules ==
  (r1 :> (1 :> All @@ 2 :> Whole)) @@ (r2 :> (1 :> Low @@ 2 :> Exclude1))
\* r1 and r2 compete; r3 and either of them may be ACTIVE together.
FourRuleSets ==
  LET rulesOf == (r1 :> (1 :> All @@ 2 :> Exclude1)) @@ (r2 :> (1 :> Low @@ 2 :> Null))
              @@ (r3 :> (1 :> Whole @@ 2 :> Null)) @@ (r4 :> (1 :> Whole @@ 2 :> Null))
  IN [r \in Revision |-> rulesOf[r]]

AllDraft    == [r \in Revision |-> "DRAFT"]
AllApproved == [r \in Revision |-> "APPROVED"]
\* r3 is still being edited.
ThirdDraft  == [r \in Revision |-> IF r = r3 THEN "DRAFT" ELSE "APPROVED"]

MCNext == Next /\ Review /\ Races /\ UNCHANGED <<changed, focus>>

MCInit == ReviewInit /\ focus = "all"

MCSpec == MCInit /\ [][MCNext]_mcVars

\* Where editing is the subject: r3 is edited by one editor, who may fail.
EditNext ==
  /\ EditingNext
  /\ \A e \in Editor : edit'[e].pc # "idle" => edit'[e].revision = r3
  /\ UNCHANGED publishingVars

\* Where it is the lock: everybody publishes.
PublishNext ==
  \E w \in Publisher : (\E r \in Revision \ {r3} : BeginPublish(w, r)) \/ PublishStep(w)

\* Where it is the past: two revisions that compete are published, up to two
\* publications, and revoked as time goes by.
InFlight == {w \in Publisher : tx[w].pc # "idle"}

RevokeNext ==
  \/ /\ Cardinality(Published) + Cardinality(InFlight) < 2
     /\ \E w \in Publisher, r \in {r1, r2} : BeginPublish(w, r)
  \/ \E w \in Publisher : PublishStep(w)
  \/ \E v \in Revoker, p \in PubId : ReadForRevoke(v, p)
  \/ \E v \in Revoker : RevokeStep(v)
  \/ Tick

FocusNext ==
  /\ CASE focus = "edits" -> EditNext
       [] focus = "lock"  -> PublishNext
       [] focus = "past"  -> RevokeNext
  /\ Changes /\ Races /\ UNCHANGED <<reached, approvedRules, focus>>

FocusInit == ReviewInit /\ focus \in {"edits", "lock", "past"}

FocusSpec == FocusInit /\ [][FocusNext]_mcVars /\ Fairness

\* No action looks at the audit trail, nor do the properties checked under this view.
WithoutAudit == <<status, rules, edit, publishingVars, reached, approvedRules, raceVars, focus>>

Symmetry ==
  Permutations(PubId) \cup Permutations(Publisher) \cup Permutations(Revoker)
    \cup Permutations(Editor)
=============================================================================
