--------------------------- MODULE MCPublicAccess ---------------------------
(***************************************************************************)
(* Instances of PublicAccess for TLC.  A behaviour is about one of two     *)
(* things, chosen at its start: new revisions on their way from a file to  *)
(* a publication, or visitors of the publications of revisions there are.  *)
(***************************************************************************)
EXTENDS PublicAccess, TLC

CONSTANTS r1, r2, r3, p1, A, k1, slot1, slot2

VARIABLE focus   \* "uploads" or "visits"

mcVars == <<libraryVars, focus>>

Blank ==
  [productFamilyId |-> Null, productId |-> Null, variantId |-> Null,
   batchId |-> Null, unitId |-> Null, serialFrom |-> Null, serialTo |-> Null,
   validFrom |-> Null, validUntil |-> Null, explicitExclusion |-> FALSE]

Whole == [Blank EXCEPT !.productId = p1]
First == [Blank EXCEPT !.serialFrom = [prefix |-> A, sequence |-> 1],
                       !.serialTo = [prefix |-> A, sequence |-> 1]]

Pool == {Whole, First}

\* The page of the product, and the page of a unit that both rules match.
Contexts ==
  {[productFamilyId |-> Null, productId |-> p1, variantId |-> Null, batchId |-> Null,
    unitId |-> Null, parsedSerial |-> serial] :
     serial \in {Null, [prefix |-> A, sequence |-> 1]}}

\* r3 exists and is APPROVED; r1 and r2 are uploaded, for one slot.
Statuses == [r \in Revision |-> IF r \in Existing THEN "APPROVED" ELSE "DRAFT"]
Rules == [r \in Revision |-> [row \in Row |-> IF r = r3 THEN Whole ELSE First]]
Slots == [r \in Revision |-> IF r = r3 THEN slot1 ELSE slot2]
OneKey == [r \in Revision |-> k1]

MCInit == LibraryInit /\ focus \in {"uploads", "visits"}

\* Editing rules is left to MCPublishing.
InFocus ==
  IF focus = "uploads"
    THEN /\ \A e \in Editor : edit'[e].action \in RevisionStatus \cup {Null}
         /\ UNCHANGED <<visit, revocation, now>>
    ELSE UNCHANGED <<upload, edit>>

MCNext == LibraryNext /\ InFocus /\ UNCHANGED focus

MCSpec == MCInit /\ [][MCNext]_mcVars

\* No action looks at the audit trail, nor do the properties.
WithoutAudit ==
  <<status, rules, edit, publishingVars, uploadVars, visit, focus>>

Symmetry == Permutations(PubId) \cup Permutations(Uploader) \cup Permutations(Publisher)
              \cup Permutations(Revoker)
=============================================================================
