-------------------------- MODULE MCApplicability --------------------------
(***************************************************************************)
(* Checks the pure layer by enumeration: small families of rules that      *)
(* combine the fields of a rule, and the units of a small catalogue.       *)
(***************************************************************************)
EXTENDS RulePairs, FiniteSets

CONSTANT Times   \* values of effectiveAt

VARIABLE dimension     \* what the rules of this behaviour are about

vars == <<dimension, pairVars>>

NoRule ==
  [productFamilyId |-> Null, productId |-> Null, variantId |-> Null,
   batchId |-> Null, unitId |-> Null, serialFrom |-> Null, serialTo |-> Null,
   validFrom |-> Null, validUntil |-> Null, explicitExclusion |-> FALSE]

Bounds == [prefix : Prefix, sequence : 0 .. 2] \cup {Null}

\* Every serial range, alone and together with a product, and with dates and
\* exclusions next to them.
SerialRules ==
  {[NoRule EXCEPT !.serialFrom = from, !.serialTo = to, !.productId = p] :
     from \in Bounds, to \in Bounds, p \in Product \cup {Null}}
  \cup
  {[NoRule EXCEPT !.serialFrom = from, !.explicitExclusion = TRUE] : from \in Bounds}
  \cup
  {[NoRule EXCEPT !.validFrom = x, !.validUntil = y, !.explicitExclusion = e] :
     x \in {1, Null}, y \in {1, Null}, e \in BOOLEAN}

\* Every combination of ids, to include and to exclude.
IdRules ==
  {[NoRule EXCEPT !.productFamilyId = f, !.productId = p, !.variantId = v,
                  !.batchId = n, !.unitId = u, !.explicitExclusion = e] :
     f \in Family \cup {Null}, p \in Product \cup {Null}, v \in Variant \cup {Null},
     n \in Batch \cup {Null}, u \in Unit \cup {Null}, e \in BOOLEAN}

Rules == IF dimension = "serials" THEN SerialRules ELSE IdRules

RawUnits ==
  IF dimension = "serials" THEN [prefix : Prefix, digits : 0 .. 3 \cup {Null}]
                           ELSE [prefix : Prefix, digits : {0}]

\* The units of the database: every combination of ids, and the serial numbers.
Units ==
  {c \in [productFamilyId : Family \cup {Null}, productId : Product,
          variantId : Variant \cup {Null}, batchId : Batch \cup {Null},
          unitId : Unit, parsedSerial : {ParseSerial(raw) : raw \in RawUnits}] :
     dimension = "serials" =>
       /\ c.productFamilyId = Null /\ c.variantId = Null /\ c.batchId = Null
       /\ c.unitId = CHOOSE u \in Unit : TRUE}

Init ==
  /\ dimension \in {"serials", "ids"}
  /\ NothingPicked
  /\ lookedUpAt \in Times

Next == (PickRules(Rules) \/ PickUnit(RawUnits, Units)) /\ UNCHANGED dimension

Spec == Init /\ [][Next]_vars
=============================================================================
