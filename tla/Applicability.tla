--------------------------- MODULE Applicability ---------------------------
(***************************************************************************)
(* The pure layer of DocumentHub: what an applicability rule matches, how  *)
(* specific it is, when two rules could apply to the same unit, and which  *)
(* publications the resolver picks for a unit.  Nothing here has state;    *)
(* the modules about publishing and the public pages build on it.          *)
(*                                                                         *)
(* A serial number is a free-form prefix and a trailing run of digits.     *)
(* The code stores the text of a bound next to its parsed prefix and       *)
(* sequence and keeps the two in step (a bound is set exactly when its     *)
(* parsed form is), so a bound here is its parsed form or Null.            *)
(***************************************************************************)
EXTENDS Integers

CONSTANTS
  Family, Product, Variant, Batch, Unit, \* ids of the product catalogue
  Prefix,                                \* prefixes of serial numbers
  Null                                   \* "this field is not set"

ASSUME NullAssumption ==
  /\ Null \notin Nat
  /\ Null \notin Family \cup Product \cup Variant \cup Batch \cup Unit

Serial == [prefix : Prefix, sequence : Nat]

\* A serial number as a user types it: digits is Null when it has none.
RawSerial == [prefix : Prefix, digits : Nat \cup {Null}]

Rule ==
  [productFamilyId : Family \cup {Null},
   productId       : Product \cup {Null},
   variantId       : Variant \cup {Null},
   batchId         : Batch \cup {Null},
   unitId          : Unit \cup {Null},
   serialFrom      : Serial \cup {Null},
   serialTo        : Serial \cup {Null},
   validFrom       : Nat \cup {Null},
   validUntil      : Nat \cup {Null},
   explicitExclusion : BOOLEAN]

\* What is known of the unit documents are looked up for.
UnitContext ==
  [productFamilyId : Family \cup {Null},
   productId       : Product,
   variantId       : Variant \cup {Null},
   batchId         : Batch \cup {Null},
   unitId          : Unit \cup {Null},
   parsedSerial    : Serial \cup {Null}]

----------------------------------------------------------------------------
\* Serial numbers

ParseSerial(raw) ==
  [prefix   |-> raw.prefix,
   sequence |-> IF raw.digits = Null THEN 0 ELSE raw.digits]

SerialInRange(serial, from, to) ==
  /\ from # Null => from.prefix = serial.prefix /\ from.sequence <= serial.sequence
  /\ to # Null => to.prefix = serial.prefix /\ serial.sequence <= to.sequence

HasRange(rule) == rule.serialFrom # Null \/ rule.serialTo # Null

----------------------------------------------------------------------------
\* Matching and ranking one rule

\* The most specific field that is set decides; fields do not add up.
Specificity(rule) ==
  IF rule.unitId # Null THEN 600 ELSE
  IF HasRange(rule) THEN 500 ELSE
  IF rule.batchId # Null THEN 400 ELSE
  IF rule.variantId # Null THEN 300 ELSE
  IF rule.productId # Null THEN 200 ELSE
  IF rule.productFamilyId # Null THEN 100 ELSE 0

\* A field of a rule that is not set accepts every unit.
Accepts(field, value) == field = Null \/ field = value

IdsMatch(rule, context) ==
  /\ Accepts(rule.productFamilyId, context.productFamilyId)
  /\ Accepts(rule.productId, context.productId)
  /\ Accepts(rule.variantId, context.variantId)
  /\ Accepts(rule.batchId, context.batchId)
  /\ Accepts(rule.unitId, context.unitId)

RuleScopeMatches(rule, context, effectiveAt) ==
  /\ IdsMatch(rule, context)
  /\ HasRange(rule) =>
       /\ context.parsedSerial # Null
       /\ SerialInRange(context.parsedSerial, rule.serialFrom, rule.serialTo)
  /\ rule.validFrom # Null => rule.validFrom <= effectiveAt
  /\ rule.validUntil # Null => effectiveAt <= rule.validUntil

RuleMatchesUnitContext(rule, context, effectiveAt) ==
  ~rule.explicitExclusion /\ RuleScopeMatches(rule, context, effectiveAt)

----------------------------------------------------------------------------
\* Two rules: could they apply to the same unit?

\* Two values of one field prove nothing unless both are set and differ.
Differ(a, b) == a # Null /\ b # Null /\ a # b

ProvenDisjointIds(a, b) ==
  \/ Differ(a.productFamilyId, b.productFamilyId)
  \/ Differ(a.productId, b.productId)
  \/ Differ(a.variantId, b.variantId)
  \/ Differ(a.batchId, b.batchId)
  \/ Differ(a.unitId, b.unitId)

RangePrefix(rule) ==
  IF rule.serialFrom # Null THEN rule.serialFrom.prefix ELSE rule.serialTo.prefix

\* Mutant: ranges that share their last and first serial count as disjoint.
EndsAtOrBefore(to, from) == to # Null /\ from # Null /\ to.sequence <= from.sequence

\* `to` ends before `from` begins; a bound that is not set never does.
EndsBefore(to, from) == to # Null /\ from # Null /\ to.sequence < from.sequence

\* Mutants: only one order of the two ranges is tried; a range without an upper
\* bound is taken to end where it begins.
ProvenDisjointOneWay(a, b) ==
  /\ HasRange(a) /\ HasRange(b)
  /\ \/ RangePrefix(a) # RangePrefix(b)
     \/ EndsBefore(a.serialTo, b.serialFrom)

ProvenDisjointPoints(a, b) ==
  LET End(rule) == IF rule.serialTo = Null THEN rule.serialFrom ELSE rule.serialTo
  IN /\ HasRange(a) /\ HasRange(b)
     /\ \/ RangePrefix(a) # RangePrefix(b)
        \/ EndsBefore(End(a), b.serialFrom)
        \/ EndsBefore(End(b), a.serialFrom)

ProvenDisjointSerials(a, b) ==
  /\ HasRange(a) /\ HasRange(b)
  /\ \/ RangePrefix(a) # RangePrefix(b)
     \/ EndsBefore(a.serialTo, b.serialFrom)
     \/ EndsBefore(b.serialTo, a.serialFrom)

RulesCouldOverlap(a, b) == ~ProvenDisjointIds(a, b) /\ ~ProvenDisjointSerials(a, b)

\* The pairs the publish-time check refuses: same rank and not provably disjoint.
Compete(a, b) ==
  /\ ~a.explicitExclusion /\ ~b.explicitExclusion
  /\ Specificity(a) = Specificity(b)
  /\ RulesCouldOverlap(a, b)

RuleSetsConflict(newRules, existingRules) ==
  \E a \in newRules, b \in existingRules : Compete(a, b)

----------------------------------------------------------------------------
\* A rule set against a unit, as the resolver ranks it

Excluded(rules, context, effectiveAt) ==
  \E rule \in rules :
    rule.explicitExclusion /\ RuleScopeMatches(rule, context, effectiveAt)

\* The ranks at which a rule set reaches the unit; the resolver keeps the highest.
MatchedSpecificities(rules, context, effectiveAt) ==
  {Specificity(rule) : rule \in
     {r \in rules : RuleMatchesUnitContext(r, context, effectiveAt)}}

Applies(rules, context, effectiveAt) ==
  /\ ~Excluded(rules, context, effectiveAt)
  /\ MatchedSpecificities(rules, context, effectiveAt) # {}

----------------------------------------------------------------------------
\* The publish preview's unit count: the same scope as a WHERE clause

\* One prefix is taken for the whole range: the lower bound's when it is set.
InWhereRange(rule, serial) ==
  HasRange(rule) =>
    /\ serial.prefix = RangePrefix(rule)
    /\ rule.serialFrom # Null => rule.serialFrom.sequence <= serial.sequence
    /\ rule.serialTo # Null => serial.sequence <= rule.serialTo.sequence

\* The clause is true of the unit.
InWhereClause(rule, context) ==
  IdsMatch(rule, context) /\ InWhereRange(rule, context.parsedSerial)

\* The clause is false of the unit, and its NOT true.  In SQL a comparison with
\* a column that is NULL is neither: a unit without a variant is neither in nor
\* outside the clause of a rule about a variant.
OutsideWhereClause(rule, context) ==
  ProvenDisjointIds(rule, context) \/ ~InWhereRange(rule, context.parsedSerial)

\* Mutant: units that only an exclusion names are counted as well.
AffectedByAnyRule(rules, units) ==
  {u \in units : \E rule \in rules : InWhereClause(rule, u)}

AffectedUnits(rules, units) ==
  {u \in units :
     /\ \E rule \in rules : ~rule.explicitExclusion /\ InWhereClause(rule, u)
     /\ \A rule \in rules : rule.explicitExclusion => OutsideWhereClause(rule, u)}
=============================================================================
