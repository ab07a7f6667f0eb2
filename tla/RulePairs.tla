----------------------------- MODULE RulePairs -----------------------------
(***************************************************************************)
(* What the functions about rules say of one another: a behaviour picks    *)
(* any two rules, then a unit of the database to look documents up for at  *)
(* some moment, and the properties compare the overlap test of publishing, *)
(* the matching of the resolver and the unit count of the preview.         *)
(***************************************************************************)
EXTENDS Applicability

\* A bound that is not set is not a serial number.
ASSUME NoSerialAssumption == Null \notin Serial

VARIABLES
  oneRule, otherRule,  \* the two rules
  typedSerial,         \* the unit's serial number, as typed
  unitContext,         \* the unit, with its serial number parsed
  lookedUpAt           \* effectiveAt

pairVars == <<oneRule, otherRule, typedSerial, unitContext, lookedUpAt>>

NothingPicked ==
  oneRule = Null /\ otherRule = Null /\ typedSerial = Null /\ unitContext = Null

PickRules(rules) ==
  /\ oneRule = Null
  /\ oneRule' \in rules /\ otherRule' \in rules
  /\ UNCHANGED <<typedSerial, unitContext, lookedUpAt>>

\* A unit of the database has a serial number parsed from what was typed.
PickUnit(raws, units) ==
  /\ oneRule # Null /\ unitContext = Null
  /\ typedSerial' \in raws
  /\ unitContext' \in {c \in units : c.parsedSerial = ParseSerial(typedSerial')}
  /\ UNCHANGED <<oneRule, otherRule, lookedUpAt>>

PairInit == NothingPicked /\ lookedUpAt \in Nat

StoredUnit == {context \in UnitContext : context.unitId # Null}

PairNext == PickRules(Rule) \/ PickUnit(RawSerial, StoredUnit)

PairSpec == PairInit /\ [][PairNext]_pairVars

----------------------------------------------------------------------------
Picked == unitContext # Null

\* Conflict detection has no false negatives (rules-overlap.ts): two rules
\* that both match one unit at one moment are reported as overlapping.
OverlapIsConservative ==
  Picked /\ RuleScopeMatches(oneRule, unitContext, lookedUpAt)
         /\ RuleScopeMatches(otherRule, unitContext, lookedUpAt)
    => RulesCouldOverlap(oneRule, otherRule)

OnePrefix(rule) ==
  rule.serialFrom # Null /\ rule.serialTo # Null
    => rule.serialFrom.prefix = rule.serialTo.prefix

RunsForward(rule) ==
  rule.serialFrom # Null /\ rule.serialTo # Null
    => rule.serialFrom.sequence <= rule.serialTo.sequence

WellFormed(rule) == HasRange(rule) /\ OnePrefix(rule) /\ RunsForward(rule)

\* Where two ranges begin: their lower bounds, and the first serial number.
Starts(a, b) ==
  {a.serialFrom, b.serialFrom, [prefix |-> RangePrefix(a), sequence |-> 0]}

\* ... and it is not a blanket refusal: when two rules whose ranges run
\* forward, with one prefix each, overlap in their serials, some serial
\* number lies in both (rules-overlap.ts, the interval test).
OverlapIsExactOnSerials ==
  /\ oneRule # Null /\ WellFormed(oneRule) /\ WellFormed(otherRule)
  /\ ~ProvenDisjointSerials(oneRule, otherRule)
  => \E serial \in Starts(oneRule, otherRule) :
       /\ serial \in Serial
       /\ SerialInRange(serial, oneRule.serialFrom, oneRule.serialTo)
       /\ SerialInRange(serial, otherRule.serialFrom, otherRule.serialTo)

Unlimited(rule) == [rule EXCEPT !.validFrom = Null, !.validUntil = Null]

Counted == unitContext \in AffectedUnits({oneRule, otherRule}, {unitContext})

Reached == Applies({Unlimited(oneRule), Unlimited(otherRule)}, unitContext, lookedUpAt)

\* The rule names what the unit has none of: its product is in no family, it is
\* of no variant or of no batch.
NamesWhatItLacks(rule) ==
  \/ rule.productFamilyId # Null /\ unitContext.productFamilyId = Null
  \/ rule.variantId # Null /\ unitContext.variantId = Null
  \/ rule.batchId # Null /\ unitContext.batchId = Null

\* As long as both bounds of each range carry one prefix and the validity dates
\* are left aside, the preview counts no unit the resolver would not give the
\* publication; it misses one only if an exclusion names what the unit lacks
\* (affected-units.ts, the WHERE clause and its NOT, against specificity.ts).
CountMissesOnlyTheUndecided ==
  Picked /\ OnePrefix(oneRule) /\ OnePrefix(otherRule) =>
    /\ Counted => Reached
    /\ Reached /\ ~Counted =>
         \E rule \in {oneRule, otherRule} : rule.explicitExclusion /\ NamesWhatItLacks(rule)

\* What countAffectedUnits says of itself (affected-units.ts:49-52): of the units
\* the inclusions reach, those that match an exclusion's scope are subtracted.
OnlyMatchesAreSubtracted ==
  /\ Picked /\ OnePrefix(oneRule) /\ OnePrefix(otherRule)
  /\ \E rule \in {oneRule, otherRule} :
       ~rule.explicitExclusion /\ InWhereClause(rule, unitContext)
  /\ ~Counted
  => \E rule \in {oneRule, otherRule} :
       rule.explicitExclusion /\ RuleScopeMatches(Unlimited(rule), unitContext, lookedUpAt)
=============================================================================
