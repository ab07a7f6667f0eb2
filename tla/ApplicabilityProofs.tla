------------------------ MODULE ApplicabilityProofs ------------------------
(***************************************************************************)
(* Facts about rules, for every catalogue, every set of serial prefixes    *)
(* and serial numbers of any size.                                         *)
(***************************************************************************)
EXTENDS RulePairs, TLAPS

\* The score of a rule is a number.
LEMMA SpecificityIsNat == \A rule : Specificity(rule) \in Nat
  BY DEF Specificity

\* Two rules that accept one unit set no scope id to different values.
LEMMA MatchingIdsAgree ==
  ASSUME NEW a, NEW b, NEW context, IdsMatch(a, context), IdsMatch(b, context)
  PROVE  ~ProvenDisjointIds(a, b)
  BY DEF IdsMatch, Accepts, ProvenDisjointIds, Differ

\* Two ranges that contain one serial number have its prefix and no gap.
LEMMA MatchingSerialsMeet ==
  ASSUME NEW a \in Rule, NEW b \in Rule, NEW serial \in Serial,
         HasRange(a), SerialInRange(serial, a.serialFrom, a.serialTo),
         HasRange(b), SerialInRange(serial, b.serialFrom, b.serialTo)
  PROVE  ~ProvenDisjointSerials(a, b)
<1>1. RangePrefix(a) = serial.prefix
  BY DEF RangePrefix, HasRange, SerialInRange
<1>2. RangePrefix(b) = serial.prefix
  BY DEF RangePrefix, HasRange, SerialInRange
<1>3. ~EndsBefore(a.serialTo, b.serialFrom)
  <2>1. SUFFICES ASSUME a.serialTo # Null, b.serialFrom # Null
                 PROVE  ~(a.serialTo.sequence < b.serialFrom.sequence)
    BY DEF EndsBefore
  <2>2. a.serialTo \in Serial /\ b.serialFrom \in Serial
    BY <2>1 DEF Rule
  <2>3. /\ a.serialTo.sequence \in Nat
        /\ b.serialFrom.sequence \in Nat
        /\ serial.sequence \in Nat
    BY <2>2 DEF Serial
  <2>4. /\ serial.sequence <= a.serialTo.sequence
        /\ b.serialFrom.sequence <= serial.sequence
    BY <2>1 DEF SerialInRange
  <2> QED BY <2>3, <2>4
<1>4. ~EndsBefore(b.serialTo, a.serialFrom)
  <2>1. SUFFICES ASSUME b.serialTo # Null, a.serialFrom # Null
                 PROVE  ~(b.serialTo.sequence < a.serialFrom.sequence)
    BY DEF EndsBefore
  <2>2. b.serialTo \in Serial /\ a.serialFrom \in Serial
    BY <2>1 DEF Rule
  <2>3. /\ b.serialTo.sequence \in Nat
        /\ a.serialFrom.sequence \in Nat
        /\ serial.sequence \in Nat
    BY <2>2 DEF Serial
  <2>4. /\ serial.sequence <= b.serialTo.sequence
        /\ a.serialFrom.sequence <= serial.sequence
    BY <2>1 DEF SerialInRange
  <2> QED BY <2>3, <2>4
<1> QED BY <1>1, <1>2, <1>3, <1>4 DEF ProvenDisjointSerials

\* Conflict detection has no false negatives (rules-overlap.ts): two rules
\* that match one unit are never taken to be disjoint.
THEOREM OverlapIsConservativeForAll ==
  ASSUME NEW a \in Rule, NEW b \in Rule, NEW context \in UnitContext, NEW t,
         RuleScopeMatches(a, context, t), RuleScopeMatches(b, context, t)
  PROVE  RulesCouldOverlap(a, b)
<1>1. ~ProvenDisjointIds(a, b)
  BY MatchingIdsAgree DEF RuleScopeMatches
<1>2. ~ProvenDisjointSerials(a, b)
  <2>1. CASE HasRange(a) /\ HasRange(b)
    <3>1. context.parsedSerial \in Serial
      BY <2>1 DEF RuleScopeMatches, UnitContext
    <3>2. /\ SerialInRange(context.parsedSerial, a.serialFrom, a.serialTo)
          /\ SerialInRange(context.parsedSerial, b.serialFrom, b.serialTo)
      BY <2>1 DEF RuleScopeMatches
    <3> QED BY <2>1, <3>1, <3>2, MatchingSerialsMeet
  <2>2. CASE ~(HasRange(a) /\ HasRange(b))
    BY <2>2 DEF ProvenDisjointSerials
  <2> QED BY <2>1, <2>2
<1> QED BY <1>1, <1>2 DEF RulesCouldOverlap

\* It does not matter which of two rules is the new one.
LEMMA CompeteIsSymmetric == \A a, b : Compete(a, b) => Compete(b, a)
  BY DEF Compete, RulesCouldOverlap, ProvenDisjointIds, Differ,
         ProvenDisjointSerials, EndsBefore

LEMMA ConflictIsSymmetric ==
  \A A, B : RuleSetsConflict(A, B) => RuleSetsConflict(B, A)
  BY CompeteIsSymmetric DEF RuleSetsConflict

\* Two rule sets that reach a unit at the same rank conflict: a tie in the
\* resolver is always a pair of rules the publish-time check refuses.
THEOREM TieIsConflict ==
  ASSUME NEW A \in SUBSET Rule, NEW B \in SUBSET Rule,
         NEW context \in UnitContext, NEW t, NEW s,
         s \in MatchedSpecificities(A, context, t),
         s \in MatchedSpecificities(B, context, t)
  PROVE  RuleSetsConflict(A, B)
<1>1. PICK a \in A : RuleMatchesUnitContext(a, context, t) /\ Specificity(a) = s
  BY DEF MatchedSpecificities
<1>2. PICK b \in B : RuleMatchesUnitContext(b, context, t) /\ Specificity(b) = s
  BY DEF MatchedSpecificities
<1>3. RulesCouldOverlap(a, b)
  BY <1>1, <1>2, OverlapIsConservativeForAll DEF RuleMatchesUnitContext
<1> QED BY <1>1, <1>2, <1>3 DEF RuleSetsConflict, Compete, RuleMatchesUnitContext

----------------------------------------------------------------------------
\* Any two rules and any unit

\* What the picks are.
PairInv ==
  /\ oneRule # Null => oneRule \in Rule /\ otherRule \in Rule
  /\ Picked =>
       /\ oneRule # Null
       /\ unitContext \in StoredUnit /\ unitContext.parsedSerial \in Serial

LEMMA ParsedIsSerial == \A raw \in RawSerial : ParseSerial(raw) \in Serial
  BY DEF RawSerial, ParseSerial, Serial

LEMMA PairInvHolds == PairSpec => []PairInv
<1>1. PairInit => PairInv
  BY DEF PairInit, NothingPicked, PairInv, Picked
<1>2. PairInv /\ [PairNext]_pairVars => PairInv'
  <2>1. PairInv /\ PickRules(Rule) => PairInv'
    BY DEF PairInv, PickRules, Picked
  <2>2. PairInv /\ PickUnit(RawSerial, StoredUnit) => PairInv'
    BY ParsedIsSerial DEF PairInv, PickUnit, Picked
  <2>3. PairInv /\ UNCHANGED pairVars => PairInv'
    BY DEF PairInv, pairVars, Picked
  <2> QED BY <2>1, <2>2, <2>3 DEF PairNext
<1> QED BY <1>1, <1>2, PTL DEF PairSpec

\* The overlap test never misses two rules that match one unit, for every
\* rule, unit and moment (rules-overlap.ts).
THEOREM OverlapIsConservativeEver == PairSpec => []OverlapIsConservative
<1>1. PairInv => OverlapIsConservative
  BY OverlapIsConservativeForAll DEF PairInv, StoredUnit, OverlapIsConservative
<1> QED BY <1>1, PairInvHolds, PTL

\* A well-formed range contains a serial number of its prefix exactly when the
\* number is not outside its bounds.
LEMMA RangeByItsPrefix ==
  ASSUME NEW rule \in Rule, HasRange(rule), OnePrefix(rule), NEW serial \in Serial
  PROVE  SerialInRange(serial, rule.serialFrom, rule.serialTo) <=>
           /\ serial.prefix = RangePrefix(rule)
           /\ rule.serialFrom # Null => rule.serialFrom.sequence <= serial.sequence
           /\ rule.serialTo # Null => serial.sequence <= rule.serialTo.sequence
  BY DEF HasRange, OnePrefix, SerialInRange, RangePrefix

\* The bounds of a rule are serial numbers.
LEMMA BoundsAreSerials ==
  ASSUME NEW rule \in Rule
  PROVE  /\ rule.serialFrom # Null =>
              /\ rule.serialFrom \in Serial
              /\ rule.serialFrom.prefix \in Prefix /\ rule.serialFrom.sequence \in Nat
         /\ rule.serialTo # Null =>
              /\ rule.serialTo \in Serial
              /\ rule.serialTo.prefix \in Prefix /\ rule.serialTo.sequence \in Nat
  BY DEF Rule, Serial

\* Two well-formed ranges that no gap separates share a serial number: the
\* higher lower bound when there is one, the first number of the prefix else.
LEMMA OverlappingRangesMeet ==
  ASSUME NEW a \in Rule, NEW b \in Rule, WellFormed(a), WellFormed(b),
         ~ProvenDisjointSerials(a, b)
  PROVE  \E serial \in Starts(a, b) :
           /\ serial \in Serial
           /\ SerialInRange(serial, a.serialFrom, a.serialTo)
           /\ SerialInRange(serial, b.serialFrom, b.serialTo)
<1> DEFINE first == [prefix |-> RangePrefix(a), sequence |-> 0]
           Fits(serial) ==
             /\ serial \in Starts(a, b) /\ serial \in Serial
             /\ serial.prefix = RangePrefix(a)
             /\ a.serialFrom # Null => a.serialFrom.sequence <= serial.sequence
             /\ a.serialTo # Null => serial.sequence <= a.serialTo.sequence
             /\ b.serialFrom # Null => b.serialFrom.sequence <= serial.sequence
             /\ b.serialTo # Null => serial.sequence <= b.serialTo.sequence
<1>1. /\ RangePrefix(a) = RangePrefix(b)
      /\ ~EndsBefore(a.serialTo, b.serialFrom) /\ ~EndsBefore(b.serialTo, a.serialFrom)
  BY DEF WellFormed, ProvenDisjointSerials
<1>2. ASSUME NEW serial, Fits(serial)
      PROVE  /\ SerialInRange(serial, a.serialFrom, a.serialTo)
             /\ SerialInRange(serial, b.serialFrom, b.serialTo)
  BY <1>1, <1>2, RangeByItsPrefix DEF WellFormed
<1>3. CASE /\ a.serialFrom # Null
           /\ b.serialFrom # Null => b.serialFrom.sequence <= a.serialFrom.sequence
  <2>1. Fits(a.serialFrom)
    BY <1>1, <1>3, BoundsAreSerials
       DEF Starts, RangePrefix, EndsBefore, WellFormed, RunsForward
  <2> QED BY <1>2, <2>1
<1>4. CASE /\ b.serialFrom # Null
           /\ a.serialFrom # Null => a.serialFrom.sequence <= b.serialFrom.sequence
  <2>1. Fits(b.serialFrom)
    BY <1>1, <1>4, BoundsAreSerials
       DEF Starts, RangePrefix, EndsBefore, WellFormed, RunsForward
  <2> QED BY <1>2, <2>1
<1>5. CASE a.serialFrom = Null /\ b.serialFrom = Null
  <2>1. first \in Serial
    BY <1>5, BoundsAreSerials DEF WellFormed, HasRange, RangePrefix, Serial
  <2>2. Fits(first)
    BY <1>1, <1>5, <2>1, BoundsAreSerials DEF Starts
  <2> QED BY <1>2, <2>2
<1> QED BY <1>3, <1>4, <1>5, BoundsAreSerials

\* The interval test refuses only what it must, for every two ranges: when it
\* finds no gap there is a serial number in both (rules-overlap.ts).
THEOREM OverlapIsExactOnSerialsEver == PairSpec => []OverlapIsExactOnSerials
<1>1. PairInv => OverlapIsExactOnSerials
  BY OverlappingRangesMeet DEF PairInv, OverlapIsExactOnSerials
<1> QED BY <1>1, PairInvHolds, PTL

\* A rule without its validity dates.
LEMMA UnlimitedKeepsTheScope ==
  ASSUME NEW rule \in Rule
  PROVE  LET open == Unlimited(rule)
         IN /\ open.productFamilyId = rule.productFamilyId
            /\ open.productId = rule.productId
            /\ open.variantId = rule.variantId
            /\ open.batchId = rule.batchId
            /\ open.unitId = rule.unitId
            /\ open.serialFrom = rule.serialFrom /\ open.serialTo = rule.serialTo
            /\ open.explicitExclusion = rule.explicitExclusion
            /\ open.validFrom = Null /\ open.validUntil = Null
  BY DEF Unlimited, Rule

\* For a rule with one prefix the WHERE clause of the count and the matching of
\* the resolver accept the same units, the dates aside.
LEMMA WhereClauseIsScope ==
  ASSUME NEW rule \in Rule, OnePrefix(rule), NEW context, NEW t,
         context.parsedSerial \in Serial
  PROVE  InWhereClause(rule, context) <=> RuleScopeMatches(Unlimited(rule), context, t)
<1> DEFINE open == Unlimited(rule)
           serial == context.parsedSerial
<1>1. IdsMatch(open, context) <=> IdsMatch(rule, context)
  BY UnlimitedKeepsTheScope DEF IdsMatch
<1>2. HasRange(open) <=> HasRange(rule)
  BY UnlimitedKeepsTheScope DEF HasRange
<1>3. serial # Null
  BY NoSerialAssumption
<1>4. RuleScopeMatches(open, context, t) <=>
        /\ IdsMatch(rule, context)
        /\ HasRange(rule) => SerialInRange(serial, rule.serialFrom, rule.serialTo)
  BY <1>1, <1>2, <1>3, UnlimitedKeepsTheScope DEF RuleScopeMatches
<1>5. HasRange(rule) =>
        (SerialInRange(serial, rule.serialFrom, rule.serialTo) <=>
           /\ serial.prefix = RangePrefix(rule)
           /\ rule.serialFrom # Null => rule.serialFrom.sequence <= serial.sequence
           /\ rule.serialTo # Null => serial.sequence <= rule.serialTo.sequence)
  BY RangeByItsPrefix
<1> QED BY <1>4, <1>5 DEF InWhereClause, InWhereRange

\* No unit is both in and outside a WHERE clause; a unit of the database is one
\* of the two unless the rule names what it lacks.
LEMMA WhereClauseDecides ==
  ASSUME NEW rule \in Rule, unitContext \in StoredUnit
  PROVE  /\ ~(InWhereClause(rule, unitContext) /\ OutsideWhereClause(rule, unitContext))
         /\ \/ InWhereClause(rule, unitContext)
            \/ OutsideWhereClause(rule, unitContext)
            \/ NamesWhatItLacks(rule)
<1>1. unitContext.productId # Null /\ unitContext.unitId # Null
  BY NullAssumption DEF StoredUnit, UnitContext
<1>2. IdsMatch(rule, unitContext) => ~ProvenDisjointIds(rule, unitContext)
  BY DEF IdsMatch, Accepts, ProvenDisjointIds, Differ
<1>3. ~IdsMatch(rule, unitContext) /\ ~NamesWhatItLacks(rule)
        => ProvenDisjointIds(rule, unitContext)
  BY <1>1 DEF IdsMatch, Accepts, ProvenDisjointIds, Differ, NamesWhatItLacks
<1> QED BY <1>2, <1>3 DEF InWhereClause, OutsideWhereClause

\* Of every two rules with one prefix per range, and every unit: the preview
\* counts no unit the resolver does not give the publication, and misses one
\* only if an exclusion names a field that is NULL in the unit's row
\* (affected-units.ts against specificity.ts).
THEOREM CountMissesOnlyTheUndecidedEver == PairSpec => []CountMissesOnlyTheUndecided
<1>1. PairInv => CountMissesOnlyTheUndecided
  <2> SUFFICES ASSUME PairInv, Picked, OnePrefix(oneRule), OnePrefix(otherRule)
               PROVE  /\ Counted => Reached
                      /\ Reached /\ ~Counted =>
                           \E rule \in {oneRule, otherRule} :
                             rule.explicitExclusion /\ NamesWhatItLacks(rule)
    BY DEF CountMissesOnlyTheUndecided
  <2> DEFINE In(rule) == InWhereClause(rule, unitContext)
             Outside(rule) == OutsideWhereClause(rule, unitContext)
             Lacks(rule) == NamesWhatItLacks(rule)
  <2>1. \A rule \in {oneRule, otherRule} :
          /\ In(rule) <=> RuleScopeMatches(Unlimited(rule), unitContext, lookedUpAt)
          /\ Unlimited(rule).explicitExclusion = rule.explicitExclusion
    BY WhereClauseIsScope, UnlimitedKeepsTheScope DEF PairInv
  <2>2. \A rule \in {oneRule, otherRule} :
          ~(In(rule) /\ Outside(rule)) /\ (In(rule) \/ Outside(rule) \/ Lacks(rule))
    BY WhereClauseDecides DEF PairInv
  <2>3. Counted <=>
          /\ \E rule \in {oneRule, otherRule} : ~rule.explicitExclusion /\ In(rule)
          /\ \A rule \in {oneRule, otherRule} : rule.explicitExclusion => Outside(rule)
    BY DEF Counted, AffectedUnits
  <2> HIDE DEF In, Outside, Lacks
  <2>4. Reached <=>
          /\ \E rule \in {oneRule, otherRule} : ~rule.explicitExclusion /\ In(rule)
          /\ \A rule \in {oneRule, otherRule} : rule.explicitExclusion => ~In(rule)
    BY <2>1 DEF Reached, Applies, Excluded, MatchedSpecificities, RuleMatchesUnitContext
  <2>5. Counted => Reached
    BY <2>2, <2>3, <2>4
  <2>6. Reached /\ ~Counted =>
          \E rule \in {oneRule, otherRule} : rule.explicitExclusion /\ Lacks(rule)
    BY <2>2, <2>3, <2>4
  <2> QED BY <2>5, <2>6 DEF Lacks
<1> QED BY <1>1, PairInvHolds, PTL
=============================================================================
