---------------------------- MODULE ImportsProofs ----------------------------
(***************************************************************************)
(* What holds of the catalogue and the import, for any number of requests  *)
(* and any client: tables keep their types, and the variant and the batch  *)
(* of a unit belong to its product; and, for any number of import pages,   *)
(* what is imported is whole, seen before and reported as what it is.      *)
(***************************************************************************)
EXTENDS ImportHistory, TLAPS, FiniteSetTheorems, WellFoundedInduction

----------------------------------------------------------------------------
\* What fits the catalogue now.  It goes on fitting, as items are never deleted
\* and units never change their product.

RowFits(r) ==
  /\ r.product \in Product
  /\ r.variant \in Variant \cup {Null} /\ Belongs(r.variant, r.product)
  /\ r.batch \in Batch \cup {Null} /\ Belongs(r.batch, r.product)

PatchFits(s, patch) ==
  /\ unit[s] # Null
  /\ "variant" \in DOMAIN patch => patch["variant"] \in Variant \cup {Null}
  /\ "batch" \in DOMAIN patch => patch["batch"] \in Batch \cup {Null}
  /\ \A f \in DOMAIN patch : Belongs(patch[f], unit[s].product)

WorkFits(q) ==
  q.pc = "write" =>
    /\ q.object \in Item => q.row \in Details
    /\ q.row \in Unit => q.object \in Serial /\ RowFits(q.row)
    /\ q.row \in Patch => q.object \in Serial /\ PatchFits(q.object, q.row)

\* What a preview has found, in the order it is read: products, variants, batches.
ProductsFit(q) ==
  \A i \in Lines(q) :
    /\ Cell(q, i, "productReference") # Null
    /\ q.found["productReference"][i] # Bad
    => q.found["productReference"][i] \in Product

PartsFit(q, field, parts) ==
  \A i \in Lines(q) :
    LET x == q.found[field][i]
    IN  \/ x \in {Null, Bad}
        \/ x \in parts /\ Belongs(x, q.found["productReference"][i])

FoundFits(q) ==
  /\ q.next \in {"variantReference", "batchReference", "serialNumber"} => ProductsFit(q)
  /\ q.next \in {"batchReference", "serialNumber"} => PartsFit(q, "variantReference", Variant)
  /\ q.next = "serialNumber" => PartsFit(q, "batchReference", Batch)

IsPreview(q) ==
  q = [kind |-> "preview", file |-> q.file, next |-> q.next, columns |-> q.columns,
       found |-> [field \in RefField |-> q.found[field]]]

IsCommit(q) ==
  q = [kind |-> "commit", at |-> q.at, import |-> q.import, rows |-> q.rows]

HandlerFits(q) ==
  \/ q = Idle
  \/ IsPreview(q) /\ FoundFits(q)
  \/ IsCommit(q) /\ \A r \in q.rows : RowFits(r)

WorkInv == \A k \in Keeper : WorkFits(work[k])

PendingInv ==
  /\ pending = [i \in ImportId |-> pending[i]]
  /\ \A i \in ImportId : pending[i] # Null => \A r \in pending[i] : RowFits(r)

HandlerInv ==
  /\ handler = [h \in Handler |-> handler[h]]
  /\ \A h \in Handler : HandlerFits(handler[h])

CatalogueInv == CatalogueTypeOK /\ UnitsConsistent /\ WorkInv

ImportInv == CatalogueInv /\ PendingInv /\ HandlerInv

----------------------------------------------------------------------------
\* Everything goes on fitting.

ItemsStay == \A x \in Item : Exists(x) => Exists(x)'

UnitsStay ==
  \A s \in Serial :
    unit[s] # Null => unit'[s] # Null /\ unit'[s].product = unit[s].product

LEMMA BelongsStays ==
  ASSUME ItemsStay, NEW x, NEW p, Belongs(x, p)
  PROVE  Belongs(x, p)'
  BY DEF ItemsStay, Belongs, Item

LEMMA RowStays ==
  ASSUME ItemsStay, NEW r, RowFits(r)
  PROVE  RowFits(r)'
  BY BelongsStays DEF RowFits

LEMMA WorkStays ==
  ASSUME ItemsStay, UnitsStay, NEW q, WorkFits(q)
  PROVE  WorkFits(q)'
<1> SUFFICES ASSUME q.pc = "write"
             PROVE  /\ q.object \in Item => q.row \in Details
                    /\ q.row \in Unit => q.object \in Serial /\ RowFits(q.row)'
                    /\ q.row \in Patch => q.object \in Serial /\ PatchFits(q.object, q.row)'
  BY DEF WorkFits
<1>1. q.row \in Unit => q.object \in Serial /\ RowFits(q.row)'
  BY RowStays DEF WorkFits
<1>2. ASSUME q.row \in Patch PROVE q.object \in Serial /\ PatchFits(q.object, q.row)'
  <2>1. q.object \in Serial /\ PatchFits(q.object, q.row)
    BY <1>2 DEF WorkFits
  <2>2. unit'[q.object] # Null /\ unit'[q.object].product = unit[q.object].product
    BY <2>1 DEF UnitsStay, PatchFits
  <2>3. \A f \in DOMAIN q.row : Belongs(q.row[f], unit[q.object].product)'
    BY <2>1, <2>2, BelongsStays DEF PatchFits, Belongs
  <2> QED BY <2>1, <2>2, <2>3 DEF PatchFits
<1> QED BY <1>1, <1>2 DEF WorkFits

LEMMA FoundStays ==
  ASSUME ItemsStay, NEW q, FoundFits(q)
  PROVE  FoundFits(q)'
<1>1. ASSUME NEW field, NEW parts, PartsFit(q, field, parts)
      PROVE  PartsFit(q, field, parts)'
  BY <1>1, BelongsStays DEF PartsFit, Lines
<1>2. ProductsFit(q) => ProductsFit(q)'
  BY DEF ProductsFit, Lines, Cell
<1> QED BY <1>1, <1>2 DEF FoundFits

LEMMA HandlerStays ==
  ASSUME ItemsStay, NEW q, HandlerFits(q)
  PROVE  HandlerFits(q)'
  BY RowStays, FoundStays DEF HandlerFits, IsPreview, IsCommit

----------------------------------------------------------------------------
\* The catalogue

LEMMA RowsAreApart ==
  /\ \A row \in Details : row \notin Unit /\ row \notin Patch /\ row # Null
  /\ \A row \in Unit : row \notin Patch /\ row # Null
  /\ \A row \in Patch : DOMAIN row \subseteq {"variant", "batch"}
<1>1. \A row \in Patch : DOMAIN row \subseteq {"variant", "batch"}
  BY DEF Patch
<1>2. \A row \in Details : "number" \in DOMAIN row /\ row # Null
  BY CatalogueAssumption DEF Details
<1>3. \A row \in Unit : DOMAIN row = {"product", "variant", "batch"} /\ row # Null
  BY CatalogueAssumption DEF Unit
<1> QED BY <1>1, <1>2, <1>3

LEMMA PatchedFits ==
  ASSUME NEW u \in Unit, NEW patch \in Patch,
         "variant" \in DOMAIN patch => patch["variant"] \in Variant \cup {Null},
         "batch" \in DOMAIN patch => patch["batch"] \in Batch \cup {Null}
  PROVE  /\ Patched(u, patch) \in Unit
         /\ Patched(u, patch).product = u.product
         /\ Patched(u, patch).variant =
              IF "variant" \in DOMAIN patch THEN patch["variant"] ELSE u.variant
         /\ Patched(u, patch).batch =
              IF "batch" \in DOMAIN patch THEN patch["batch"] ELSE u.batch
<1>1. DOMAIN u = {"product", "variant", "batch"}
  BY DEF Unit
<1>2. "product" \notin DOMAIN patch
  BY RowsAreApart
<1>3. Patched(u, patch) =
        [product |-> u.product,
         variant |-> IF "variant" \in DOMAIN patch THEN patch["variant"] ELSE u.variant,
         batch   |-> IF "batch" \in DOMAIN patch THEN patch["batch"] ELSE u.batch]
  BY <1>1, <1>2 DEF Patched
<1> QED BY <1>3 DEF Unit

\* A request that is taken up, given up or recorded.
LEMMA KeeperMoves ==
  ASSUME CatalogueInv, UNCHANGED <<details, unit>>,
         NEW k \in Keeper, NEW q \in WorkRequest \cup {NoWork}, WorkFits(q),
         work' = [work EXCEPT ![k] = q]
  PROVE  CatalogueInv' /\ ItemsStay /\ UnitsStay
<1>1. ItemsStay /\ UnitsStay
  BY DEF ItemsStay, UnitsStay, Exists
<1>2. CatalogueTypeOK'
  BY DEF CatalogueInv, CatalogueTypeOK
<1>3. UnitsConsistent'
  BY DEF CatalogueInv, UnitsConsistent, Belongs, Exists
<1>4. ASSUME NEW j \in Keeper PROVE WorkFits(work[j])'
  <2>1. WorkFits(work'[j])
    BY DEF CatalogueInv, WorkInv, CatalogueTypeOK
  <2> QED BY <1>1, <2>1, WorkStays
<1> QED BY <1>1, <1>2, <1>3, <1>4 DEF CatalogueInv, WorkInv

\* A request that has written, and what it wrote.
LEMMA KeeperWrites ==
  ASSUME CatalogueInv, NEW k \in Keeper, work[k].pc = "write",
         NEW q \in {NoWork, [work[k] EXCEPT !.pc = "audit"]},
         work' = [work EXCEPT ![k] = q],
         ItemsStay, UnitsStay
  PROVE  work' \in [Keeper -> WorkRequest \cup {NoWork}] /\ WorkInv'
<1>1. work[k] \in WorkRequest
  BY DEF CatalogueInv, CatalogueTypeOK, NoWork
<1>2. q \in WorkRequest \cup {NoWork} /\ q.pc # "write"
  BY <1>1 DEF WorkRequest, NoWork
<1>3. work' \in [Keeper -> WorkRequest \cup {NoWork}]
  BY <1>2 DEF CatalogueInv, CatalogueTypeOK
<1>4. ASSUME NEW j \in Keeper PROVE WorkFits(work[j])'
  <2>1. WorkFits(work'[j])
    BY <1>2 DEF CatalogueInv, WorkInv, CatalogueTypeOK, WorkFits
  <2> QED BY <2>1, WorkStays
<1> QED BY <1>3, <1>4 DEF WorkInv

LEMMA RequestsFit ==
  ASSUME CatalogueInv, NEW k \in Keeper,
         \/ \E x \in Item : \E row \in DetailPool[x] : RequestItem(k, x, row)
         \/ \E e \in EntryPool : RequestNewUnit(k, e[1], e[2])
         \/ \E e \in PatchPool : RequestPatch(k, e[1], e[2])
  PROVE  CatalogueInv' /\ ItemsStay /\ UnitsStay
<1>1. ASSUME NEW x \in Item, NEW row \in DetailPool[x], RequestItem(k, x, row)
      PROVE  CatalogueInv' /\ ItemsStay /\ UnitsStay
  <2> DEFINE q == [pc |-> "write", object |-> x, row |-> row]
  <2>1. row \in Details
    BY CatalogueAssumption
  <2>2. q \in WorkRequest
    BY <2>1 DEF WorkRequest
  <2>3. WorkFits(q)
    BY <2>1, RowsAreApart DEF WorkFits
  <2> QED BY <1>1, <2>2, <2>3, KeeperMoves DEF RequestItem
<1>2. ASSUME NEW e \in EntryPool, RequestNewUnit(k, e[1], e[2])
      PROVE  CatalogueInv' /\ ItemsStay /\ UnitsStay
  <2> DEFINE q == [pc |-> "write", object |-> e[1], row |-> e[2]]
  <2>1. e[1] \in Serial /\ e[2] \in Unit
    BY CatalogueAssumption
  <2>2. q \in WorkRequest
    BY <2>1 DEF WorkRequest
  <2>3. RowFits(e[2])
    BY <1>2, <2>1 DEF RequestNewUnit, RowFits, Unit
  <2>4. WorkFits(q)
    BY <2>1, <2>3, RowsAreApart, CatalogueAssumption DEF WorkFits
  <2> QED BY <1>2, <2>2, <2>4, KeeperMoves DEF RequestNewUnit
<1>3. ASSUME NEW e \in PatchPool, RequestPatch(k, e[1], e[2])
      PROVE  CatalogueInv' /\ ItemsStay /\ UnitsStay
  <2> DEFINE q == [pc |-> "write", object |-> e[1], row |-> e[2]]
  <2>1. e[1] \in Serial /\ e[2] \in Patch
    BY CatalogueAssumption
  <2>2. q \in WorkRequest
    BY <2>1 DEF WorkRequest
  <2>3. PatchFits(e[1], e[2])
    BY <1>3 DEF RequestPatch, PatchFits
  <2>4. WorkFits(q)
    BY <2>1, <2>3, RowsAreApart, CatalogueAssumption DEF WorkFits
  <2> QED BY <1>3, <2>2, <2>4, KeeperMoves DEF RequestPatch
<1> QED BY <1>1, <1>2, <1>3

\* New or changed units fit.
LEMMA UnitsGoOnFitting ==
  ASSUME UnitsConsistent, ItemsStay,
         \A s \in Serial : unit'[s] # Null =>
           \/ unit'[s] = unit[s]
           \/ /\ Belongs(unit'[s].variant, unit'[s].product)
              /\ Belongs(unit'[s].batch, unit'[s].product)
  PROVE  UnitsConsistent'
<1> SUFFICES ASSUME NEW s \in Serial, unit'[s] # Null
             PROVE  /\ Belongs(unit[s].variant, unit[s].product)'
                    /\ Belongs(unit[s].batch, unit[s].product)'
  BY DEF UnitsConsistent
<1>1. /\ Belongs(unit'[s].variant, unit'[s].product)
      /\ Belongs(unit'[s].batch, unit'[s].product)
  BY DEF UnitsConsistent
<1> QED BY <1>1, BelongsStays

LEMMA WriteItemKeeps ==
  ASSUME CatalogueInv, NEW k \in Keeper, WriteItem(k)
  PROVE  CatalogueInv' /\ ItemsStay /\ UnitsStay
<1>1. work[k].row \in Details /\ work[k].row # Null
  BY RowsAreApart DEF WriteItem, CatalogueInv, WorkInv, WorkFits
<1>2. details' \in [Item -> Details \cup {Null}]
  BY <1>1 DEF WriteItem, CatalogueInv, CatalogueTypeOK
<1>3. ItemsStay
  BY <1>1 DEF WriteItem, CatalogueInv, CatalogueTypeOK, ItemsStay, Exists
<1>4. UnitsStay
  BY DEF WriteItem, UnitsStay
<1>5. UnitsConsistent'
  BY <1>3, UnitsGoOnFitting DEF WriteItem, CatalogueInv
<1>6. work' \in [Keeper -> WorkRequest \cup {NoWork}] /\ WorkInv'
  BY <1>3, <1>4, KeeperWrites DEF WriteItem
<1> QED BY <1>2, <1>3, <1>4, <1>5, <1>6 DEF WriteItem, CatalogueInv, CatalogueTypeOK

LEMMA WriteNewUnitKeeps ==
  ASSUME CatalogueInv, NEW k \in Keeper, WriteNewUnit(k)
  PROVE  CatalogueInv' /\ ItemsStay /\ UnitsStay
<1>1. work[k].object \in Serial /\ RowFits(work[k].row) /\ work[k].row \in Unit
  BY DEF WriteNewUnit, CatalogueInv, WorkInv, WorkFits
<1>2. unit' \in [Serial -> Unit \cup {Null}]
  BY <1>1 DEF WriteNewUnit, CatalogueInv, CatalogueTypeOK
<1>3. ItemsStay
  BY DEF WriteNewUnit, ItemsStay, Exists
<1>4. UnitsStay
  BY <1>1 DEF WriteNewUnit, CatalogueInv, CatalogueTypeOK, UnitsStay
<1>5. UnitsConsistent'
  BY <1>1, <1>3, UnitsGoOnFitting
     DEF WriteNewUnit, CatalogueInv, CatalogueTypeOK, RowFits
<1>6. work' \in [Keeper -> WorkRequest \cup {NoWork}] /\ WorkInv'
  BY <1>3, <1>4, KeeperWrites DEF WriteNewUnit
<1> QED BY <1>2, <1>3, <1>4, <1>5, <1>6 DEF WriteNewUnit, CatalogueInv, CatalogueTypeOK

LEMMA WritePatchKeeps ==
  ASSUME CatalogueInv, NEW k \in Keeper, WritePatch(k)
  PROVE  CatalogueInv' /\ ItemsStay /\ UnitsStay
<1> DEFINE s == work[k].object
           patch == work[k].row
<1>1. s \in Serial /\ PatchFits(s, patch) /\ patch \in Patch /\ unit[s] \in Unit
  BY DEF WritePatch, CatalogueInv, CatalogueTypeOK, WorkInv, WorkFits, PatchFits
<1> DEFINE new == Patched(unit[s], patch)
<1>2. unit' = [unit EXCEPT ![s] = new]
  BY DEF WritePatch
<1>3. /\ new \in Unit /\ new.product = unit[s].product
      /\ new.variant = IF "variant" \in DOMAIN patch THEN patch["variant"] ELSE unit[s].variant
      /\ new.batch = IF "batch" \in DOMAIN patch THEN patch["batch"] ELSE unit[s].batch
  BY <1>1, PatchedFits DEF PatchFits
<1>4. Belongs(new.variant, new.product) /\ Belongs(new.batch, new.product)
  BY <1>1, <1>3 DEF PatchFits, CatalogueInv, UnitsConsistent
<1>5. unit' \in [Serial -> Unit \cup {Null}]
  BY <1>1, <1>2, <1>3 DEF CatalogueInv, CatalogueTypeOK
<1>6. ItemsStay
  BY DEF WritePatch, ItemsStay, Exists
<1>7. UnitsStay
  BY <1>1, <1>2, <1>3, RowsAreApart DEF CatalogueInv, CatalogueTypeOK, UnitsStay
<1>8. UnitsConsistent'
  <2>1. \A t \in Serial : t # s => unit'[t] = unit[t]
    BY <1>2 DEF CatalogueInv, CatalogueTypeOK
  <2>2. unit'[s] = new
    BY <1>1, <1>2 DEF CatalogueInv, CatalogueTypeOK
  <2> QED BY <1>4, <1>6, <2>1, <2>2, UnitsGoOnFitting DEF CatalogueInv
<1>9. work' \in [Keeper -> WorkRequest \cup {NoWork}] /\ WorkInv'
  BY <1>6, <1>7, KeeperWrites DEF WritePatch
<1> QED BY <1>5, <1>6, <1>7, <1>8, <1>9 DEF WritePatch, CatalogueInv, CatalogueTypeOK

LEMMA CatalogueKeeps ==
  ASSUME CatalogueInv, NEW k \in Keeper, CatalogueStep(k)
  PROVE  CatalogueInv' /\ ItemsStay /\ UnitsStay
<1>1. NoWork \in WorkRequest \cup {NoWork} /\ WorkFits(NoWork)
  BY DEF NoWork, WorkFits
<1>2. CASE RecordWork(k) \/ WorkFails(k)
  BY <1>1, <1>2, KeeperMoves DEF RecordWork, WorkFails
<1> QED BY <1>2, RequestsFit, WriteItemKeeps, WriteNewUnitKeeps, WritePatchKeeps DEF CatalogueStep

----------------------------------------------------------------------------
\* Resolving

LEMMA CandidatesAre ==
  /\ Candidates("productReference") = {x \in Product : Exists(x)}
  /\ Candidates("variantReference") = {x \in Variant : Exists(x)}
  /\ Candidates("batchReference") = {x \in Batch : Exists(x)}
  BY DEF Candidates

\* What a reference resolves to is there, and belongs to the product.
LEMMA ResolveFinds ==
  ASSUME NEW field \in RefField, NEW p, NEW ref, Resolve(field, p, ref) # Bad
  PROVE  /\ Resolve(field, p, ref) \in Candidates(field)
         /\ Resolve(field, p, ref) \in Part => ProductOf[Resolve(field, p, ref)] = p
<1>1. CASE ref \in Candidates(field)
  BY <1>1 DEF Resolve
<1>2. CASE ref \notin Candidates(field)
  <2>1. \E hit \in Hits(field, p, ref) : Hits(field, p, ref) = {hit}
    BY <1>2 DEF Resolve
  <2>2. PICK found \in Hits(field, p, ref) : found = CHOOSE hit \in Hits(field, p, ref) : TRUE
    BY <2>1
  <2>3. found[1] \in Candidates(field) /\ (found[1] \in Part => ProductOf[found[1]] = p)
    <3>1. /\ found \in Candidates(field) \X {"number", "name"}
          /\ found[1] \in Part => ProductOf[found[1]] = p
      BY <2>2 DEF Hits
    <3> QED BY <3>1
  <2>4. Resolve(field, p, ref) = found[1]
    BY <1>2, <2>1, <2>2 DEF Resolve
  <2> QED BY <2>3, <2>4
<1> QED BY <1>1, <1>2

LEMMA NothingIsNoItem == Null \notin Item /\ Bad \notin Item /\ Bad # Null
  BY CatalogueAssumption, ImportAssumption

\* Mutual independence of reading and request: the answers of one read.
LEMMA ReadingFits ==
  ASSUME NEW q, NEW field \in RefField, NEW i \in Lines(q)
  PROVE  /\ field = "productReference" /\ Cell(q, i, field) # Null
              /\ Resolved(q, field)[i] # Bad
            => Resolved(q, field)[i] \in Product
         /\ field # "productReference"
            => \/ Resolved(q, field)[i] \in {Null, Bad}
               \/ /\ Resolved(q, field)[i] \in Candidates(field)
                  /\ Belongs(Resolved(q, field)[i], q.found["productReference"][i])
<1> DEFINE product == q.found["productReference"][i]
           ref == Cell(q, i, field)
           x == Resolved(q, field)[i]
<1>1. CASE field = "productReference"
  <2>1. SUFFICES ASSUME ref # Null, x # Bad PROVE x \in Product
    BY <1>1
  <2>2. x = Resolve(field, Null, ref)
    BY <1>1, <2>1 DEF Resolved
  <2> QED BY <1>1, <2>1, <2>2, ResolveFinds, CandidatesAre
<1>2. CASE field # "productReference"
  <2>1. SUFFICES ASSUME x \notin {Null, Bad}
                 PROVE  x \in Candidates(field) /\ Belongs(x, product)
    BY <1>2
  <2>2. x = Resolve(field, product, ref)
    BY <1>2, <2>1 DEF Resolved
  <2>3. x \in Candidates(field) /\ (x \in Part => ProductOf[x] = product)
    BY <2>1, <2>2, ResolveFinds
  <2>4. x \in Part /\ Exists(x)
    BY <1>2, <2>3, CandidatesAre DEF RefField, Part
  <2> QED BY <2>3, <2>4 DEF Belongs
<1> QED BY <1>1, <1>2

\* The rows a preview stages fit.
LEMMA ValidRowsFit ==
  ASSUME NEW q, q.next = "serialNumber", FoundFits(q), NEW r \in ValidRows(q)
  PROVE  RowFits(r)
<1>1. PICK i \in ValidLines(q) :
        /\ r.product = q.found["productReference"][i]
        /\ r.variant = q.found["variantReference"][i]
        /\ r.batch = q.found["batchReference"][i]
  BY DEF ValidRows
<1>2. i \in Lines(q) /\ Cell(q, i, "productReference") # Null
  BY DEF ValidLines, WellShaped
<1>3. r.product # Bad /\ r.variant # Bad /\ r.batch # Bad
  BY <1>1 DEF ValidLines, RefField
<1>4. r.product \in Product
  BY <1>1, <1>2, <1>3 DEF FoundFits, ProductsFit
<1>5. r.variant \in Variant \cup {Null} /\ Belongs(r.variant, r.product)
  BY <1>1, <1>2, <1>3 DEF FoundFits, PartsFit, Belongs
<1>6. r.batch \in Batch \cup {Null} /\ Belongs(r.batch, r.product)
  BY <1>1, <1>2, <1>3 DEF FoundFits, PartsFit, Belongs
<1> QED BY <1>4, <1>5, <1>6 DEF RowFits

----------------------------------------------------------------------------
\* Handlers

Calm == UNCHANGED <<details, unit, work>>

LEMMA CalmKeeps ==
  ASSUME CatalogueInv, Calm
  PROVE  CatalogueInv' /\ ItemsStay /\ UnitsStay
<1>1. ItemsStay /\ UnitsStay
  BY DEF Calm, ItemsStay, UnitsStay, Exists
<1>2. CatalogueTypeOK' /\ UnitsConsistent'
  BY DEF Calm, CatalogueInv, CatalogueTypeOK, UnitsConsistent, Belongs, Exists
<1>3. ASSUME NEW k \in Keeper PROVE WorkFits(work[k])'
  <2>1. WorkFits(work'[k])
    BY DEF Calm, CatalogueInv, WorkInv
  <2> QED BY <1>1, <2>1, WorkStays
<1> QED BY <1>1, <1>2, <1>3 DEF CatalogueInv, WorkInv

\* One handler goes on with q, which fits; the others stay as they are.
LEMMA HandlerMoves ==
  ASSUME HandlerInv, ItemsStay, NEW h \in Handler, NEW q, HandlerFits(q),
         handler' = [handler EXCEPT ![h] = q]
  PROVE  HandlerInv'
<1>1. handler' = [g \in Handler |-> IF g = h THEN q ELSE handler[g]]
  BY DEF HandlerInv
<1>2. handler' = [g \in Handler |-> handler'[g]]
  BY <1>1
<1>3. ASSUME NEW g \in Handler PROVE HandlerFits(handler[g])'
  <2>1. HandlerFits(handler'[g])
    BY <1>1 DEF HandlerInv
  <2> QED BY <2>1, HandlerStays
<1> QED BY <1>2, <1>3 DEF HandlerInv

LEMMA HandlersStay ==
  ASSUME HandlerInv, ItemsStay, UNCHANGED handler
  PROVE  HandlerInv'
<1>1. ASSUME NEW g \in Handler PROVE HandlerFits(handler[g])'
  <2>1. HandlerFits(handler'[g])
    BY DEF HandlerInv
  <2> QED BY <2>1, HandlerStays
<1> QED BY <1>1 DEF HandlerInv

\* The store keeps what it has, but for some entries.
LEMMA PendingStays ==
  ASSUME PendingInv, ItemsStay,
         pending' = [i \in ImportId |-> pending'[i]],
         \A i \in ImportId : pending'[i] \in {Null, pending[i]}
  PROVE  PendingInv'
<1>1. ASSUME NEW i \in ImportId, pending'[i] # Null, NEW r \in pending'[i]
      PROVE  RowFits(r)'
  BY <1>1, RowStays DEF PendingInv
<1> QED BY <1>1 DEF PendingInv

LEMMA IdleFits == HandlerFits(Idle)
  BY DEF HandlerFits

LEMMA AcceptPreviewKeeps ==
  ASSUME ImportInv, NEW h \in Handler, NEW file, NEW override,
         AcceptPreview(h, file, override)
  PROVE  ImportInv'
<1>1. CatalogueInv' /\ ItemsStay
  BY CalmKeeps DEF ImportInv, AcceptPreview, catalogueVars, Calm
<1>2. PendingInv'
  BY <1>1, PendingStays DEF ImportInv, PendingInv, AcceptPreview
<1> DEFINE columns == Columns(Content[file].header, override)
           q == [kind |-> "preview", file |-> file,
                 next |-> IF RequiredMapped(columns) THEN "productReference" ELSE "refuse",
                 columns |-> columns, found |-> [field \in RefField |-> <<>>]]
<1>3. IsPreview(q)
  BY DEF IsPreview
<1>4. FoundFits(q)
  BY DEF FoundFits
<1>5. HandlerInv'
  BY <1>1, <1>3, <1>4, HandlerMoves DEF ImportInv, AcceptPreview, HandlerFits
<1> QED BY <1>1, <1>2, <1>5 DEF ImportInv

\* A handler that gives up or is done.
LEMMA EndKeeps ==
  ASSUME ImportInv, NEW h \in Handler, Calm,
         handler' = [handler EXCEPT ![h] = Idle],
         pending' = [i \in ImportId |-> pending'[i]],
         \A i \in ImportId : pending'[i] \in {Null, pending[i]}
  PROVE  ImportInv'
  BY CalmKeeps, PendingStays, HandlerMoves, IdleFits DEF ImportInv

\* The request of a preview with its next stage and what it found replaced.
LEMMA PreviewMovesOn ==
  ASSUME NEW p, NEW found2, NEW next2,
         p = [kind |-> "preview", file |-> p.file, next |-> p.next,
              columns |-> p.columns, found |-> p.found]
  PROVE  [p EXCEPT !.found = found2, !.next = next2] =
           [kind |-> "preview", file |-> p.file, next |-> next2,
            columns |-> p.columns, found |-> found2]
<1> DEFINE s == [p EXCEPT !.found = found2]
<1>1. s = [kind |-> "preview", file |-> p.file, next |-> p.next,
           columns |-> p.columns, found |-> found2]
  BY Z3
<1>2. [p EXCEPT !.found = found2, !.next = next2] = [s EXCEPT !.next = next2]
  OBVIOUS
<1> HIDE DEF s
<1>3. [s EXCEPT !.next = next2] =
        [kind |-> "preview", file |-> p.file, next |-> next2,
         columns |-> p.columns, found |-> found2]
  BY <1>1, Z3
<1> QED BY <1>2, <1>3

LEMMA ReadReferencesKeeps ==
  ASSUME ImportInv, NEW h \in Handler, ReadReferences(h)
  PROVE  ImportInv'
<1>1. CatalogueInv' /\ ItemsStay
  BY CalmKeeps DEF ImportInv, ReadReferences, catalogueVars, Calm
<1>2. PendingInv'
  BY <1>1, PendingStays DEF ImportInv, PendingInv, ReadReferences
<1> DEFINE p == handler[h]
           now == p.next
           q == [kind |-> "preview", file |-> p.file, next |-> After(now),
                 columns |-> p.columns,
                 found |-> [field \in RefField |->
                   IF field = now THEN Resolved(p, now) ELSE p.found[field]]]
<1>3. IsPreview(p) /\ FoundFits(p) /\ now \in RefField
  BY DEF ReadReferences, ImportInv, HandlerInv, HandlerFits, IsCommit, Idle
<1>4. handler' = [handler EXCEPT ![h] = q]
  <2> DEFINE read == [p EXCEPT !.found[now] = Resolved(p, now), !.next = After(now)]
  <2>1. p.found = [field \in RefField |-> p.found[field]]
    BY <1>3 DEF IsPreview
  <2>2. read = q
    <3> HIDE DEF now
    <3>1. [p.found EXCEPT ![now] = Resolved(p, now)] =
            [field \in RefField |-> IF field = now THEN Resolved(p, now) ELSE p.found[field]]
      BY <1>3, <2>1
    <3>2. read = [p EXCEPT !.found = [p.found EXCEPT ![now] = Resolved(p, now)],
                           !.next = After(now)]
      OBVIOUS
    <3> HIDE DEF p
    <3>3. p = [kind |-> "preview", file |-> p.file, next |-> p.next,
               columns |-> p.columns, found |-> p.found]
      BY <1>3, <2>1 DEF IsPreview
    <3>4. [p EXCEPT !.found = [p.found EXCEPT ![now] = Resolved(p, now)],
                    !.next = After(now)] =
            [kind |-> "preview", file |-> p.file, next |-> After(now), columns |-> p.columns,
             found |-> [p.found EXCEPT ![now] = Resolved(p, now)]]
      <4> DEFINE found2 == [p.found EXCEPT ![now] = Resolved(p, now)]
                 next2 == After(now)
      <4> HIDE DEF found2, next2
      <4>1. [p EXCEPT !.found = found2, !.next = next2] =
              [kind |-> "preview", file |-> p.file, next |-> next2, columns |-> p.columns,
               found |-> found2]
        BY <3>3, PreviewMovesOn, Zenon
      <4> QED BY <4>1 DEF found2, next2
    <3> QED BY <3>1, <3>2, <3>4
  <2>3. handler' = [handler EXCEPT ![h] = read]
    BY DEF ReadReferences, ImportInv, HandlerInv
  <2> QED BY <2>2, <2>3
<1>5. Lines(q) = Lines(p) /\ \A i, field : Cell(q, i, field) = Cell(p, i, field)
  BY DEF Lines, Cell
<1>9. ASSUME now # "productReference"
      PROVE  /\ now = "variantReference" => PartsFit(q, now, Variant)
             /\ now = "batchReference" => PartsFit(q, now, Batch)
  <2>1. /\ q.found[now] = Resolved(p, now)
        /\ q.found["productReference"] = p.found["productReference"]
    BY <1>3, <1>9 DEF RefField
  <2>2. ASSUME NEW i \in Lines(p), Resolved(p, now)[i] \notin {Null, Bad}
        PROVE  /\ Resolved(p, now)[i] \in Candidates(now)
               /\ Belongs(Resolved(p, now)[i], p.found["productReference"][i])
    BY <1>3, <1>9, <2>2, ReadingFits
  <2> HIDE DEF q
  <2>3. \A i \in Lines(q) :
          \/ q.found[now][i] \in {Null, Bad}
          \/ /\ q.found[now][i] \in Candidates(now)
             /\ Belongs(q.found[now][i], q.found["productReference"][i])
    BY <1>5, <2>1, <2>2
  <2>4. ASSUME now = "variantReference"
        PROVE  PartsFit(q, now, Variant)
    <3>1. Candidates(now) \subseteq Variant
      BY <2>4, CandidatesAre
    <3> HIDE DEF now
    <3> QED BY <2>3, <3>1 DEF PartsFit
  <2>5. ASSUME now = "batchReference"
        PROVE  PartsFit(q, now, Batch)
    <3>1. Candidates(now) \subseteq Batch
      BY <2>5, CandidatesAre
    <3> HIDE DEF now
    <3> QED BY <2>3, <3>1 DEF PartsFit
  <2> QED BY <2>4, <2>5
<1>6. FoundFits(q)
  <2>1. CASE now = "productReference"
    <3>1. After(now) = "variantReference"
      BY <2>1 DEF After
    <3>2. ProductsFit(q)
      BY <1>3, <1>5, <2>1, ReadingFits DEF ProductsFit
    <3> QED BY <3>1, <3>2 DEF FoundFits
  <2>2. CASE now = "variantReference"
    <3>1. After(now) = "batchReference"
      BY <2>2 DEF After
    <3>2. ProductsFit(q)
      BY <1>3, <1>5, <2>2 DEF ProductsFit, FoundFits, RefField
    <3>3. PartsFit(q, "variantReference", Variant)
      BY <2>2, <1>9 DEF RefField
    <3> QED BY <3>1, <3>2, <3>3 DEF FoundFits
  <2>3. CASE now = "batchReference"
    <3>1. After(now) = "serialNumber"
      BY <2>3 DEF After
    <3>2. ProductsFit(q) /\ PartsFit(q, "variantReference", Variant)
      BY <1>3, <1>5, <2>3 DEF ProductsFit, PartsFit, FoundFits, RefField
    <3>3. PartsFit(q, "batchReference", Batch)
      BY <2>3, <1>9 DEF RefField
    <3> QED BY <3>1, <3>2, <3>3 DEF FoundFits
  <2> QED BY <1>3, <2>1, <2>2, <2>3 DEF RefField
<1>7. IsPreview(q)
  BY DEF IsPreview
<1>8. HandlerInv'
  BY <1>1, <1>4, <1>6, <1>7, HandlerMoves DEF ImportInv, HandlerFits
<1> QED BY <1>1, <1>2, <1>8 DEF ImportInv

LEMMA StagePreviewKeeps ==
  ASSUME ImportInv, NEW h \in Handler, NEW i \in ImportId, StagePreview(h, i)
  PROVE  ImportInv'
<1>1. CatalogueInv' /\ ItemsStay
  BY CalmKeeps DEF ImportInv, StagePreview, catalogueVars, Calm
<1>2. FoundFits(handler[h]) /\ handler[h].next = "serialNumber"
  BY DEF StagePreview, ImportInv, HandlerInv, HandlerFits, IsCommit, Idle
<1>3. \A r \in ValidRows(handler[h]) : RowFits(r)'
  BY <1>1, <1>2, ValidRowsFit, RowStays
<1>4. pending' = [j \in ImportId |-> IF j = i THEN ValidRows(handler[h]) ELSE Evicted[j]]
  BY DEF StagePreview, Evicted
<1>5. ASSUME NEW j \in ImportId, pending'[j] # Null, NEW r \in pending'[j]
      PROVE  RowFits(r)'
  BY <1>1, <1>3, <1>4, <1>5, RowStays DEF ImportInv, PendingInv, Evicted
<1>6. PendingInv'
  BY <1>4, <1>5 DEF PendingInv
<1>7. HandlerInv'
  BY <1>1, HandlerMoves, IdleFits DEF ImportInv, StagePreview
<1> QED BY <1>1, <1>6, <1>7 DEF ImportInv

LEMMA TakeImportKeeps ==
  ASSUME ImportInv, NEW h \in Handler, NEW i \in ImportId, TakeImport(h, i)
  PROVE  ImportInv'
<1>1. CatalogueInv' /\ ItemsStay
  BY CalmKeeps DEF ImportInv, TakeImport, catalogueVars, Calm
<1>2. PendingInv'
  BY <1>1, PendingStays DEF ImportInv, TakeImport, Evicted
<1>3. CASE Evicted[i] \in {Null, {}}
  BY <1>1, <1>2, <1>3, HandlerMoves, IdleFits DEF ImportInv, TakeImport
<1>4. CASE Evicted[i] \notin {Null, {}}
  <2> DEFINE q == [kind |-> "commit", at |-> "insert", import |-> i, rows |-> pending[i]]
  <2>1. \A r \in pending[i] : RowFits(r)
    BY <1>4 DEF ImportInv, PendingInv, Evicted
  <2>2. HandlerFits(q)
    BY <2>1 DEF HandlerFits, IsCommit
  <2>3. handler' = [handler EXCEPT ![h] = q]
    BY <1>4 DEF TakeImport
  <2> QED BY <1>1, <1>2, <2>2, <2>3, HandlerMoves DEF ImportInv
<1> QED BY <1>3, <1>4

LEMMA InsertUnitsKeeps ==
  ASSUME ImportInv, NEW h \in Handler, InsertUnits(h)
  PROVE  ImportInv'
<1> DEFINE p == handler[h]
           q == [kind |-> "commit", at |-> "forget", import |-> p.import, rows |-> p.rows]
<1>1. IsCommit(p) /\ \A r \in p.rows : RowFits(r)
  BY DEF InsertUnits, ImportInv, HandlerInv, HandlerFits, IsPreview, Idle
<1>2. ASSUME NEW s \in Serial
      PROVE  \/ unit'[s] = unit[s]
             \/ /\ unit[s] = Null /\ unit'[s] \in Unit
                /\ Belongs(unit'[s].variant, unit'[s].product)
                /\ Belongs(unit'[s].batch, unit'[s].product)
  <2>1. CASE unit[s] = Null /\ \E r \in p.rows : r.serial = s
    <3>1. PICK r \in p.rows : r = CHOOSE x \in p.rows : x.serial = s
      BY <2>1
    <3>2. unit'[s] = [product |-> r.product, variant |-> r.variant, batch |-> r.batch]
      BY <2>1, <3>1 DEF InsertUnits, Inserted
    <3> QED BY <1>1, <2>1, <3>2 DEF RowFits, Unit
  <2>2. CASE ~(unit[s] = Null /\ \E r \in p.rows : r.serial = s)
    BY <2>2 DEF InsertUnits, Inserted
  <2> QED BY <2>1, <2>2
<1>3. unit' \in [Serial -> Unit \cup {Null}]
  <2>1. unit' = Inserted(p.rows)
    BY DEF InsertUnits
  <2>2. unit' = [s \in Serial |-> unit'[s]]
    BY <2>1 DEF Inserted
  <2>3. \A s \in Serial : unit'[s] \in Unit \cup {Null}
    BY <1>2 DEF ImportInv, CatalogueInv, CatalogueTypeOK
  <2> QED BY <2>2, <2>3
<1>4. ItemsStay /\ UnitsStay
  BY <1>2 DEF InsertUnits, ItemsStay, UnitsStay, Exists
<1>5. UnitsConsistent'
  BY <1>2, <1>4, UnitsGoOnFitting DEF ImportInv, CatalogueInv
<1>6. ASSUME NEW k \in Keeper PROVE WorkFits(work[k])'
  <2>1. WorkFits(work'[k])
    BY DEF InsertUnits, ImportInv, CatalogueInv, WorkInv
  <2> QED BY <1>4, <2>1, WorkStays
<1>7. CatalogueInv'
  BY <1>3, <1>5, <1>6 DEF InsertUnits, ImportInv, CatalogueInv, CatalogueTypeOK, WorkInv
<1>8. PendingInv'
  BY <1>4, PendingStays DEF ImportInv, PendingInv, InsertUnits
<1>9. HandlerInv'
  <2>1. handler' = [handler EXCEPT ![h] = [p EXCEPT !.at = "forget"]]
    BY DEF InsertUnits
  <2>3. [p EXCEPT !.at = "forget"] = q
    BY <1>1 DEF IsCommit
  <2>2. HandlerFits(q)
    BY <1>1 DEF HandlerFits, IsCommit
  <2> QED BY <1>4, <2>1, <2>2, <2>3, HandlerMoves DEF ImportInv
<1> QED BY <1>7, <1>8, <1>9 DEF ImportInv

LEMMA RestartKeeps ==
  ASSUME ImportInv, Restart
  PROVE  ImportInv'
<1>1. ItemsStay /\ UnitsStay
  BY DEF Restart, ItemsStay, UnitsStay, Exists
<1>2. CatalogueInv'
  BY DEF Restart, ImportInv, CatalogueInv, CatalogueTypeOK, UnitsConsistent, Belongs, Exists,
         WorkInv, WorkFits, NoWork
<1>3. PendingInv'
  BY DEF Restart, PendingInv
<1>4. HandlerInv'
  BY DEF Restart, HandlerInv, HandlerFits
<1> QED BY <1>2, <1>3, <1>4 DEF ImportInv

----------------------------------------------------------------------------
\* The invariant holds

LEMMA InitImportInv == ImportInit => ImportInv
<1> SUFFICES ASSUME ImportInit PROVE ImportInv
  OBVIOUS
<1>1. CatalogueInv
  BY CatalogueAssumption
     DEF ImportInit, CatalogueInit, CatalogueInv, CatalogueTypeOK, UnitsConsistent, WorkInv,
         WorkFits, NoWork
<1>2. PendingInv
  BY DEF ImportInit, PendingInv
<1>3. HandlerInv
  BY DEF ImportInit, HandlerInv, HandlerFits
<1> QED BY <1>1, <1>2, <1>3 DEF ImportInv

LEMMA ImportStepKeeps ==
  ASSUME ImportInv, NEW h \in Handler, ImportStep(h)
  PROVE  ImportInv'
<1>1. CASE RefuseHeader(h)
  BY <1>1, EndKeeps DEF RefuseHeader, catalogueVars, Calm, ImportInv, PendingInv
<1>2. CASE ForgetImport(h)
  <2>1. pending' = [i \in ImportId |-> IF i = handler[h].import THEN Null ELSE pending[i]]
    BY <1>2 DEF ForgetImport, ImportInv, PendingInv
  <2> QED BY <1>2, <2>1, EndKeeps DEF ForgetImport, catalogueVars, Calm
<1>3. CASE RefuseCollision(h)
  BY <1>3, EndKeeps DEF RefuseCollision, catalogueVars, Calm, ImportInv, PendingInv
<1>4. CASE HandlerFails(h)
  BY <1>4, EndKeeps DEF HandlerFails, catalogueVars, Calm, ImportInv, PendingInv
<1> QED BY <1>1, <1>2, <1>3, <1>4, AcceptPreviewKeeps, ReadReferencesKeeps, StagePreviewKeeps,
           TakeImportKeeps, InsertUnitsKeeps DEF ImportStep

LEMMA ImportInvStep ==
  ASSUME ImportInv, [ImportNext]_vars
  PROVE  ImportInv'
<1>1. ASSUME NEW k \in Keeper, CatalogueStep(k), UNCHANGED importVars PROVE ImportInv'
  <2>1. CatalogueInv' /\ ItemsStay
    BY <1>1, CatalogueKeeps DEF ImportInv
  <2>2. PendingInv'
    BY <1>1, <2>1, PendingStays DEF ImportInv, PendingInv, importVars
  <2>3. HandlerInv'
    BY <1>1, <2>1, HandlersStay DEF ImportInv, importVars
  <2> QED BY <2>1, <2>2, <2>3 DEF ImportInv
<1>2. ASSUME Calm, UNCHANGED <<pending, handler>> PROVE ImportInv'
  BY <1>2, CalmKeeps, PendingStays, HandlersStay DEF ImportInv, PendingInv
<1>3. CASE \E i \in ImportId : GrowStale(i)
  BY <1>2, <1>3 DEF GrowStale, catalogueVars, Calm
<1>4. CASE UNCHANGED vars
  BY <1>2, <1>4 DEF vars, catalogueVars, importVars, Calm
<1> QED BY <1>1, <1>3, <1>4, ImportStepKeeps, RestartKeeps DEF ImportNext

\* The variant and the batch of a unit belong to its product, for any number of
\* requests, whether they enter, change or import units (products.service.ts:286-300,
\* 342-353; imports.service.ts:228-268).
THEOREM UnitsConsistentEver == ImportSpec => []UnitsConsistent
<1>1. ImportInv /\ [ImportNext]_vars => ImportInv'
  BY ImportInvStep
<1>2. ImportInv => UnitsConsistent
  BY DEF ImportInv, CatalogueInv
<1> QED BY <1>1, <1>2, InitImportInv, PTL DEF ImportSpec

\* The tables of the catalogue and the requests that change it keep their types
\* (products.service.ts, imports.service.ts).
THEOREM CatalogueTypeCorrect == ImportSpec => []CatalogueTypeOK
<1>1. ImportInv /\ [ImportNext]_vars => ImportInv'
  BY ImportInvStep
<1>2. ImportInv => CatalogueTypeOK
  BY DEF ImportInv, CatalogueInv
<1> QED BY <1>1, <1>2, InitImportInv, PTL DEF ImportSpec

----------------------------------------------------------------------------
\* What a file is read as

LEMMA LeastIndex ==
  ASSUME NEW S \in SUBSET Nat, S # {}
  PROVE  \E c \in S : \A d \in S : c <= d
<1>1. PICK c \in S : \A d \in S : ~ (<<d, c>> \in OpToRel(<, Nat))
  BY WFMin, NatLessThanWellFounded, Zenon
<1>2. \A d \in S : ~ (d < c)
  <2>1. ASSUME NEW d \in S, d < c PROVE FALSE
    <3>1. <<d, c>> \in Nat \X Nat
      OBVIOUS
    <3>2. <<d, c>> \in OpToRel(<, Nat)
      BY <2>1, <3>1 DEF OpToRel
    <3> QED BY <1>1, <3>2
  <2> QED BY <2>1
<1> QED BY <1>2

LEMMA DetectedColumn ==
  ASSUME NEW header \in Header, NEW field
  PROVE  \/ Detected(header, field) = Null
         \/ /\ Detected(header, field) \in DOMAIN header
            /\ header[Detected(header, field)] = field
<1> DEFINE S == {c \in DOMAIN header : header[c] = field}
<1>1. DOMAIN header \subseteq Nat
  BY DEF Header
<1>2. CASE S = {}
  BY <1>2 DEF Detected
<1>3. CASE S # {}
  <2>1. \E c \in S : \A d \in S : c <= d
    BY <1>1, <1>3, LeastIndex
  <2>2. \E c \in DOMAIN header :
          header[c] = field /\ \A d \in DOMAIN header : header[d] = field => c <= d
    BY <2>1
  <2>3. /\ Detected(header, field) \in DOMAIN header
        /\ header[Detected(header, field)] = field
    BY <2>2 DEF Detected
  <2> QED BY <2>3
<1> QED BY <1>2, <1>3

\* A column that may be taken for the serial numbers, if the field has one.
SerialFits(c) == c \in {Null, Unsaid} \/ SerialColumn(c)

ColumnsFit(columns) ==
  /\ columns \in [Field -> Nat \cup {Null}]
  /\ SerialFits(columns["serialNumber"])

LEMMA ColumnsFitAlways ==
  ASSUME NEW file \in File, NEW override \in Override, SerialFits(override["serialNumber"])
  PROVE  ColumnsFit(Columns(Content[file].header, override))
<1> DEFINE header == Content[file].header
<1>1. header \in Header /\ DOMAIN header \subseteq Nat
  BY ImportAssumption DEF Header
<1>2. ASSUME NEW field \in Field
      PROVE  /\ Columns(header, override)[field] \in Nat \cup {Null}
             /\ field = "serialNumber" => SerialFits(Columns(header, override)[field])
  <2>1. CASE override[field] = Null \/ override[field] \in DOMAIN header
    BY <1>1, <2>1 DEF Columns
  <2>2. CASE ~ (override[field] = Null \/ override[field] \in DOMAIN header)
    <3>1. Columns(header, override)[field] = Detected(header, field)
      BY <2>2 DEF Columns
    <3> HIDE DEF header
    <3>2. CASE Detected(header, field) = Null
      BY <3>1, <3>2 DEF SerialFits
    <3>3. CASE /\ Detected(header, field) \in DOMAIN header
               /\ header[Detected(header, field)] = field
      <4>1. field = "serialNumber" => SerialColumn(Detected(header, field))
        BY <3>3 DEF SerialColumn, header
      <4> QED BY <1>1, <3>1, <3>3, <4>1 DEF SerialFits
    <3> QED BY <1>1, <3>2, <3>3, DetectedColumn
  <2> QED BY <2>1, <2>2
<1>3. Columns(header, override) = [field \in Field |-> Columns(header, override)[field]]
  BY DEF Columns
<1>4. "serialNumber" \in Field
  BY DEF Field
<1> HIDE DEF header
<1>5. Columns(header, override) \in [Field -> Nat \cup {Null}]
  BY <1>2, <1>3
<1> QED BY <1>2, <1>4, <1>5 DEF ColumnsFit, header

LEMMA SerialCells ==
  ASSUME NEW q, q.file \in File, SerialFits(q.columns["serialNumber"]),
         NEW i \in DOMAIN Content[q.file].rows
  PROVE  Cell(q, i, "serialNumber") \in Serial \cup {Null}
<1> DEFINE c == q.columns["serialNumber"]
           row == Content[q.file].rows[i]
<1>1. CASE c \notin DOMAIN row
  BY <1>1 DEF Cell
<1>2. CASE c \in DOMAIN row
  <2>1. row \in Seq(Item \cup Serial \cup Label \cup {Bad, Null})
    BY ImportAssumption
  <2>2. c \in Nat
    BY <1>2, <2>1
  <2>3. c \notin {Null, Unsaid}
    BY <2>2, ImportAssumption, WizardAssumption
  <2>4. row[c] \in Serial \cup {Null}
    BY <1>2, <2>3, WizardAssumption DEF SerialFits
  <2> QED BY <1>2, <2>4 DEF Cell
<1> QED BY <1>1, <1>2

LEMMA StagedRows ==
  ASSUME NEW q, q.next = "serialNumber", FoundFits(q), q.file \in File,
         SerialFits(q.columns["serialNumber"])
  PROVE  ValidRows(q) \subseteq Row /\ IsFiniteSet(ValidRows(q))
<1>1. ASSUME NEW i \in ValidLines(q)
      PROVE  [serial  |-> Cell(q, i, "serialNumber"),
              product |-> q.found["productReference"][i],
              variant |-> q.found["variantReference"][i],
              batch   |-> q.found["batchReference"][i]] \in Row
  <2> DEFINE r == [serial  |-> Cell(q, i, "serialNumber"),
                   product |-> q.found["productReference"][i],
                   variant |-> q.found["variantReference"][i],
                   batch   |-> q.found["batchReference"][i]]
  <2>1. r \in ValidRows(q)
    BY DEF ValidRows
  <2>2. RowFits(r)
    BY <2>1, ValidRowsFit
  <2>3. i \in DOMAIN Content[q.file].rows /\ Cell(q, i, "serialNumber") # Null
    BY DEF ValidLines, Lines, WellShaped
  <2>4. Cell(q, i, "serialNumber") \in Serial
    BY <2>3, SerialCells
  <2> QED BY <2>2, <2>4 DEF RowFits, Row
<1>2. IsFiniteSet(ValidLines(q))
  <2>1. Content[q.file].rows \in Seq(Seq(Item \cup Serial \cup Label \cup {Bad, Null}))
    BY ImportAssumption
  <2>2. Len(Content[q.file].rows) \in Nat
        /\ DOMAIN Content[q.file].rows = 1..Len(Content[q.file].rows)
    BY <2>1
  <2>3. IsFiniteSet(1..Len(Content[q.file].rows))
    BY <2>2, FS_Interval
  <2>4. ValidLines(q) \subseteq DOMAIN Content[q.file].rows
    BY DEF ValidLines, Lines
  <2> QED BY <2>2, <2>3, <2>4, FS_Subset
<1>3. IsFiniteSet(ValidRows(q))
  <2> DEFINE f == [i \in ValidLines(q) |->
                    [serial  |-> Cell(q, i, "serialNumber"),
                     product |-> q.found["productReference"][i],
                     variant |-> q.found["variantReference"][i],
                     batch   |-> q.found["batchReference"][i]]]
  <2>1. f \in Surjection(ValidLines(q), ValidRows(q))
    BY DEF ValidRows, Surjection
  <2> HIDE DEF f
  <2> QED BY <1>2, <2>1, FS_Surjection
<1> QED BY <1>1, <1>3 DEF ValidRows

----------------------------------------------------------------------------
\* The inductive invariant of the import page

\* What is in the store is what was staged.
StoreInv ==
  /\ staged \in [ImportId -> SUBSET Row]
  /\ \A i \in ImportId : IsFiniteSet(staged[i])
  /\ issued \subseteq ImportId
  /\ \A i \in ImportId : pending[i] # Null => i \in issued /\ pending[i] = staged[i]

\* A commit inserts what was staged and seen, and forgets what it has inserted.
RequestFits(q) ==
  /\ q.kind = "preview" => q.file \in File /\ ColumnsFit(q.columns)
  /\ q.kind = "commit" =>
       /\ q.import \in issued \cap shown /\ q.rows = staged[q.import]
       /\ q.at = "forget" => Imported(q.import)

RequestsInv == \A h \in Handler : RequestFits(handler[h])

\* The units of an import that is in the catalogue are there, so that a second
\* commit of it is refused.
WholeInv ==
  \A i \in ImportId :
    /\ Imported(i) =>
         /\ i \in issued \cap shown
         /\ \A r \in staged[i] : origin[r.serial] = i /\ unit[r.serial] # Null
    /\ ~ Imported(i) => \A s \in Serial : origin[s] # i

\* A page shows what was staged, and waits for handlers that are at work on a
\* call of its kind.
PageFits(q) ==
  /\ q \in Page
  /\ SerialFits(q.mapping["serialNumber"])
  /\ q.preview # Null =>
       q.preview.import \in issued /\ q.preview.rows = staged[q.preview.import]
  /\ q.step \in {"review", "commit"} => q.preview # Null /\ q.preview.import \in shown
  /\ q.previewCall # Null =>
       handler[q.previewCall].kind = "preview" /\ q.step \in {"file", "mapping"}
  /\ q.commitCall # Null => handler[q.commitCall].kind = "commit"

\* The commit it waits for, and the result it shows, are of the preview it shows.
OwnResult(q) ==
  /\ q.commitCall # Null =>
       q.step = "commit" /\ handler[q.commitCall].import = q.preview.import
  /\ q.importedCount # Null /\ q.step = "commit" =>
       Imported(q.preview.import) /\ q.importedCount = Cardinality(q.preview.rows)

PagesInv ==
  /\ page = [w \in Wizard |-> page[w]]
  /\ \A w \in Wizard :
       PageFits(page[w]) /\ (w \notin strayed => OwnResult(page[w]))

WizardInv == ImportInv /\ StoreInv /\ RequestsInv /\ WholeInv /\ PagesInv

----------------------------------------------------------------------------
\* Pages ask the API only for what they may

\* The requests of the page: a file with the mapping of the user, or the import it
\* shows.
AskedOfHandler(h) ==
  \/ \E file \in File, override \in Override :
       SerialFits(override["serialNumber"]) /\ AcceptPreview(h, file, override)
  \/ \E i \in issued \cap shown : TakeImport(h, i)

HandlerGoesOn(h) ==
  \/ RefuseHeader(h)
  \/ ReadReferences(h)
  \/ \E i \in ImportId : StagePreview(h, i)
  \/ InsertUnits(h)
  \/ ForgetImport(h)
  \/ RefuseCollision(h)
  \/ HandlerFails(h)

ApiMove ==
  \/ \E k \in Keeper : CatalogueStep(k) /\ UNCHANGED importVars
  \/ \E h \in Handler : AskedOfHandler(h)
  \/ \E h \in Handler : HandlerGoesOn(h)
  \/ \E i \in ImportId : GrowStale(i)
  \/ Restart
  \/ UNCHANGED vars

LEMMA PageTypes ==
  ASSUME PagesInv, NEW w \in Wizard
  PROVE  /\ page[w] \in Page /\ PageFits(page[w])
         /\ page[w].file \in File \cup {Null} /\ page[w].mapping \in Override
         /\ page[w].preview # Null => page[w].preview.import \in ImportId
<1>1. page[w] \in Page /\ PageFits(page[w])
  BY DEF PagesInv, PageFits
<1> QED BY <1>1 DEF Page, Preview

LEMMA NoOverrideFits == NoOverride \in Override /\ SerialFits(NoOverride["serialNumber"])
  BY DEF NoOverride, Override, SerialFits, Field

LEMMA PagesAskWhatTheyMay ==
  ASSUME PagesInv, WizardNext
  PROVE  ApiMove
<1>1. ASSUME NEW w \in Wizard, NEW h \in Handler, CallPreview(w, h)
      PROVE  AskedOfHandler(h)
  <2> DEFINE override == IF page[w].step = "file" THEN NoOverride ELSE page[w].mapping
  <2>1. page[w].file \in File /\ AcceptPreview(h, page[w].file, override)
    BY <1>1, PageTypes DEF CallPreview
  <2>2. override \in Override /\ SerialFits(override["serialNumber"])
    BY PageTypes, NoOverrideFits DEF PageFits
  <2> QED BY <2>1, <2>2 DEF AskedOfHandler
<1>2. ASSUME NEW w \in Wizard, NEW h \in Handler, CallCommit(w, h)
      PROVE  AskedOfHandler(h)
  BY <1>2, PageTypes DEF CallCommit, PageFits, AskedOfHandler
<1>3. ASSUME NEW w \in Wizard, UserStep(w) PROVE ApiMove
  BY <1>1, <1>2, <1>3 DEF UserStep, ApiMove, ChooseFile, EditMapping, Back, Proceed, LeavePage
<1>4. ASSUME NEW h \in Handler, HandlerStep(h) PROVE ApiMove
  BY <1>4 DEF HandlerStep, ApiMove, HandlerGoesOn, AnswerPreview, AnswerRefusal, AnswerCommit,
              AnswerCollision, AnswerFailure, LoseConnection
<1> QED BY <1>3, <1>4 DEF WizardNext, ApiMove, RestartUnderPages

LEMMA ImportInvKept ==
  ASSUME ImportInv, StoreInv, ApiMove
  PROVE  ImportInv'
<1>1. ASSUME NEW h \in Handler, AskedOfHandler(h) PROVE ImportStep(h)
  BY <1>1 DEF AskedOfHandler, ImportStep, StoreInv
<1>2. ASSUME NEW h \in Handler, HandlerGoesOn(h) PROVE ImportStep(h)
  BY <1>2 DEF HandlerGoesOn, ImportStep
<1>3. [ImportNext]_vars
  BY <1>1, <1>2 DEF ApiMove, ImportNext
<1> QED BY <1>3, ImportInvStep

----------------------------------------------------------------------------
\* What is issued, shown or imported stays so, with the rows it was staged with.

WorldGrows ==
  /\ issued \subseteq issued' /\ shown \subseteq shown'
  /\ \A i \in ImportId : Imported(i) => Imported(i)'
  /\ \A i \in issued : staged'[i] = staged[i]

\* Nothing but an import adds the event of one.
LEMMA CatalogueEvents ==
  ASSUME NEW k \in Keeper, CatalogueStep(k), NEW i
  PROVE  Imported(i)' <=> Imported(i)
  BY DEF CatalogueStep, Imported, RequestItem, RequestNewUnit, RequestPatch, WriteItem,
         WriteNewUnit, WritePatch, RecordWork, WorkFails

LEMMA HandlerEvents ==
  ASSUME NEW h \in Handler, AskedOfHandler(h) \/ HandlerGoesOn(h), ~ InsertUnits(h)
  PROVE  UNCHANGED catalogueVars
  BY DEF AskedOfHandler, HandlerGoesOn, AcceptPreview, RefuseHeader, ReadReferences,
         StagePreview, TakeImport, ForgetImport, RefuseCollision, HandlerFails

LEMMA TheWorldGrows ==
  ASSUME StoreInv, ApiMove, Recall
  PROVE  WorldGrows
<1>1. shown \subseteq shown'
  BY DEF Recall
<1>2. issued \subseteq issued'
  BY DEF ApiMove, importVars, vars, AskedOfHandler, HandlerGoesOn, AcceptPreview, RefuseHeader,
         ReadReferences, StagePreview, TakeImport, InsertUnits, ForgetImport, RefuseCollision,
         HandlerFails, GrowStale, Restart
<1>3. ASSUME NEW i \in issued PROVE staged'[i] = staged[i]
  BY DEF Recall, StoreInv
<1>4. ASSUME NEW i \in ImportId, Imported(i) PROVE Imported(i)'
  <2>1. ASSUME NEW h \in Handler, InsertUnits(h) PROVE audit \subseteq audit'
    BY <2>1 DEF InsertUnits
  <2>2. ASSUME NEW h \in Handler, AskedOfHandler(h) \/ HandlerGoesOn(h)
        PROVE audit \subseteq audit'
    BY <2>1, <2>2, HandlerEvents DEF catalogueVars
  <2>3. ASSUME NEW k \in Keeper, CatalogueStep(k) PROVE Imported(i)'
    BY <1>4, <2>3, CatalogueEvents
  <2>4. (\E j \in ImportId : GrowStale(j)) \/ Restart \/ UNCHANGED vars => UNCHANGED audit
    BY DEF GrowStale, Restart, vars, catalogueVars
  <2> QED BY <1>4, <2>2, <2>3, <2>4 DEF ApiMove, Imported
<1> QED BY <1>1, <1>2, <1>3, <1>4 DEF WorldGrows

----------------------------------------------------------------------------
\* The store

LEMMA StoreStays ==
  ASSUME StoreInv, Recall, UNCHANGED issued,
         \A i \in ImportId : pending'[i] \in {Null, pending[i]}
  PROVE  StoreInv'
<1>1. staged' = staged
  BY DEF StoreInv, Recall
<1> QED BY <1>1 DEF StoreInv

LEMMA PreviewsAreTyped ==
  ASSUME ImportInv, RequestsInv, NEW h \in Handler,
         handler[h].kind = "preview", handler[h].next = "serialNumber"
  PROVE  ValidRows(handler[h]) \subseteq Row /\ IsFiniteSet(ValidRows(handler[h]))
<1>1. FoundFits(handler[h])
  BY DEF ImportInv, HandlerInv, HandlerFits, IsCommit, Idle
<1>2. handler[h].file \in File /\ SerialFits(handler[h].columns["serialNumber"])
  BY DEF RequestsInv, RequestFits, ColumnsFit
<1> QED BY <1>1, <1>2, StagedRows

LEMMA StagingKeepsStore ==
  ASSUME ImportInv, StoreInv, RequestsInv, Recall,
         NEW h \in Handler, NEW i \in ImportId, StagePreview(h, i)
  PROVE  StoreInv' /\ staged'[i] = ValidRows(handler[h])
<1> DEFINE new == ValidRows(handler[h])
<1>1. new \subseteq Row /\ IsFiniteSet(new)
  BY PreviewsAreTyped DEF StagePreview
<1> HIDE DEF new
<1>2. pending' = [j \in ImportId |-> IF j = i THEN new
                                     ELSE IF j \in stale THEN Null ELSE pending[j]]
  BY DEF StagePreview, Evicted, new
<1>3. issued' = issued \cup {i} /\ i \notin issued
  BY DEF StagePreview
<1>4. staged' = [j \in ImportId |-> IF j = i THEN new ELSE staged[j]]
  BY <1>2, <1>3 DEF Recall
<1>5. staged' \in [ImportId -> SUBSET Row]
  BY <1>1, <1>4 DEF StoreInv
<1>6. \A j \in ImportId : IsFiniteSet(staged'[j])
  BY <1>1, <1>4 DEF StoreInv
<1>7. \A j \in ImportId : pending'[j] # Null => j \in issued' /\ pending'[j] = staged'[j]
  BY <1>2, <1>3, <1>4 DEF StoreInv
<1> QED BY <1>3, <1>4, <1>5, <1>6, <1>7 DEF StoreInv, new

LEMMA StoreKept ==
  ASSUME ImportInv, StoreInv, RequestsInv, ApiMove, Recall
  PROVE  StoreInv'
<1> DEFINE Forgets == UNCHANGED issued /\ \A i \in ImportId : pending'[i] \in {Null, pending[i]}
<1>1. ASSUME NEW h \in Handler, AskedOfHandler(h) PROVE Forgets
  BY <1>1 DEF AskedOfHandler, AcceptPreview, TakeImport, Evicted
<1>2. ASSUME NEW h \in Handler, HandlerGoesOn(h), ~ \E i \in ImportId : StagePreview(h, i)
      PROVE  Forgets
  <2>1. ForgetImport(h) => Forgets
    BY DEF ForgetImport, ImportInv, PendingInv
  <2> QED BY <1>2, <2>1 DEF HandlerGoesOn, RefuseHeader, ReadReferences, InsertUnits,
                            RefuseCollision, HandlerFails
<1>3. (\E i \in ImportId : GrowStale(i)) \/ Restart \/ UNCHANGED vars \/ UNCHANGED importVars
        => Forgets
  BY DEF GrowStale, Restart, vars, importVars
<1> HIDE DEF Forgets
<1>4. CASE Forgets
  BY <1>4, StoreStays DEF Forgets
<1>5. CASE \E h \in Handler, i \in ImportId : StagePreview(h, i)
  BY <1>5, StagingKeepsStore
<1> QED BY <1>1, <1>2, <1>3, <1>4, <1>5 DEF ApiMove

----------------------------------------------------------------------------
\* The requests

LEMMA RequestStays ==
  ASSUME StoreInv, WorldGrows, NEW q, RequestFits(q)
  PROVE  RequestFits(q)'
  BY DEF StoreInv, WorldGrows, RequestFits

LEMMA RequestMoves ==
  ASSUME StoreInv, RequestsInv, HandlerInv, WorldGrows,
         NEW h \in Handler, NEW q, RequestFits(q)', handler' = [handler EXCEPT ![h] = q]
  PROVE  RequestsInv'
<1>1. handler' = [g \in Handler |-> IF g = h THEN q ELSE handler[g]]
  BY DEF HandlerInv
<1>2. ASSUME NEW g \in Handler PROVE RequestFits(handler[g])'
  <2>1. CASE g = h
    BY <1>1, <2>1
  <2>2. CASE g # h
    <3>2. handler'[g] = handler[g] /\ RequestFits(handler[g])
      BY <1>1, <2>2 DEF RequestsInv
    <3>3. RequestFits(handler'[g])
      BY <3>2
    <3> QED BY <3>3, RequestStays
  <2> QED BY <2>1, <2>2
<1> QED BY <1>2 DEF RequestsInv

LEMMA RequestsStay ==
  ASSUME StoreInv, RequestsInv, WorldGrows, UNCHANGED handler
  PROVE  RequestsInv'
<1>1. ASSUME NEW g \in Handler PROVE RequestFits(handler[g])'
  <2>1. RequestFits(handler'[g])
    BY DEF RequestsInv
  <2> QED BY <2>1, RequestStays
<1> QED BY <1>1 DEF RequestsInv

LEMMA IdleRequestFits == RequestFits(Idle)'
  BY DEF RequestFits, Idle

\* Reading goes on with the same file and the same columns.
LEMMA ReadingStays ==
  ASSUME ImportInv, NEW h \in Handler, ReadReferences(h)
  PROVE  /\ handler' = [handler EXCEPT ![h] = handler'[h]]
         /\ handler'[h].kind = "preview"
         /\ handler'[h].file = handler[h].file /\ handler'[h].columns = handler[h].columns
<1> DEFINE p == handler[h]
           q == [p EXCEPT !.found[p.next] = Resolved(p, p.next), !.next = After(p.next)]
<1>1. p = [kind |-> "preview", file |-> p.file, next |-> p.next, columns |-> p.columns,
           found |-> p.found]
  <2>1. IsPreview(p)
    BY DEF ReadReferences, ImportInv, HandlerInv, HandlerFits, IsCommit, Idle
  <2> QED BY <2>1 DEF IsPreview
<1>2. handler' = [handler EXCEPT ![h] = q]
  BY DEF ReadReferences
<1>3. q.kind = p.kind /\ q.file = p.file /\ q.columns = p.columns
  <2>1. {"kind", "file", "columns"} \subseteq DOMAIN p
    BY <1>1
  <2> HIDE DEF p
  <2>2. DOMAIN q = DOMAIN p
    OBVIOUS
  <2> QED BY <2>1, <2>2
<1>4. handler'[h] = q
  BY <1>2 DEF ImportInv, HandlerInv
<1> HIDE DEF q
<1>5. p.kind = "preview"
  BY DEF ReadReferences
<1> QED BY <1>2, <1>3, <1>4, <1>5

LEMMA InsertingStays ==
  ASSUME ImportInv, NEW h \in Handler, InsertUnits(h)
  PROVE  /\ handler' = [handler EXCEPT ![h] = handler'[h]]
         /\ handler'[h].kind = "commit" /\ handler'[h].at = "forget"
         /\ handler'[h].import = handler[h].import /\ handler'[h].rows = handler[h].rows
<1> DEFINE p == handler[h]
           q == [p EXCEPT !.at = "forget"]
<1>1. p = [kind |-> "commit", at |-> p.at, import |-> p.import, rows |-> p.rows]
  BY DEF InsertUnits, ImportInv, HandlerInv, HandlerFits, IsPreview, IsCommit, Idle
<1>2. handler' = [handler EXCEPT ![h] = q]
  BY DEF InsertUnits
<1>3. q.kind = p.kind /\ q.at = "forget" /\ q.import = p.import /\ q.rows = p.rows
  BY <1>1
<1>4. handler'[h] = q
  BY <1>2 DEF ImportInv, HandlerInv
<1> HIDE DEF q
<1>5. p.kind = "commit"
  BY DEF InsertUnits
<1> QED BY <1>2, <1>3, <1>4, <1>5

LEMMA RequestsKept ==
  ASSUME ImportInv, StoreInv, RequestsInv, WorldGrows, ApiMove
  PROVE  RequestsInv'
<1>1. HandlerInv
  BY DEF ImportInv
<1>2. ASSUME NEW h \in Handler, AskedOfHandler(h) PROVE RequestsInv'
  <2>1. ASSUME NEW file \in File, NEW override \in Override,
               SerialFits(override["serialNumber"]), AcceptPreview(h, file, override)
        PROVE  RequestsInv'
    <3>1. PICK q :
          /\ handler' = [handler EXCEPT ![h] = q]
          /\ q.kind = "preview" /\ q.file = file
          /\ q.columns = Columns(Content[file].header, override)
      <4> DEFINE columns == Columns(Content[file].header, override)
                 next == IF RequiredMapped(columns) THEN "productReference" ELSE "refuse"
                 new == [kind |-> "preview", file |-> file, next |-> next,
                         columns |-> columns, found |-> [field \in RefField |-> <<>>]]
      <4>1. handler' = [handler EXCEPT ![h] = new]
        BY <2>1 DEF AcceptPreview
      <4>2. new.kind = "preview" /\ new.file = file /\ new.columns = columns
        OBVIOUS
      <4> HIDE DEF new
      <4> QED BY <4>1, <4>2
    <3>2. RequestFits(q)'
      BY <2>1, <3>1, ColumnsFitAlways DEF RequestFits
    <3> QED BY <1>1, <3>1, <3>2, RequestMoves
  <2>2. ASSUME NEW i \in issued \cap shown, TakeImport(h, i) PROVE RequestsInv'
    <3>1. PICK q :
          /\ handler' = [handler EXCEPT ![h] = q]
          /\ \/ q = Idle
             \/ /\ q = [kind |-> "commit", at |-> "insert", import |-> i, rows |-> pending[i]]
                /\ pending[i] # Null
      BY <1>1, <2>2 DEF TakeImport, HandlerInv, Evicted, StoreInv
    <3>2. CASE q = Idle
      BY <1>1, <3>1, <3>2, IdleRequestFits, RequestMoves
    <3>3. CASE /\ q = [kind |-> "commit", at |-> "insert", import |-> i, rows |-> pending[i]]
               /\ pending[i] # Null
      <4>1. q.kind = "commit" /\ q.at = "insert" /\ q.import = i /\ q.rows = staged[i]
        BY <3>3 DEF StoreInv
      <4>2. RequestFits(q)'
        BY <4>1 DEF RequestFits, WorldGrows
      <4> QED BY <1>1, <3>1, <4>2, RequestMoves
    <3> QED BY <3>1, <3>2, <3>3
  <2> QED BY <1>2, <2>1, <2>2 DEF AskedOfHandler
<1>3. ASSUME NEW h \in Handler, HandlerGoesOn(h) PROVE RequestsInv'
  <2>1. CASE ReadReferences(h)
    <3>1. PICK q :
          /\ handler' = [handler EXCEPT ![h] = q] /\ q.kind = "preview"
          /\ q.file = handler[h].file /\ q.columns = handler[h].columns
      BY <2>1, ReadingStays
    <3>2. RequestFits(q)'
      BY <2>1, <3>1 DEF RequestsInv, RequestFits, ReadReferences
    <3> QED BY <1>1, <3>1, <3>2, RequestMoves
  <2>2. CASE InsertUnits(h)
    <3>1. PICK q :
          /\ handler' = [handler EXCEPT ![h] = q] /\ q.kind = "commit"
          /\ q.import = handler[h].import /\ q.rows = handler[h].rows
      BY <2>2, InsertingStays
    <3>2. handler[h].import \in issued \cap shown /\ handler[h].rows = staged[handler[h].import]
      BY <2>2 DEF RequestsInv, RequestFits, InsertUnits
    <3>3. Imported(handler[h].import)'
      BY <2>2 DEF InsertUnits, Imported
    <3>4. RequestFits(q)'
      BY <3>1, <3>2, <3>3 DEF RequestFits, WorldGrows
    <3> QED BY <1>1, <3>1, <3>4, RequestMoves
  <2>3. CASE ~ ReadReferences(h) /\ ~ InsertUnits(h)
    <3>1. handler' = [handler EXCEPT ![h] = Idle]
      BY <1>3, <2>3 DEF HandlerGoesOn, RefuseHeader, StagePreview, ForgetImport,
                        RefuseCollision, HandlerFails
    <3> QED BY <1>1, <3>1, IdleRequestFits, RequestMoves
  <2> QED BY <2>1, <2>2, <2>3
<1>4. CASE Restart
  <2>1. ASSUME NEW g \in Handler PROVE RequestFits(handler[g])'
    <3>1. handler'[g] = Idle
      BY <1>4 DEF Restart
    <3> QED BY <3>1, IdleRequestFits
  <2> QED BY <2>1 DEF RequestsInv
<1>5. (\E i \in ImportId : GrowStale(i)) \/ UNCHANGED vars \/ UNCHANGED importVars
        => UNCHANGED handler
  BY DEF GrowStale, vars, importVars
<1> QED BY <1>2, <1>3, <1>4, <1>5, RequestsStay DEF ApiMove

----------------------------------------------------------------------------
\* Imports are whole

LEMMA WholeStays ==
  ASSUME StoreInv, WholeInv, WorldGrows, UnitsStay,
         \A i \in ImportId : Imported(i)' <=> Imported(i),
         \A s \in Serial : origin'[s] = origin[s]
  PROVE  WholeInv'
<1> SUFFICES ASSUME NEW i \in ImportId
             PROVE  /\ Imported(i)' =>
                         /\ i \in issued' \cap shown'
                         /\ \A r \in staged'[i] : origin'[r.serial] = i /\ unit'[r.serial] # Null
                    /\ ~ Imported(i)' => \A s \in Serial : origin'[s] # i
  BY DEF WholeInv
<1>1. ASSUME Imported(i)'
      PROVE  /\ i \in issued' \cap shown'
             /\ \A r \in staged'[i] : origin'[r.serial] = i /\ unit'[r.serial] # Null
  <2>1. /\ i \in issued \cap shown
        /\ \A r \in staged[i] : origin[r.serial] = i /\ unit[r.serial] # Null
    BY <1>1 DEF WholeInv
  <2>2. staged'[i] = staged[i] /\ i \in issued' \cap shown'
    BY <2>1 DEF WorldGrows
  <2>3. \A r \in staged[i] : r.serial \in Serial
    BY DEF StoreInv, Row
  <2> QED BY <2>1, <2>2, <2>3 DEF UnitsStay
<1>2. ASSUME ~ Imported(i)', NEW s \in Serial PROVE origin'[s] # i
  BY <1>2 DEF WholeInv
<1> QED BY <1>1, <1>2

LEMMA OriginStays ==
  ASSUME Recall, NEW s \in Serial, unit[s] # Null \/ unit'[s] = Null \/ Inserting = {}
  PROVE  origin'[s] = origin[s]
  BY DEF Recall

LEMMA CatalogueKeepsWhole ==
  ASSUME ImportInv, StoreInv, WholeInv, WorldGrows, Recall,
         NEW k \in Keeper, CatalogueStep(k), UNCHANGED importVars
  PROVE  WholeInv'
<1>1. UnitsStay
  BY CatalogueKeeps DEF ImportInv
<1>2. Inserting = {}
  BY DEF Inserting, importVars
<1>3. \A s \in Serial : origin'[s] = origin[s]
  BY <1>2, OriginStays
<1>4. \A i \in ImportId : Imported(i)' <=> Imported(i)
  BY CatalogueEvents
<1> QED BY <1>1, <1>3, <1>4, WholeStays

LEMMA RestKeepsWhole ==
  ASSUME StoreInv, WholeInv, WorldGrows, Recall, UNCHANGED <<unit, audit>>
  PROVE  WholeInv'
<1>1. UnitsStay
  BY DEF UnitsStay
<1>2. \A s \in Serial : origin'[s] = origin[s]
  BY OriginStays
<1>3. \A i \in ImportId : Imported(i)' <=> Imported(i)
  BY DEF Imported
<1> QED BY <1>1, <1>2, <1>3, WholeStays

LEMMA InsertKeepsWhole ==
  ASSUME ImportInv, StoreInv, RequestsInv, WholeInv, WorldGrows, Recall,
         NEW h \in Handler, InsertUnits(h)
  PROVE  WholeInv'
<1> DEFINE i == handler[h].import
           rows == handler[h].rows
<1>1. i \in issued \cap shown /\ i \in ImportId /\ rows = staged[i] /\ rows \subseteq Row
  BY DEF InsertUnits, RequestsInv, RequestFits, StoreInv
<1>2. Inserting = {h}
  <2>1. h \in Inserting
    BY InsertingStays DEF Inserting, InsertUnits
  <2>2. \A g \in Handler : g # h => handler'[g] = handler[g]
    BY DEF InsertUnits, ImportInv, HandlerInv
  <2>3. \A g \in Inserting : g = h
    BY <2>2 DEF Inserting
  <2> QED BY <2>1, <2>3
<1>3. \A s \in Serial : origin'[s] = IF unit[s] = Null /\ unit'[s] # Null THEN i ELSE origin[s]
  BY <1>2 DEF Recall
<1>4. \A j \in ImportId : Imported(j)' <=> (Imported(j) \/ j = i)
  BY <1>1 DEF InsertUnits, Imported
<1> HIDE DEF i, rows
<1>5. \A r \in rows : r.serial \in Serial /\ unit[r.serial] = Null
  BY <1>1 DEF InsertUnits, Collides, Row, rows
<1>6. \A s \in Serial : unit[s] # Null => unit'[s] # Null
  BY DEF InsertUnits, Inserted
<1>7. \A r \in rows : unit'[r.serial] # Null
  <2> SUFFICES ASSUME NEW r \in rows PROVE unit'[r.serial] # Null
    OBVIOUS
  <2> DEFINE x == CHOOSE y \in rows : y.serial = r.serial
             u == [product |-> x.product, variant |-> x.variant, batch |-> x.batch]
  <2>1. x \in rows
    OBVIOUS
  <2> HIDE DEF x
  <2>2. u \in Unit
    BY <1>1, <2>1 DEF Row, Unit
  <2>3. unit'[r.serial] = u
    BY <1>5 DEF InsertUnits, Inserted, rows, x
  <2> QED BY <2>2, <2>3, CatalogueAssumption
<1> SUFFICES ASSUME NEW j \in ImportId
             PROVE  /\ Imported(j)' =>
                         /\ j \in issued' \cap shown'
                         /\ \A r \in staged'[j] : origin'[r.serial] = j /\ unit'[r.serial] # Null
                    /\ ~ Imported(j)' => \A s \in Serial : origin'[s] # j
  BY DEF WholeInv
<1>8. CASE j = i
  <2>1. staged'[j] = rows /\ j \in issued' \cap shown'
    BY <1>1, <1>8 DEF WorldGrows
  <2> QED BY <1>3, <1>4, <1>5, <1>7, <1>8, <2>1
<1>9. CASE j # i
  <2>1. ASSUME Imported(j)'
        PROVE  /\ j \in issued' \cap shown'
               /\ \A r \in staged'[j] : origin'[r.serial] = j /\ unit'[r.serial] # Null
    <3>1. /\ j \in issued \cap shown
          /\ \A r \in staged[j] : origin[r.serial] = j /\ unit[r.serial] # Null
      BY <1>4, <1>9, <2>1 DEF WholeInv
    <3>2. staged'[j] = staged[j] /\ j \in issued' \cap shown'
      BY <3>1 DEF WorldGrows
    <3>3. \A r \in staged[j] : r.serial \in Serial
      BY DEF StoreInv, Row
    <3> QED BY <1>3, <1>6, <3>1, <3>2, <3>3
  <2>2. ASSUME ~ Imported(j)', NEW s \in Serial PROVE origin'[s] # j
    BY <1>3, <1>4, <1>9, <2>2 DEF WholeInv
  <2> QED BY <2>1, <2>2
<1> QED BY <1>8, <1>9

LEMMA WholeKept ==
  ASSUME ImportInv, StoreInv, RequestsInv, WholeInv, WorldGrows, ApiMove, Recall
  PROVE  WholeInv'
<1>1. ASSUME NEW h \in Handler, AskedOfHandler(h) \/ HandlerGoesOn(h), ~ InsertUnits(h)
      PROVE  UNCHANGED <<unit, audit>>
  BY <1>1, HandlerEvents DEF catalogueVars
<1>2. (\E i \in ImportId : GrowStale(i)) \/ Restart \/ UNCHANGED vars => UNCHANGED <<unit, audit>>
  BY DEF GrowStale, Restart, vars, catalogueVars
<1> QED BY <1>1, <1>2, CatalogueKeepsWhole, RestKeepsWhole, InsertKeepsWhole DEF ApiMove

----------------------------------------------------------------------------
\* The pages

\* The handler goes on with the same call.
WorksOn(h) ==
  /\ handler'[h].kind = handler[h].kind
  /\ handler[h].kind = "commit" => handler'[h].import = handler[h].import

Undisturbed(q) == \A h \in {q.previewCall, q.commitCall} \ {Null} : WorksOn(h)

PageKept(w) == PageFits(page[w])' /\ (w \notin strayed' => OwnResult(page[w])')

LEMMA PageUndisturbed ==
  ASSUME StoreInv, WorldGrows, NEW q, PageFits(q), Undisturbed(q)
  PROVE  PageFits(q)' /\ (OwnResult(q) => OwnResult(q)')
<1>1. q \in Page /\ (q.preview # Null => q.preview.import \in ImportId)
  BY DEF PageFits, Page, Preview
<1>2. q.preview # Null => /\ q.preview.import \in issued'
                          /\ q.preview.rows = staged'[q.preview.import]
  BY <1>1 DEF PageFits, WorldGrows
<1>3. q.step \in {"review", "commit"} => q.preview # Null /\ q.preview.import \in shown'
  BY DEF PageFits, WorldGrows
<1>4. /\ q.previewCall # Null =>
           handler'[q.previewCall].kind = "preview" /\ q.step \in {"file", "mapping"}
      /\ q.commitCall # Null =>
           /\ handler'[q.commitCall].kind = "commit"
           /\ handler'[q.commitCall].import = handler[q.commitCall].import
  BY DEF PageFits, Undisturbed, WorksOn
<1>5. PageFits(q)'
  BY <1>1, <1>2, <1>3, <1>4 DEF PageFits
<1>6. ASSUME OwnResult(q) PROVE OwnResult(q)'
  BY <1>1, <1>3, <1>4, <1>6 DEF OwnResult, WorldGrows
<1> QED BY <1>5, <1>6

LEMMA NewPageFits == PageFits(NewPage) /\ OwnResult(NewPage)
<1>1. NewPage \in Page
  BY NoOverrideFits DEF NewPage, Page, Step, Header
<1> QED BY <1>1, NoOverrideFits DEF NewPage, PageFits, OwnResult

LEMMA NewPageStays ==
  ASSUME StoreInv, WorldGrows
  PROVE  PageFits(NewPage)' /\ OwnResult(NewPage)'
<1>1. Undisturbed(NewPage)
  BY DEF Undisturbed, NewPage
<1> QED BY <1>1, NewPageFits, PageUndisturbed

\* A page that turns into q.
LEMMA PageBecomes ==
  ASSUME StoreInv, WorldGrows, Recall, NEW w \in Wizard, NEW q, page'[w] = q,
         PageFits(q)',
         w \notin strayed /\ (q.commitCall = Null \/ q.step = "commit") => OwnResult(q)'
  PROVE  PageKept(w)
<1>1. CASE q = NewPage
  BY <1>1, NewPageStays DEF PageKept
<1>2. CASE q # NewPage
  <2>1. w \notin strayed' => w \notin strayed /\ (q.commitCall = Null \/ q.step = "commit")
    BY <1>2 DEF Recall
  <2> QED BY <2>1 DEF PageKept
<1> QED BY <1>1, <1>2

LEMMA PageSame ==
  ASSUME StoreInv, PagesInv, WorldGrows, Recall, NEW w \in Wizard, page'[w] = page[w],
         Undisturbed(page[w])
  PROVE  PageKept(w)
<1>1. PICK q : q = page[w]
  OBVIOUS
<1>2. PageFits(q) /\ (w \notin strayed => OwnResult(q)) /\ Undisturbed(q) /\ page'[w] = q
  BY <1>1 DEF PagesInv
<1> QED BY <1>2, PageUndisturbed, PageBecomes

\* A page that turns into q by what its user does.
LEMMA PageEdited ==
  ASSUME StoreInv, PagesInv, WorldGrows, Recall, UNCHANGED handler,
         NEW w \in Wizard, NEW q, page' = [page EXCEPT ![w] = q], PageFits(q),
         w \notin strayed /\ (q.commitCall = Null \/ q.step = "commit") => OwnResult(q),
         NEW x \in Wizard
  PROVE  PageKept(x)
<1>1. page'[x] = IF x = w THEN q ELSE page[x]
  BY DEF PagesInv
<1>2. \A p : Undisturbed(p)
  BY DEF Undisturbed, WorksOn
<1>3. CASE x = w
  BY <1>1, <1>2, <1>3, PageUndisturbed, PageBecomes
<1>4. CASE x # w
  BY <1>1, <1>2, <1>4, PageSame
<1> QED BY <1>3, <1>4

LEMMA UserKeepsPages ==
  ASSUME StoreInv, PagesInv, WorldGrows, Recall, NEW w \in Wizard, NEW x \in Wizard,
         \/ \E file \in File \cup {Null} : ChooseFile(w, file)
         \/ \E c \in Choice : EditMapping(w, c[1], c[2])
         \/ Back(w) \/ Proceed(w) \/ LeavePage(w)
  PROVE  PageKept(x)
<1>0. PICK p : p = page[w]
  OBVIOUS
<1>1. p \in Page /\ PageFits(p) /\ (w \notin strayed => OwnResult(p))
  BY <1>0 DEF PagesInv, PageFits
<1>2. UNCHANGED handler
  BY DEF ChooseFile, EditMapping, Back, Proceed, LeavePage, vars, importVars
<1>3. ASSUME NEW file \in File \cup {Null}, ChooseFile(w, file) PROVE PageKept(x)
  <2> DEFINE q == [p EXCEPT !.file = file]
  <2>1. page' = [page EXCEPT ![w] = q]
    BY <1>0, <1>3 DEF ChooseFile
  <2>2. q \in Page
    BY <1>1 DEF Page
  <2>3. PageFits(q) /\ (OwnResult(p) => OwnResult(q))
    BY <1>1, <2>2 DEF Page, PageFits, OwnResult
  <2> HIDE DEF q
  <2> QED BY <1>1, <1>2, <2>1, <2>3, PageEdited
<1>4. ASSUME NEW c \in Choice, EditMapping(w, c[1], c[2]) PROVE PageKept(x)
  <2> DEFINE mapping == [p.mapping EXCEPT ![c[1]] = c[2]]
             q == [p EXCEPT !.mapping = mapping]
  <2>1. page' = [page EXCEPT ![w] = q]
    BY <1>0, <1>4 DEF EditMapping
  <2>2. c[1] \in Field /\ c[2] \in Nat \cup {Null} /\ c = <<c[1], c[2]>>
    BY WizardAssumption
  <2>3. p.mapping \in Override
    BY <1>1 DEF Page
  <2>4. mapping \in Override
    BY <2>2, <2>3 DEF Override
  <2>5. SerialFits(mapping["serialNumber"])
    BY <1>1, <2>2, <2>3 DEF PageFits, SerialFits, SerialColumn, Override, Field
  <2> HIDE DEF mapping
  <2>6. q \in Page
    BY <1>1, <2>4 DEF Page
  <2>7. PageFits(q) /\ (OwnResult(p) => OwnResult(q))
    BY <1>1, <2>5, <2>6 DEF Page, PageFits, OwnResult
  <2> HIDE DEF q
  <2> QED BY <1>1, <1>2, <2>1, <2>7, PageEdited
<1>5. CASE Back(w)
  <2> DEFINE q == [p EXCEPT !.step = Previous[p.step]]
  <2>1. page' = [page EXCEPT ![w] = q]
    BY <1>0, <1>5 DEF Back
  <2>2. /\ p.importedCount = Null /\ p.previewCall = Null
        /\ \/ p.step = "mapping" /\ Previous[p.step] = "file"
           \/ p.step = "review" /\ Previous[p.step] = "mapping"
           \/ p.step = "commit" /\ Previous[p.step] = "review"
    BY <1>0, <1>5 DEF Back, HasNavigation, Previous
  <2>3. q \in Page
    BY <1>1, <2>2 DEF Page, Step
  <2>4. PageFits(q)
    BY <1>1, <2>2, <2>3 DEF Page, PageFits
  <2>5. q.commitCall = Null \/ q.step = "commit" => OwnResult(q)
    BY <1>1, <2>2 DEF Page, OwnResult
  <2> HIDE DEF q
  <2> QED BY <1>2, <2>1, <2>4, <2>5, PageEdited
<1>6. CASE Proceed(w)
  <2> DEFINE q == [p EXCEPT !.step = "commit"]
  <2>1. page' = [page EXCEPT ![w] = q]
    BY <1>0, <1>6 DEF Proceed
  <2>2. p.importedCount = Null /\ p.previewCall = Null /\ p.step = "review"
    BY <1>0, <1>6 DEF Proceed, HasNavigation
  <2>3. q \in Page
    BY <1>1 DEF Page, Step
  <2>4. PageFits(q)
    BY <1>1, <2>2, <2>3 DEF Page, PageFits
  <2>5. w \notin strayed => OwnResult(q)
    BY <1>1, <2>2 DEF Page, OwnResult
  <2> HIDE DEF q
  <2> QED BY <1>2, <2>1, <2>4, <2>5, PageEdited
<1>7. CASE LeavePage(w)
  BY <1>2, <1>7, NewPageFits, PageEdited DEF LeavePage
<1> QED BY <1>3, <1>4, <1>5, <1>6, <1>7

----------------------------------------------------------------------------
\* The calls of the pages

OthersGoOn(h) == \A g \in Handler : g # h => handler'[g] = handler[g]

\* No page is disturbed by what a handler does that it does not wait for.
LEMMA OthersUndisturbed ==
  ASSUME NEW h \in Handler, OthersGoOn(h), NEW q, q \in Page, PageFits(q),
         h \notin {q.previewCall, q.commitCall}
  PROVE  Undisturbed(q)
  BY DEF OthersGoOn, Undisturbed, WorksOn, Page

\* Nobody waits for an idle handler.
LEMMA NobodyWaits ==
  ASSUME NEW h \in Handler, handler[h] = Idle, NEW q, PageFits(q)
  PROVE  h \notin {q.previewCall, q.commitCall}
  BY WizardAssumption DEF PageFits, Idle

LEMMA CallPreviewKeepsPages ==
  ASSUME ImportInv, StoreInv, PagesInv, WorldGrows, Recall,
         NEW w \in Wizard, NEW h \in Handler, CallPreview(w, h), NEW x \in Wizard
  PROVE  PageKept(x)
<1>0. PICK p : p = page[w]
  OBVIOUS
<1>1. p \in Page /\ PageFits(p) /\ (w \notin strayed => OwnResult(p))
  BY <1>0 DEF PagesInv, PageFits
<1>2. handler[h] = Idle /\ OthersGoOn(h)
  BY DEF CallPreview, AcceptPreview, OthersGoOn, ImportInv, HandlerInv
<1>3. handler'[h].kind = "preview"
  BY DEF CallPreview, AcceptPreview, ImportInv, HandlerInv
<1>4. CASE x = w
  <2> DEFINE q == [p EXCEPT !.previewCall = h]
  <2>1. page'[w] = q
    BY <1>0 DEF CallPreview, PagesInv
  <2>2. /\ p.step \in {"file", "mapping"} /\ p.importedCount = Null
        /\ (w \notin strayed => p.commitCall = Null)
    BY <1>0, <1>1 DEF CallPreview, HasNavigation, OwnResult
  <2>3. q \in Page
    BY <1>1 DEF Page
  <2>4. PageFits([p EXCEPT !.previewCall = Null])
    BY <1>1 DEF Page, PageFits
  <2>5. Undisturbed(p)
    BY <1>1, <1>2, NobodyWaits, OthersUndisturbed
  <2>6. PageFits(p)'
    BY <1>1, <2>5, PageUndisturbed
  <2>7. PageFits(q)'
    BY <1>1, <1>3, <2>2, <2>3, <2>6 DEF Page, PageFits
  <2>8. w \notin strayed => OwnResult(q)'
    BY <1>1, <2>2 DEF Page, OwnResult
  <2> HIDE DEF q
  <2> QED BY <1>4, <2>1, <2>7, <2>8, PageBecomes
<1>5. CASE x # w
  <2>1. PICK q : q = page[x]
    OBVIOUS
  <2>2. page'[x] = page[x]
    BY <1>5 DEF CallPreview, PagesInv
  <2>3. q \in Page /\ PageFits(q)
    BY <2>1 DEF PagesInv, PageFits
  <2>4. Undisturbed(q)
    BY <1>2, <2>3, NobodyWaits, OthersUndisturbed
  <2> QED BY <2>1, <2>2, <2>4, PageSame
<1> QED BY <1>4, <1>5

LEMMA CallCommitKeepsPages ==
  ASSUME ImportInv, StoreInv, PagesInv, WorldGrows, Recall,
         NEW w \in Wizard, NEW h \in Handler, CallCommit(w, h), NEW x \in Wizard
  PROVE  PageKept(x)
<1>0. PICK p : p = page[w]
  OBVIOUS
<1>1. p \in Page /\ PageFits(p) /\ (w \notin strayed => OwnResult(p))
  BY <1>0 DEF PagesInv, PageFits
<1>2. handler[h] = Idle /\ OthersGoOn(h)
  BY DEF CallCommit, TakeImport, OthersGoOn, ImportInv, HandlerInv
<1>3. handler'[h] # Idle =>
        handler'[h].kind = "commit" /\ handler'[h].import = p.preview.import
  BY <1>0 DEF CallCommit, TakeImport, ImportInv, HandlerInv
<1>4. CASE x = w
  <2>1. PICK call \in {Null, h}, error \in {Null, "NOT_FOUND"} :
          /\ page'[w] = [p EXCEPT !.commitCall = call, !.commitError = error]
          /\ call = h => handler'[h] # Idle
    <3> DEFINE c == IF handler'[h] = Idle THEN Null ELSE h
               e == IF handler'[h] = Idle THEN "NOT_FOUND" ELSE Null
    <3>1. c \in {Null, h} /\ e \in {Null, "NOT_FOUND"} /\ (c = h => handler'[h] # Idle)
      BY WizardAssumption
    <3>2. page' = [page EXCEPT ![w].commitCall = c, ![w].commitError = e]
      BY <1>0 DEF CallCommit
    <3> HIDE DEF c, e
    <3>3. page'[w] = [p EXCEPT !.commitCall = c, !.commitError = e]
      BY <1>0, <1>1, <3>2 DEF PagesInv, Page
    <3> QED BY <3>1, <3>3
  <2> DEFINE q == [p EXCEPT !.commitCall = call, !.commitError = error]
  <2>2. p.step = "commit" /\ p.importedCount = Null /\ p.preview # Null
    BY <1>0 DEF CallCommit
  <2>3. q \in Page
    BY <1>1 DEF Page
  <2>4. Undisturbed(p)
    BY <1>1, <1>2, NobodyWaits, OthersUndisturbed
  <2>5. PageFits(p)'
    BY <1>1, <2>4, PageUndisturbed
  <2>6. PageFits(q)'
    BY <1>1, <1>3, <2>1, <2>2, <2>3, <2>5, WizardAssumption DEF Page, PageFits
  <2>7. OwnResult(q)'
    BY <1>1, <1>3, <2>1, <2>2, WizardAssumption DEF Page, OwnResult
  <2>8. page'[w] = q
    BY <2>1
  <2> HIDE DEF q
  <2> QED BY <1>4, <2>6, <2>7, <2>8, PageBecomes
<1>5. CASE x # w
  <2>1. PICK q : q = page[x]
    OBVIOUS
  <2>2. page'[x] = page[x]
    BY <1>5 DEF CallCommit, PagesInv
  <2>3. q \in Page /\ PageFits(q)
    BY <2>1 DEF PagesInv, PageFits
  <2>4. Undisturbed(q)
    BY <1>2, <2>3, NobodyWaits, OthersUndisturbed
  <2> QED BY <2>1, <2>2, <2>4, PageSame
<1> QED BY <1>4, <1>5

----------------------------------------------------------------------------
\* The answers

\* Whoever does not wait for the handler hears nothing.
LEMMA OnlyWaitingPagesHear ==
  ASSUME StoreInv, PagesInv, WorldGrows, Recall, NEW h \in Handler, OthersGoOn(h),
         NEW x \in Wizard, page'[x] = page[x], h \notin {page[x].previewCall, page[x].commitCall}
  PROVE  PageKept(x)
<1>1. PICK q : q = page[x]
  OBVIOUS
<1>2. q \in Page /\ PageFits(q)
  BY <1>1 DEF PagesInv, PageFits
<1>3. Undisturbed(q)
  BY <1>1, <1>2, OthersUndisturbed
<1> QED BY <1>1, <1>3, PageSame

LEMMA LostFits ==
  ASSUME NEW p, NEW calls, PageFits(p)
  PROVE  /\ PageFits(Lost(p, calls)) /\ (OwnResult(p) => OwnResult(Lost(p, calls)))
         /\ \A h \in calls \cap Handler :
              h \notin {Lost(p, calls).previewCall, Lost(p, calls).commitCall}
<1>1. PICK q : q = Lost(p, calls)
  OBVIOUS
<1>2. p \in Page
  BY DEF PageFits
<1>3. q = [p EXCEPT !.previewCall = q.previewCall, !.commitError = q.commitError,
                    !.commitCall = q.commitCall]
  BY <1>1, <1>2 DEF Lost, Page
<1>4. /\ q.previewCall = IF p.previewCall \in calls THEN Null ELSE p.previewCall
      /\ q.commitCall = IF p.commitCall \in calls THEN Null ELSE p.commitCall
      /\ q.commitError = IF p.commitCall \in calls THEN "INTERNAL_ERROR" ELSE p.commitError
  BY <1>1, <1>2 DEF Lost, Page
<1>5. /\ q \in Page
      /\ q.step = p.step /\ q.preview = p.preview /\ q.mapping = p.mapping
      /\ q.importedCount = p.importedCount
  BY <1>2, <1>3, <1>4 DEF Page
<1>6. PageFits(q)
  BY <1>4, <1>5 DEF PageFits
<1>7. OwnResult(p) => OwnResult(q)
  BY <1>4, <1>5 DEF OwnResult
<1>8. \A h \in calls \cap Handler : h \notin {q.previewCall, q.commitCall}
  BY <1>4, WizardAssumption
<1> QED BY <1>1, <1>6, <1>7, <1>8

\* A page that loses its calls, while the other handlers go on.
LEMMA LosersKept ==
  ASSUME StoreInv, PagesInv, WorldGrows, Recall, NEW calls \in SUBSET Handler,
         \A g \in Handler \ calls : handler'[g] = handler[g],
         NEW x \in Wizard, page'[x] = Lost(page[x], calls)
  PROVE  PageKept(x)
<1>1. PICK q : q = Lost(page[x], calls)
  OBVIOUS
<1>2. PageFits(page[x]) /\ (x \notin strayed => OwnResult(page[x]))
  BY DEF PagesInv
<1>3. /\ PageFits(q) /\ (x \notin strayed => OwnResult(q))
      /\ \A h \in calls : h \notin {q.previewCall, q.commitCall}
  BY <1>1, <1>2, LostFits
<1>4. Undisturbed(q)
  BY <1>3 DEF Undisturbed, WorksOn, PageFits, Page
<1> QED BY <1>1, <1>3, <1>4, PageUndisturbed, PageBecomes

\* Columns as the mapping step shows them.
LEMMA MappingFits ==
  ASSUME NEW columns, ColumnsFit(columns)
  PROVE  ToMapping(columns) \in Override /\ SerialFits(ToMapping(columns)["serialNumber"])
<1>1. ToMapping(columns) = [field \in Field |-> ToMapping(columns)[field]]
  BY DEF ToMapping
<1>2. \A field \in Field :
        /\ ToMapping(columns)[field] \in Nat \cup {Null, Unsaid}
        /\ ToMapping(columns)[field] \in {Unsaid, columns[field]}
  BY DEF ToMapping, ColumnsFit
<1>3. "serialNumber" \in Field
  BY DEF Field
<1>4. SerialFits(ToMapping(columns)["serialNumber"])
  BY <1>2, <1>3 DEF ColumnsFit, SerialFits
<1>5. ToMapping(columns) \in Override
  BY <1>1, <1>2 DEF Override
<1> QED BY <1>4, <1>5

\* A page that hears the answer to its preview.
LEMMA PreviewedFits ==
  ASSUME NEW p, PageFits(p), p.previewCall # Null,
         NEW preview \in Preview \cup {Null},
         NEW header \in Header, NEW columns, ColumnsFit(columns),
         NEW q, q = Previewed(p, preview, header, columns)
  PROVE  /\ q \in Page /\ SerialFits(q.mapping["serialNumber"])
         /\ q.preview = preview
         /\ q.step = IF p.step = "file" THEN "mapping" ELSE "review"
         /\ q.previewCall = Null /\ q.commitCall = p.commitCall
         /\ q.importedCount = p.importedCount
<1>1. p \in Page /\ p.step \in {"file", "mapping"} /\ SerialFits(p.mapping["serialNumber"])
  BY DEF PageFits
<1>2. PICK mapping \in Override :
        mapping = ToMapping(columns) /\ SerialFits(mapping["serialNumber"])
  BY MappingFits
<1>3. CASE p.step = "file"
  <2>1. q = [p EXCEPT !.preview = preview, !.header = header, !.mapping = mapping,
                      !.step = "mapping", !.previewCall = Null]
    BY <1>2, <1>3 DEF Previewed
  <2>2. /\ q.mapping = mapping /\ q.preview = preview /\ q.step = "mapping"
        /\ q.previewCall = Null /\ q.commitCall = p.commitCall
        /\ q.importedCount = p.importedCount
    BY <1>1, <2>1 DEF Page
  <2>3. q \in Page
    <3> DEFINE asked == [p EXCEPT !.preview = preview, !.header = header]
    <3>1. asked \in Page
      BY <1>1 DEF Page, Preview
    <3>2. q = [asked EXCEPT !.mapping = mapping, !.step = "mapping", !.previewCall = Null]
      BY <2>1
    <3> HIDE DEF asked
    <3> QED BY <3>1, <3>2 DEF Page, Step
  <2> QED BY <1>2, <1>3, <2>2, <2>3
<1>4. CASE p.step # "file"
  <2>1. q = [p EXCEPT !.preview = preview, !.header = header,
                      !.step = "review", !.previewCall = Null]
    BY <1>4 DEF Previewed
  <2> QED BY <1>1, <1>4, <2>1 DEF Page, Step
<1> QED BY <1>3, <1>4

\* Everything of a page that hears an answer, but for what it now shows.
LEMMA HearingPage ==
  ASSUME StoreInv, PagesInv, WorldGrows, NEW h \in Handler, OthersGoOn(h),
         NEW x \in Wizard, h \in {page[x].previewCall, page[x].commitCall}
  PROVE  /\ page[x] \in Page /\ PageFits(page[x])
         /\ x \notin strayed => OwnResult(page[x])
         /\ handler[h].kind = "preview" =>
              page[x].previewCall = h /\ page[x].commitCall # h
              /\ page[x].step \in {"file", "mapping"}
         /\ handler[h].kind = "commit" => page[x].commitCall = h /\ page[x].previewCall # h
         /\ \A c \in {page[x].previewCall, page[x].commitCall} \ {h, Null} :
              handler'[c] = handler[c]
<1>1. page[x] \in Page /\ PageFits(page[x]) /\ (x \notin strayed => OwnResult(page[x]))
  BY DEF PagesInv, PageFits
<1>2. h # Null
  BY WizardAssumption
<1>3. \A c \in {page[x].previewCall, page[x].commitCall} \ {h, Null} : handler'[c] = handler[c]
  BY <1>1 DEF OthersGoOn, Page
<1> QED BY <1>1, <1>2, <1>3 DEF PageFits

LEMMA AnswerPreviewKeepsPages ==
  ASSUME ImportInv, StoreInv, RequestsInv, PagesInv, WorldGrows, Recall,
         NEW h \in Handler, NEW i \in ImportId, AnswerPreview(h, i), NEW x \in Wizard
  PROVE  PageKept(x)
<1>0. PICK p : p = page[x]
  OBVIOUS
<1>1. /\ StagePreview(h, i) /\ handler[h].kind = "preview" /\ handler[h].next = "serialNumber"
      /\ i \in issued'
  BY DEF AnswerPreview, StagePreview
<1>2. OthersGoOn(h)
  BY <1>1 DEF StagePreview, OthersGoOn, ImportInv, HandlerInv
<1>3. PICK rows : rows = ValidRows(handler[h]) /\ rows \subseteq Row /\ staged'[i] = rows
  BY <1>1, PreviewsAreTyped, StagingKeepsStore
<1>4. PICK header \in Header, columns \in [Field -> Nat \cup {Null}] :
        /\ header = Content[handler[h].file].header /\ columns = handler[h].columns
        /\ ColumnsFit(columns)
  BY <1>1, ImportAssumption DEF RequestsInv, RequestFits, ColumnsFit
<1>5. CASE h \notin {p.previewCall, p.commitCall}
  BY <1>0, <1>2, <1>5, OnlyWaitingPagesHear DEF AnswerPreview, Hear
<1>6. CASE h \in {p.previewCall, p.commitCall}
  <2> DEFINE preview == [import |-> i, rows |-> rows]
  <2>1. PICK q : q = Previewed(p, preview, header, columns)
    OBVIOUS
  <2>2. page'[x] = q
    BY <1>0, <1>3, <1>4, <1>6, <2>1 DEF AnswerPreview, Hear
  <2>3. /\ PageFits(p) /\ (x \notin strayed => OwnResult(p)) /\ p.previewCall = h
        /\ p.step \in {"file", "mapping"} /\ h # Null
        /\ p.commitCall # Null => handler'[p.commitCall] = handler[p.commitCall]
    BY <1>0, <1>1, <1>2, <1>6, HearingPage, WizardAssumption
  <2>4. preview \in Preview \cup {Null}
    BY <1>3 DEF Preview
  <2>5. preview # Null
    BY <1>3, WizardAssumption DEF Preview
  <2>6. /\ q \in Page /\ SerialFits(q.mapping["serialNumber"])
        /\ q.preview = preview
        /\ q.step = IF p.step = "file" THEN "mapping" ELSE "review"
        /\ q.previewCall = Null /\ q.commitCall = p.commitCall
        /\ q.importedCount = p.importedCount
    <3> HIDE DEF preview
    <3> QED BY <1>4, <2>1, <2>3, <2>4, PreviewedFits
  <2>7. preview.import = i /\ preview.rows = rows
    OBVIOUS
  <2> HIDE DEF preview
  <2>8. q.step = "review" => i \in shown'
    BY <2>2, <2>5, <2>6, <2>7 DEF Recall, Reviewing
  <2>9. q.commitCall # Null => handler'[q.commitCall].kind = "commit"
    BY <2>3, <2>6 DEF PageFits
  <2>10. PageFits(q)'
    BY <1>1, <1>3, <2>3, <2>5, <2>6, <2>7, <2>8, <2>9 DEF PageFits
  <2>11. x \notin strayed => OwnResult(q)'
    BY <2>3, <2>6 DEF OwnResult
  <2> QED BY <2>2, <2>10, <2>11, PageBecomes
<1> QED BY <1>5, <1>6

LEMMA AnswerRefusalKeepsPages ==
  ASSUME ImportInv, StoreInv, RequestsInv, PagesInv, WorldGrows, Recall,
         NEW h \in Handler, AnswerRefusal(h), NEW x \in Wizard
  PROVE  PageKept(x)
<1>0. PICK p : p = page[x]
  OBVIOUS
<1>1. RefuseHeader(h) /\ handler[h].kind = "preview"
  BY DEF AnswerRefusal, RefuseHeader
<1>2. OthersGoOn(h)
  BY <1>1 DEF RefuseHeader, OthersGoOn, ImportInv, HandlerInv
<1>3. PICK header \in Header, columns \in [Field -> Nat \cup {Null}] :
        /\ header = Content[handler[h].file].header /\ columns = handler[h].columns
        /\ ColumnsFit(columns)
  BY <1>1, ImportAssumption DEF RequestsInv, RequestFits, ColumnsFit
<1>4. CASE h \notin {p.previewCall, p.commitCall}
  BY <1>0, <1>2, <1>4, OnlyWaitingPagesHear DEF AnswerRefusal, Hear
<1>5. CASE h \in {p.previewCall, p.commitCall}
  <2>1. page'[x] = Unmapped(p, header, columns)
    BY <1>0, <1>3, <1>5 DEF AnswerRefusal, Hear
  <2>2. /\ p \in Page /\ PageFits(p) /\ (x \notin strayed => OwnResult(p)) /\ p.previewCall = h
        /\ p.step \in {"file", "mapping"} /\ h # Null
        /\ p.commitCall # Null => handler'[p.commitCall] = handler[p.commitCall]
    BY <1>0, <1>1, <1>2, <1>5, HearingPage, WizardAssumption
  <2>3. CASE p.step = "file" /\ header # <<>>
    <3>1. PICK q : q = Previewed(p, Null, header, columns)
      OBVIOUS
    <3>2. page'[x] = q
      BY <2>1, <2>3, <3>1 DEF Unmapped
    <3>3. /\ q \in Page /\ SerialFits(q.mapping["serialNumber"])
          /\ q.preview = Null /\ q.step = "mapping"
          /\ q.previewCall = Null /\ q.commitCall = p.commitCall
          /\ q.importedCount = p.importedCount
      <4>1. PICK nothing \in Preview \cup {Null} : nothing = Null
        OBVIOUS
      <4>2. q = Previewed(p, nothing, header, columns) /\ p.previewCall # Null
        BY <2>2, <3>1, <4>1
      <4>3. PageFits(p) /\ ColumnsFit(columns)
        BY <1>3, <2>2
      <4>4. /\ q \in Page /\ SerialFits(q.mapping["serialNumber"])
            /\ q.preview = nothing
            /\ q.step = IF p.step = "file" THEN "mapping" ELSE "review"
            /\ q.previewCall = Null /\ q.commitCall = p.commitCall
            /\ q.importedCount = p.importedCount
        BY <4>2, <4>3, PreviewedFits
      <4> QED BY <2>3, <4>1, <4>4
    <3>4. PageFits(q)'
      BY <2>2, <3>3 DEF PageFits
    <3>5. x \notin strayed => OwnResult(q)'
      BY <2>2, <3>3 DEF OwnResult
    <3> QED BY <3>2, <3>4, <3>5, PageBecomes
  <2>4. CASE ~ (p.step = "file" /\ header # <<>>)
    <3>1. PICK q : q = [p EXCEPT !.previewCall = Null]
      OBVIOUS
    <3>2. page'[x] = q
      BY <2>1, <2>4, <3>1 DEF Unmapped
    <3>3. q \in Page
      BY <2>2, <3>1 DEF Page
    <3>4. PageFits(q) /\ (OwnResult(p) => OwnResult(q))
      BY <2>2, <3>1, <3>3 DEF Page, PageFits, OwnResult
    <3>5. Undisturbed(q)
      BY <2>2, <3>1 DEF Page, Undisturbed, WorksOn
    <3> QED BY <2>2, <3>2, <3>4, <3>5, PageUndisturbed, PageBecomes
  <2> QED BY <2>3, <2>4
<1> QED BY <1>4, <1>5

LEMMA AnswerCommitKeepsPages ==
  ASSUME ImportInv, StoreInv, RequestsInv, PagesInv, WorldGrows, Recall,
         NEW h \in Handler, AnswerCommit(h), NEW x \in Wizard
  PROVE  PageKept(x)
<1>0. PICK p : p = page[x]
  OBVIOUS
<1>1. ForgetImport(h) /\ handler[h].kind = "commit" /\ handler[h].at = "forget"
  BY DEF AnswerCommit, ForgetImport
<1>2. OthersGoOn(h)
  BY <1>1 DEF ForgetImport, OthersGoOn, ImportInv, HandlerInv
<1>3. PICK count : count = Cardinality(handler[h].rows)
  OBVIOUS
<1>4. CASE h \notin {p.previewCall, p.commitCall}
  BY <1>0, <1>2, <1>4, OnlyWaitingPagesHear DEF AnswerCommit, Hear
<1>5. CASE h \in {p.previewCall, p.commitCall}
  <2>1. PICK q : q = [p EXCEPT !.commitCall = Null, !.importedCount = count]
    OBVIOUS
  <2>2. page'[x] = q
    BY <1>0, <1>3, <1>5, <2>1 DEF AnswerCommit, Hear, Committed
  <2>3. /\ p \in Page /\ PageFits(p) /\ (x \notin strayed => OwnResult(p)) /\ p.commitCall = h
        /\ h # Null
        /\ p.previewCall # Null => handler'[p.previewCall] = handler[p.previewCall]
    BY <1>0, <1>1, <1>2, <1>5, HearingPage, WizardAssumption
  <2>4. PICK i \in ImportId :
          /\ i = handler[h].import /\ handler[h].rows = staged[i] /\ Imported(i)
          /\ IsFiniteSet(staged[i])
    BY <1>1 DEF RequestsInv, RequestFits, StoreInv
  <2>5. count \in Nat
    BY <1>3, <2>4, FS_CardinalityType
  <2>6. q \in Page
    BY <2>1, <2>3, <2>5 DEF Page
  <2>7. /\ q.step = p.step /\ q.preview = p.preview /\ q.mapping = p.mapping
        /\ q.previewCall = p.previewCall /\ q.commitCall = Null /\ q.importedCount = count
    BY <2>1, <2>3 DEF Page
  <2>8. PageFits(q)
    BY <2>3, <2>6, <2>7 DEF PageFits
  <2>9. Undisturbed(q)
    BY <2>3, <2>7 DEF Undisturbed, WorksOn
  <2>10. x \notin strayed => OwnResult(q)
    <3> SUFFICES ASSUME x \notin strayed PROVE OwnResult(q)
      OBVIOUS
    <3>1. p.step = "commit" /\ i = p.preview.import
      BY <2>3, <2>4 DEF OwnResult
    <3>2. p.preview.rows = staged[i]
      BY <2>3, <3>1 DEF PageFits
    <3> QED BY <1>3, <2>4, <2>7, <3>1, <3>2 DEF OwnResult
  <2> QED BY <2>2, <2>8, <2>9, <2>10, PageUndisturbed, PageBecomes
<1> QED BY <1>4, <1>5

LEMMA AnswerCollisionKeepsPages ==
  ASSUME ImportInv, StoreInv, RequestsInv, PagesInv, WorldGrows, Recall,
         NEW h \in Handler, AnswerCollision(h), NEW x \in Wizard
  PROVE  PageKept(x)
<1>0. PICK p : p = page[x]
  OBVIOUS
<1>1. RefuseCollision(h) /\ handler[h].kind = "commit"
  BY DEF AnswerCollision, RefuseCollision
<1>2. OthersGoOn(h)
  BY <1>1 DEF RefuseCollision, OthersGoOn, ImportInv, HandlerInv
<1>4. CASE h \notin {p.previewCall, p.commitCall}
  BY <1>0, <1>2, <1>4, OnlyWaitingPagesHear DEF AnswerCollision, Hear
<1>5. CASE h \in {p.previewCall, p.commitCall}
  <2>1. PICK q :
          q = [p EXCEPT !.commitCall = Null, !.commitError = "IMPORT_VALIDATION_FAILED"]
    OBVIOUS
  <2>2. page'[x] = q
    BY <1>0, <1>5, <2>1 DEF AnswerCollision, Hear, CommitFailed
  <2>3. /\ p \in Page /\ PageFits(p) /\ (x \notin strayed => OwnResult(p)) /\ p.commitCall = h
        /\ p.previewCall # Null => handler'[p.previewCall] = handler[p.previewCall]
    BY <1>0, <1>1, <1>2, <1>5, HearingPage
  <2>4. q \in Page
    BY <2>1, <2>3 DEF Page
  <2>5. PageFits(q) /\ (OwnResult(p) => OwnResult(q))
    BY <2>1, <2>3, <2>4 DEF Page, PageFits, OwnResult
  <2>6. Undisturbed(q)
    BY <2>1, <2>3 DEF Page, Undisturbed, WorksOn
  <2> QED BY <2>2, <2>3, <2>5, <2>6, PageUndisturbed, PageBecomes
<1> QED BY <1>4, <1>5

LEMMA FailingKeepsPages ==
  ASSUME ImportInv, StoreInv, PagesInv, WorldGrows, Recall,
         NEW h \in Handler, AnswerFailure(h) \/ LoseConnection(h), NEW x \in Wizard
  PROVE  PageKept(x)
<1>1. OthersGoOn(h)
  BY DEF AnswerFailure, LoseConnection, HandlerFails, OthersGoOn, ImportInv, HandlerInv, vars,
         importVars
<1>2. page'[x] = IF h \in {page[x].previewCall, page[x].commitCall}
                   THEN Lost(page[x], {h}) ELSE page[x]
  BY DEF AnswerFailure, LoseConnection, Hear
<1>3. CASE h \in {page[x].previewCall, page[x].commitCall}
  BY <1>1, <1>2, <1>3, LosersKept DEF OthersGoOn
<1>4. CASE h \notin {page[x].previewCall, page[x].commitCall}
  BY <1>1, <1>2, <1>4, OnlyWaitingPagesHear
<1> QED BY <1>3, <1>4

LEMMA WorkingKeepsPages ==
  ASSUME ImportInv, StoreInv, PagesInv, WorldGrows, Recall, UNCHANGED page,
         NEW h \in Handler, ReadReferences(h) \/ InsertUnits(h), NEW x \in Wizard
  PROVE  PageKept(x)
<1>1. OthersGoOn(h)
  BY DEF ReadReferences, InsertUnits, OthersGoOn, ImportInv, HandlerInv
<1>2. WorksOn(h)
  <2>1. CASE ReadReferences(h)
    BY <2>1, ReadingStays DEF WorksOn, ReadReferences
  <2>2. CASE InsertUnits(h)
    BY <2>2, InsertingStays DEF WorksOn, InsertUnits
  <2> QED BY <2>1, <2>2
<1>3. \A g \in Handler : WorksOn(g)
  BY <1>1, <1>2 DEF OthersGoOn, WorksOn
<1>4. PICK q : q = page[x]
  OBVIOUS
<1>5. q \in Page
  BY <1>4 DEF PagesInv, PageFits
<1>6. Undisturbed(q)
  BY <1>3, <1>5 DEF Undisturbed, Page
<1> QED BY <1>4, <1>6, PageSame

LEMMA HandlersUntouchedKeepPages ==
  ASSUME StoreInv, PagesInv, WorldGrows, Recall, UNCHANGED <<page, handler>>, NEW x \in Wizard
  PROVE  PageKept(x)
<1>1. PICK q : q = page[x]
  OBVIOUS
<1>2. Undisturbed(q)
  BY DEF Undisturbed, WorksOn
<1> QED BY <1>1, <1>2, PageSame

LEMMA EveryStepKeepsPages ==
  ASSUME ImportInv, StoreInv, RequestsInv, PagesInv, WorldGrows, WizardNext, Recall,
         NEW x \in Wizard
  PROVE  PageKept(x)
<1>1. ASSUME NEW w \in Wizard, UserStep(w) PROVE PageKept(x)
  BY <1>1, UserKeepsPages, CallPreviewKeepsPages, CallCommitKeepsPages DEF UserStep
<1>2. ASSUME NEW h \in Handler, HandlerStep(h) PROVE PageKept(x)
  BY <1>2, WorkingKeepsPages, AnswerPreviewKeepsPages, AnswerRefusalKeepsPages,
     AnswerCommitKeepsPages, AnswerCollisionKeepsPages, FailingKeepsPages DEF HandlerStep
<1>3. CASE RestartUnderPages
  <2>1. page'[x] = Lost(page[x], Handler)
    BY <1>3 DEF RestartUnderPages
  <2> QED BY <2>1, LosersKept
<1>4. CASE \E k \in Keeper : CatalogueStep(k) /\ UNCHANGED <<importVars, page>>
  BY <1>4, HandlersUntouchedKeepPages DEF importVars
<1>5. CASE \E i \in ImportId : GrowStale(i) /\ UNCHANGED page
  BY <1>5, HandlersUntouchedKeepPages DEF GrowStale
<1> QED BY <1>1, <1>2, <1>3, <1>4, <1>5 DEF WizardNext

LEMMA PagesStayAFunction ==
  ASSUME PagesInv, WizardNext
  PROVE  page' = [w \in Wizard |-> page'[w]]
<1>1. ASSUME NEW w \in Wizard, UserStep(w) PROVE page' = [x \in Wizard |-> page'[x]]
  <2>1. DOMAIN page = Wizard
    BY DEF PagesInv
  <2> QED BY <1>1, <2>1 DEF UserStep, ChooseFile, EditMapping, Back, Proceed, LeavePage,
                            CallPreview, CallCommit, PagesInv
<1>2. ASSUME NEW h \in Handler, HandlerStep(h) PROVE page' = [x \in Wizard |-> page'[x]]
  BY <1>2 DEF HandlerStep, AnswerPreview, AnswerRefusal, AnswerCommit, AnswerCollision,
              AnswerFailure, LoseConnection, Hear, PagesInv
<1>3. RestartUnderPages => page' = [x \in Wizard |-> page'[x]]
  BY DEF RestartUnderPages
<1>4. UNCHANGED page => page' = [x \in Wizard |-> page'[x]]
  BY DEF PagesInv
<1> QED BY <1>1, <1>2, <1>3, <1>4 DEF WizardNext

----------------------------------------------------------------------------
\* The invariant holds

LEMMA InitWizardInv == HistoryInit => WizardInv
<1> SUFFICES ASSUME HistoryInit PROVE WizardInv
  OBVIOUS
<1>1. ImportInv
  BY InitImportInv DEF HistoryInit, WizardInit
<1>2. StoreInv
  BY FS_EmptySet DEF HistoryInit, WizardInit, ImportInit, StoreInv
<1>3. RequestsInv
  BY DEF HistoryInit, WizardInit, ImportInit, RequestsInv, RequestFits, Idle
<1>4. WholeInv
  BY WizardAssumption
     DEF HistoryInit, WizardInit, ImportInit, CatalogueInit, WholeInv, Imported
<1>5. PagesInv
  BY NewPageFits DEF HistoryInit, WizardInit, PagesInv
<1> QED BY <1>1, <1>2, <1>3, <1>4, <1>5 DEF WizardInv

LEMMA WizardInvStep ==
  ASSUME WizardInv, [WizardNext /\ Recall]_<<wizardVars, historyVars>>
  PROVE  WizardInv'
<1>1. CASE UNCHANGED <<wizardVars, historyVars>>
  <2>1. ImportInv'
    BY <1>1, ImportInvStep DEF WizardInv, wizardVars
  <2>2. StoreInv' /\ WholeInv'
    BY <1>1 DEF WizardInv, wizardVars, historyVars, vars, catalogueVars, importVars, StoreInv,
                WholeInv, Imported
  <2>3. RequestsInv'
    BY <1>1 DEF WizardInv, wizardVars, historyVars, vars, catalogueVars, importVars,
                RequestsInv, RequestFits, Imported
  <2>4. PagesInv'
    BY <1>1 DEF WizardInv, wizardVars, historyVars, vars, catalogueVars, importVars, PagesInv,
                PageFits, OwnResult, Imported
  <2> QED BY <2>1, <2>2, <2>3, <2>4 DEF WizardInv
<1>2. CASE WizardNext /\ Recall
  <2>1. ApiMove
    BY <1>2, PagesAskWhatTheyMay DEF WizardInv
  <2>2. WorldGrows
    BY <1>2, <2>1, TheWorldGrows DEF WizardInv
  <2>3. ImportInv' /\ StoreInv' /\ RequestsInv' /\ WholeInv'
    BY <1>2, <2>1, <2>2, ImportInvKept, StoreKept, RequestsKept, WholeKept DEF WizardInv
  <2>4. \A w \in Wizard : PageKept(w)
    BY <1>2, <2>2, EveryStepKeepsPages DEF WizardInv
  <2>5. PagesInv'
    BY <1>2, <2>4, PagesStayAFunction DEF WizardInv, PagesInv, PageKept
  <2> QED BY <2>3, <2>5 DEF WizardInv
<1> QED BY <1>1, <1>2

LEMMA WizardInvHolds == ImportHistorySpec => []WizardInv
<1>1. WizardInv /\ [WizardNext /\ Recall]_<<wizardVars, historyVars>> => WizardInv'
  BY WizardInvStep
<1> QED BY <1>1, InitWizardInv, PTL DEF ImportHistorySpec

\* The pages and the catalogue keep their types, whatever the users do, whichever
\* answers are lost and whenever the API restarts: a page that shows rows has the
\* number of an import that was given out (ImportWizardPage.tsx:22-40).
THEOREM ImportPagesKeepTheirTypes == ImportHistorySpec => []TypeOK
<1>1. WizardInv => TypeOK
  BY DEF WizardInv, ImportInv, CatalogueInv, PagesInv, PageFits, TypeOK
<1> QED BY <1>1, WizardInvHolds, PTL

\* An import is in the catalogue with all its rows or with none, however many
\* pages confirm it, and however often (imports.service.ts:345-369).
THEOREM ImportsStayWhole == ImportHistorySpec => []ImportsAreWhole
<1>1. WizardInv => ImportsAreWhole
  BY DEF WizardInv, WholeInv, ImportsAreWhole
<1> QED BY <1>1, WizardInvHolds, PTL

\* What has been listed of an import is what the review step lists of its rows.
ListedInv ==
  /\ listed \in [ImportId -> SUBSET Row]
  /\ shown \subseteq issued
  /\ \A i \in ImportId : listed[i] = IF i \in shown THEN Listed(staged[i]) ELSE {}

LEMMA SubsetOfSize ==
  ASSUME NEW S, IsFiniteSet(S), NEW n \in Nat, n <= Cardinality(S)
  PROVE  \E T \in SUBSET S : Cardinality(T) = n
<1>1. Cardinality(S) \in Nat /\ ExistsBijection(1..Cardinality(S), S)
  BY FS_CardinalityType
<1>2. PICK f : f \in Bijection(1..Cardinality(S), S)
  BY <1>1 DEF ExistsBijection
<1> DEFINE T == {f[i] : i \in 1..n}
           g == [i \in 1..n |-> f[i]]
<1>3. /\ f \in [1..Cardinality(S) -> S] /\ 1..n \subseteq 1..Cardinality(S)
      /\ \A i, j \in 1..Cardinality(S) : f[i] = f[j] => i = j
  BY <1>1, <1>2 DEF Bijection, Injection, Surjection, IsInjective
<1>4. g \in [1..n -> T] /\ \A i, j \in 1..n : g[i] = g[j] => i = j
  BY <1>3
<1>5. \A x \in T : \E i \in 1..n : g[i] = x
  OBVIOUS
<1>6. T \in SUBSET S
  BY <1>3
<1> HIDE DEF T, g
<1>7. g \in Bijection(1..n, T)
  BY <1>4, <1>5 DEF Bijection, Injection, Surjection, IsInjective
<1>8. Cardinality(T) = n
  BY <1>7, FS_CountingElements DEF ExistsBijection
<1> QED BY <1>6, <1>8

\* The review step lists all rows if they fit, and else as many as it lists at all.
LEMMA ListedRows ==
  ASSUME NEW rows, IsFiniteSet(rows)
  PROVE  /\ Listed(rows) \in SUBSET rows
         /\ Cardinality(rows) <= SampleSize => Listed(rows) = rows
         /\ Cardinality(rows) > SampleSize => Cardinality(Listed(rows)) = SampleSize
<1>0. SampleSize \in Nat /\ Cardinality(rows) \in Nat
  BY WizardAssumption, FS_CardinalityType
<1>1. CASE Cardinality(rows) <= SampleSize
  BY <1>0, <1>1 DEF Listed
<1>2. CASE ~(Cardinality(rows) <= SampleSize)
  <2>1. \E sample \in SUBSET rows : Cardinality(sample) = SampleSize
    BY <1>0, <1>2, SubsetOfSize
  <2>2. Listed(rows) \in SUBSET rows /\ Cardinality(Listed(rows)) = SampleSize
    BY <1>2, <2>1, Zenon DEF Listed
  <2> QED BY <1>2, <2>2
<1> QED BY <1>1, <1>2

LEMMA ListedStepKeeps ==
  ASSUME WizardInv, WizardInv', ListedInv,
         [WizardNext /\ Recall]_<<wizardVars, historyVars>>
  PROVE  ListedInv'
<1>1. CASE UNCHANGED <<wizardVars, historyVars>>
  BY <1>1 DEF ListedInv, wizardVars, historyVars, vars, importVars
<1>2. CASE WizardNext /\ Recall
  <2>1. issued \subseteq issued' /\ \A i \in issued : staged'[i] = staged[i]
    <3>1. ApiMove
      BY <1>2, PagesAskWhatTheyMay DEF WizardInv
    <3> QED BY <1>2, <3>1, TheWorldGrows DEF WizardInv, WorldGrows
  <2>2. ASSUME NEW w \in Reviewing'
        PROVE  /\ page'[w].preview.import \in issued' /\ issued' \subseteq ImportId
               /\ page'[w].preview.rows = staged'[page'[w].preview.import]
    BY <2>2 DEF WizardInv, StoreInv, PagesInv, PageFits, Reviewing
  <2>3. shown' = shown \cup {page'[w].preview.import : w \in Reviewing'}
    BY <1>2 DEF Recall
  <2>4. shown' \subseteq issued'
    BY <2>1, <2>2, <2>3 DEF ListedInv
  <2>5. ASSUME NEW i \in ImportId
        PROVE  /\ listed'[i] = IF i \in shown' THEN Listed(staged'[i]) ELSE {}
               /\ listed'[i] \in SUBSET Row
    <3> DEFINE here == {x \in Reviewing' : page'[x].preview.import = i}
    <3>1. listed'[i] = listed[i] \cup UNION {Listed(page'[w].preview.rows) : w \in here}
      BY <1>2 DEF Recall
    <3>2. \A w \in here : Listed(page'[w].preview.rows) = Listed(staged'[i])
      BY <2>2
    <3>3. i \in shown' <=> i \in shown \/ here # {}
      BY <2>3
    <3>4. i \in shown => listed[i] = Listed(staged'[i])
      BY <2>1 DEF ListedInv
    <3>5. i \notin shown => listed[i] = {}
      BY DEF ListedInv
    <3> HIDE DEF here
    <3>6. listed'[i] = IF i \in shown' THEN Listed(staged'[i]) ELSE {}
      <4>1. CASE here = {}
        BY <3>1, <3>3, <3>4, <3>5, <4>1
      <4>2. CASE here # {}
        <5>1. UNION {Listed(page'[w].preview.rows) : w \in here} = Listed(staged'[i])
          BY <3>2, <4>2
        <5> QED BY <3>1, <3>3, <3>4, <3>5, <4>2, <5>1
      <4> QED BY <4>1, <4>2
    <3>7. Listed(staged'[i]) \in SUBSET Row
      <4>1. staged'[i] \in SUBSET Row /\ IsFiniteSet(staged'[i])
        BY DEF WizardInv, StoreInv
      <4> QED BY <4>1, ListedRows
    <3> QED BY <3>6, <3>7
  <2>6. listed' \in [ImportId -> SUBSET Row]
    <3>1. \E f : listed' = [i \in ImportId |-> f[i]]
      BY <1>2 DEF Recall
    <3> QED BY <2>5, <3>1
  <2> QED BY <2>4, <2>5, <2>6 DEF ListedInv
<1> QED BY <1>1, <1>2

\* Whoever confirms an import has had the preview of that very import in the review
\* step, with every valid row listed, or as many of them as the step lists at all:
\* those beyond its cap are imported without having been seen one by one
\* (ImportWizardPage.tsx:61-66, 447-449).
THEOREM ReviewedBeforeImportedEver == ImportHistorySpec => []ReviewedBeforeImported
<1>1. HistoryInit => ListedInv
  BY DEF HistoryInit, ListedInv
<1>2. WizardInv /\ WizardInv' /\ ListedInv
        /\ [WizardNext /\ Recall]_<<wizardVars, historyVars>> => ListedInv'
  BY ListedStepKeeps
<1>3. WizardInv /\ ListedInv => ReviewedBeforeImported
  BY DEF WizardInv, WholeInv, ListedInv, ReviewedBeforeImported
<1> QED BY <1>1, <1>2, <1>3, WizardInvHolds, PTL DEF ImportHistorySpec

\* What the last step reports is the import of the preview it shows, as long as
\* its user did not go back while the commit was under way
\* (ImportWizardPage.tsx:529-545).
THEOREM ResultsAreOwnUnlessStrayed == ImportHistorySpec => []ResultIsOwnIfNotStrayed
<1>1. ASSUME WizardInv PROVE ResultIsOwnIfNotStrayed
  <2> SUFFICES ASSUME NEW w \in Wizard \ strayed,
                      page[w].importedCount # Null, page[w].step = "commit"
               PROVE  /\ \A r \in page[w].preview.rows : origin[r.serial] = page[w].preview.import
                      /\ page[w].importedCount = Cardinality(page[w].preview.rows)
    BY DEF ResultIsOwnIfNotStrayed
  <2>1. PageFits(page[w]) /\ OwnResult(page[w])
    BY <1>1 DEF WizardInv, PagesInv
  <2>2. /\ page[w].preview.import \in ImportId
        /\ page[w].preview.rows = staged[page[w].preview.import]
    BY <2>1 DEF PageFits, Page, Preview
  <2> QED BY <1>1, <2>1, <2>2 DEF WizardInv, WholeInv, OwnResult
<1> QED BY <1>1, WizardInvHolds, PTL
==============================================================================
