----------------------------- MODULE Catalogue -----------------------------
(***************************************************************************)
(* The catalogue of one organization (ProductsService): products, their    *)
(* variants and batches, and units, each known by its serial number.       *)
(*                                                                         *)
(* A handler reads what it refers to, writes one row and records an audit  *)
(* event, with an await after each.  No row is ever deleted, and no        *)
(* variant or batch moves to another product, so of everything a handler   *)
(* has read only the absence of a serial number can be out of date by the  *)
(* time it writes.                                                         *)
(***************************************************************************)
CONSTANTS
  Product, Variant, Batch,   \* ids; each also serves as the stable id of its row
  ProductOf,                 \* the product of every variant and batch
  Label,                     \* names and internal numbers
  InitialDetails,            \* the rows a behaviour starts with
  DetailPool,                \* per product, variant or batch: the details users give it
  EntryPool,                 \* the units users enter: <<serial number, row>>
  PatchPool,                 \* the changes they make to units: <<serial number, patch>>
  Serial,                    \* serial numbers
  Keeper,                    \* handlers of catalogue requests that may be in flight
  Crashes,                   \* whether the API process may die within a handler
  Null

Part == Variant \cup Batch
Item == Product \cup Part

\* What references are looked up by: internalProductNumber, internalVariantNumber
\* or internalReference, none of them unique; and the name.
Details == [number : Label \cup {Null}, name : Label]

Unit == [product : Product, variant : Variant \cup {Null}, batch : Batch \cup {Null}]

\* The parts of a unit that a later request may set, or clear.
Patch == UNION {[S -> Part \cup {Null}] : S \in SUBSET {"variant", "batch"}}

ASSUME CatalogueAssumption ==
  /\ Product \cap Part = {} /\ Variant \cap Batch = {} /\ Item \cap Serial = {}
  /\ ProductOf \in [Part -> Product]
  /\ InitialDetails \in [Item -> Details \cup {Null}]
  /\ \A x \in Part : InitialDetails[x] # Null => InitialDetails[ProductOf[x]] # Null
  /\ DetailPool \in [Item -> SUBSET Details]
  /\ EntryPool \subseteq Serial \X Unit
  /\ PatchPool \subseteq Serial \X Patch
  /\ Null \notin Item \cup Serial \cup Label \cup Details \cup Unit
  /\ Crashes \in BOOLEAN

VARIABLES
  details,    \* the row of every product, variant and batch, or Null
  unit,       \* the unit of every serial number, or Null
  work,       \* per keeper: the request it is working on
  audit       \* audit events recorded so far: <<action, object>>

catalogueVars == <<details, unit, work, audit>>

NoWork == [pc |-> "idle", object |-> Null, row |-> Null]

\* A request for an item carries its details, one for a new unit its row, and one
\* for a unit that exists a patch.
WorkRequest ==
  [pc : {"write", "audit"}, object : Item \cup Serial, row : Details \cup Unit \cup Patch]

CatalogueTypeOK ==
  /\ details \in [Item -> Details \cup {Null}]
  /\ unit \in [Serial -> Unit \cup {Null}]
  /\ work \in [Keeper -> WorkRequest \cup {NoWork}]

CatalogueInit ==
  /\ details = InitialDetails
  /\ unit = [s \in Serial |-> Null]
  /\ work = [k \in Keeper |-> NoWork]
  /\ audit = {}

----------------------------------------------------------------------------
Exists(x) == details[x] # Null

\* May x be a part of a unit of product p?  requireVariant and requireBatch.
Belongs(x, p) == x = Null \/ (x \in Part /\ Exists(x) /\ ProductOf[x] = p)

\* Mutant: a change replaces the row.
PatchOnly(u, patch) == patch

Patched(u, patch) ==
  [f \in DOMAIN u |-> IF f \in DOMAIN patch THEN patch[f] ELSE u[f]]

----------------------------------------------------------------------------
\* Requests: each reads and checks what its write depends on.

\* createProduct, createVariant, createBatch and their updates.  Whether a row
\* is created or updated shows only in the product it needs.
RequestItem(k, x, row) ==
  /\ work[k].pc = "idle"
  /\ row \in DetailPool[x]
  /\ x \in Part => Exists(ProductOf[x])
  /\ work' = [work EXCEPT ![k] = [pc |-> "write", object |-> x, row |-> row]]
  /\ UNCHANGED <<details, unit, audit>>

RequestNewUnit(k, s, u) ==
  /\ work[k].pc = "idle"
  /\ Exists(u.product) /\ Belongs(u.variant, u.product) /\ Belongs(u.batch, u.product)
  /\ unit[s] = Null
  /\ work' = [work EXCEPT ![k] = [pc |-> "write", object |-> s, row |-> u]]
  /\ UNCHANGED <<details, unit, audit>>

RequestPatch(k, s, patch) ==
  /\ work[k].pc = "idle"
  /\ unit[s] # Null
  /\ "variant" \in DOMAIN patch => patch["variant"] \in Variant \cup {Null}
  /\ "batch" \in DOMAIN patch => patch["batch"] \in Batch \cup {Null}
  /\ \A f \in DOMAIN patch : Belongs(patch[f], unit[s].product)
  /\ work' = [work EXCEPT ![k] = [pc |-> "write", object |-> s, row |-> patch]]
  /\ UNCHANGED <<details, unit, audit>>

----------------------------------------------------------------------------
WriteItem(k) ==
  /\ work[k].pc = "write" /\ work[k].object \in Item
  /\ details' = [details EXCEPT ![work[k].object] = work[k].row]
  /\ work' = [work EXCEPT ![k].pc = "audit"]
  /\ UNCHANGED <<unit, audit>>

\* The unique key on organization and serial number refuses a second unit.
WriteNewUnit(k) ==
  /\ work[k].pc = "write" /\ work[k].row \in Unit
  /\ IF unit[work[k].object] = Null
       THEN /\ unit' = [unit EXCEPT ![work[k].object] = work[k].row]
            /\ work' = [work EXCEPT ![k].pc = "audit"]
       ELSE /\ work' = [work EXCEPT ![k] = NoWork]
            /\ UNCHANGED unit
  /\ UNCHANGED <<details, audit>>

WritePatch(k) ==
  /\ work[k].pc = "write" /\ work[k].row \in Patch
  /\ unit' = [unit EXCEPT ![work[k].object] = Patched(@, work[k].row)]
  /\ work' = [work EXCEPT ![k].pc = "audit"]
  /\ UNCHANGED <<details, audit>>

RecordWork(k) ==
  /\ work[k].pc = "audit"
  /\ audit' = audit \cup {<<"CATALOGUE", work[k].object>>}
  /\ work' = [work EXCEPT ![k] = NoWork]
  /\ UNCHANGED <<details, unit>>

\* The process dies, or a query fails, between two awaits of a handler.
WorkFails(k) ==
  /\ Crashes
  /\ work[k].pc # "idle"
  /\ work' = [work EXCEPT ![k] = NoWork]
  /\ UNCHANGED <<details, unit, audit>>

CatalogueStep(k) ==
  \/ \E x \in Item : \E row \in DetailPool[x] : RequestItem(k, x, row)
  \/ \E e \in EntryPool : RequestNewUnit(k, e[1], e[2])
  \/ \E e \in PatchPool : RequestPatch(k, e[1], e[2])
  \/ WriteItem(k)
  \/ WriteNewUnit(k)
  \/ WritePatch(k)
  \/ RecordWork(k)
  \/ WorkFails(k)

----------------------------------------------------------------------------
\* The variant and the batch of a unit belong to its product, whether the unit
\* was entered by hand, changed or imported (products.service.ts:286-300,
\* 342-353; imports.service.ts:228-268).
UnitsConsistent ==
  \A s \in Serial : unit[s] # Null =>
    /\ Belongs(unit[s].variant, unit[s].product)
    /\ Belongs(unit[s].batch, unit[s].product)
============================================================================
