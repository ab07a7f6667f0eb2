------------------------------ MODULE Imports ------------------------------
(***************************************************************************)
(* Import of units from a CSV file (ImportsService, PendingImportStore):   *)
(* preview validates the rows against the catalogue as it is and keeps the *)
(* valid ones in memory; commit, up to half an hour later, inserts exactly *)
(* those, all or none.                                                     *)
(***************************************************************************)
EXTENDS Catalogue, Naturals, Sequences

CONSTANTS
  File,       \* uploaded files
  Content,    \* the header row and the other rows of every file
  ImportId,   \* ids of imports
  Handler,    \* handlers of import requests that may be in flight
  Bad,        \* a cell that is no date, a reference that names nothing
  Unsaid        \* a field the caller's column mapping does not mention

RefField == {"productReference", "variantReference", "batchReference"}

\* CANONICAL_FIELDS.  manufacturedAt stands for deliveredAt too; the internal
\* reference of a unit is stored as it is.
Field == RefField \cup {"serialNumber", "manufacturedAt"}

Row == [serial : Serial, product : Product,
        variant : Variant \cup {Null}, batch : Batch \cup {Null}]

\* A header cell is a field, by one of its aliases, or some other text.
Header == Seq(Field \cup {"other"})

ASSUME ImportAssumption ==
  /\ Bad \notin Item \cup Serial \cup Label \cup {Null}
  /\ Unsaid \notin Nat \cup {Null}
  /\ \A f \in File :
       /\ Content[f].header \in Header
       /\ Content[f].rows \in Seq(Seq(Item \cup Serial \cup Label \cup {Bad, Null}))

VARIABLES
  pending,   \* the rows of every import in the store, or Null
  stale,     \* imports staged more than TTL_MS ago
  issued,    \* import ids given out
  handler    \* per handler: the request it is working on

importVars == <<pending, stale, issued, handler>>
vars == <<catalogueVars, importVars>>

Idle == [kind |-> "idle"]

ImportInit ==
  /\ CatalogueInit
  /\ pending = [i \in ImportId |-> Null]
  /\ stale = {}
  /\ issued = {}
  /\ handler = [h \in Handler |-> Idle]

----------------------------------------------------------------------------
\* Reading the file

\* The first column with an alias of the field, or Null.
Detected(header, field) ==
  IF \E c \in DOMAIN header : header[c] = field
    THEN CHOOSE c \in DOMAIN header :
           /\ header[c] = field
           /\ \A d \in DOMAIN header : header[d] = field => c <= d
    ELSE Null

\* mapHeaders: what the caller says of a field comes first, unless it names no column.
Columns(header, override) ==
  [field \in Field |->
     IF override[field] = Null \/ override[field] \in DOMAIN header
       THEN override[field]
       ELSE Detected(header, field)]

NoOverride == [field \in Field |-> Unsaid]

RequiredMapped(columns) ==
  columns["serialNumber"] # Null /\ columns["productReference"] # Null

\* A blank cell, a column that is not mapped and a row that is too short give Null.
Cell(p, i, field) ==
  LET row == Content[p.file].rows[i]
      c   == p.columns[field]
  IN  IF c \in DOMAIN row THEN row[c] ELSE Null

Lines(p) ==
  {i \in DOMAIN Content[p.file].rows :
     \E c \in DOMAIN Content[p.file].rows[i] : Content[p.file].rows[i][c] # Null}

DuplicateInFile(p, i) ==
  \E j \in Lines(p) \ {i} : Cell(p, j, "serialNumber") = Cell(p, i, "serialNumber")

WellShaped(p, i) ==
  /\ Cell(p, i, "serialNumber") # Null
  /\ Cell(p, i, "productReference") # Null
  /\ Cell(p, i, "manufacturedAt") # Bad

----------------------------------------------------------------------------
\* Resolving references

Candidates(field) ==
  {x \in CASE field = "productReference" -> Product
          [] field = "variantReference" -> Variant
          [] field = "batchReference"   -> Batch : Exists(x)}

\* The entries under one product and text: a batch is entered once by its
\* reference and once by its name, even if they are the same text.
Hits(field, p, ref) ==
  {hit \in Candidates(field) \X {"number", "name"} :
     /\ details[hit[1]][hit[2]] = ref
     /\ hit[2] = "name" => field = "batchReference"
     /\ hit[1] \in Part => ProductOf[hit[1]] = p}

\* Mutant: a part found by its stable id is taken whatever product it belongs to.
ResolveAnywhere(field, p, ref) ==
  IF ref \in Candidates(field) THEN ref
  ELSE IF \E hit \in Hits(field, p, ref) : Hits(field, p, ref) = {hit}
         THEN (CHOOSE hit \in Hits(field, p, ref) : TRUE)[1]
         ELSE Bad

\* By stable id in the whole organization, else by number or name under the
\* product, if exactly one entry has it.
Resolve(field, p, ref) ==
  IF ref \in Candidates(field)
    THEN IF ref \in Part /\ ProductOf[ref] # p THEN Bad ELSE ref
  ELSE IF \E hit \in Hits(field, p, ref) : Hits(field, p, ref) = {hit}
         THEN (CHOOSE hit \in Hits(field, p, ref) : TRUE)[1]
         ELSE Bad

\* The references of one kind, row by row; parts only where the product is known.
Resolved(p, field) ==
  [i \in Lines(p) |->
     IF \/ Cell(p, i, field) = Null
        \/ field # "productReference" /\ p.found["productReference"][i] \in {Null, Bad}
       THEN Null
       ELSE Resolve(field,
              IF field = "productReference" THEN Null ELSE p.found["productReference"][i],
              Cell(p, i, field))]

ValidLines(p) ==
  {i \in Lines(p) :
     /\ WellShaped(p, i)
     /\ ~ DuplicateInFile(p, i)
     /\ \A field \in RefField : p.found[field][i] # Bad
     /\ unit[Cell(p, i, "serialNumber")] = Null}

ValidRows(p) ==
  {[serial  |-> Cell(p, i, "serialNumber"),
    product |-> p.found["productReference"][i],
    variant |-> p.found["variantReference"][i],
    batch   |-> p.found["batchReference"][i]] : i \in ValidLines(p)}

----------------------------------------------------------------------------
\* Preview

\* The header row decides whether any query is made.
AcceptPreview(h, file, override) ==
  /\ handler[h] = Idle
  /\ handler' = [handler EXCEPT ![h] =
       [kind |-> "preview", file |-> file,
        next |-> IF RequiredMapped(Columns(Content[file].header, override))
                   THEN "productReference" ELSE "refuse",
        columns |-> Columns(Content[file].header, override),
        found |-> [field \in RefField |-> <<>>]]]
  /\ UNCHANGED <<catalogueVars, pending, stale, issued>>

\* No header row, or a required column not mapped.
RefuseHeader(h) ==
  /\ handler[h].kind = "preview" /\ handler[h].next = "refuse"
  /\ handler' = [handler EXCEPT ![h] = Idle]
  /\ UNCHANGED <<catalogueVars, pending, stale, issued>>

After(field) ==
  CASE field = "productReference" -> "variantReference"
    [] field = "variantReference" -> "batchReference"
    [] field = "batchReference"   -> "serialNumber"

ReadReferences(h) ==
  /\ handler[h].kind = "preview" /\ handler[h].next \in RefField
  /\ handler' = [handler EXCEPT
       ![h].found[handler[h].next] = Resolved(handler[h], handler[h].next),
       ![h].next = After(handler[h].next)]
  /\ UNCHANGED <<catalogueVars, pending, stale, issued>>

Evicted == [i \in ImportId |-> IF i \in stale THEN Null ELSE pending[i]]

\* Reads the serial numbers that exist, stages the rows and answers.
StagePreview(h, i) ==
  /\ handler[h].kind = "preview" /\ handler[h].next = "serialNumber"
  /\ i \notin issued
  /\ pending' = [Evicted EXCEPT ![i] = ValidRows(handler[h])]
  /\ issued' = issued \cup {i}
  /\ handler' = [handler EXCEPT ![h] = Idle]
  /\ UNCHANGED <<catalogueVars, stale>>

----------------------------------------------------------------------------
\* Commit

\* The entry stays in the store until the units are in.
TakeImport(h, i) ==
  /\ handler[h] = Idle
  /\ pending' = Evicted
  /\ handler' = [handler EXCEPT ![h] =
       IF Evicted[i] \in {Null, {}} THEN Idle
       ELSE [kind |-> "commit", at |-> "insert", import |-> i, rows |-> pending[i]]]
  /\ UNCHANGED <<catalogueVars, stale, issued>>

Collides(rows) == \E r \in rows : unit[r.serial] # Null

Inserted(rows) ==
  [s \in Serial |->
     IF unit[s] = Null /\ \E r \in rows : r.serial = s
       THEN LET r == CHOOSE r \in rows : r.serial = s
            IN  [product |-> r.product, variant |-> r.variant, batch |-> r.batch]
       ELSE unit[s]]

\* Mutant: rows whose serial number is taken are skipped (createMany with
\* skipDuplicates).
InsertTheRest(h) ==
  /\ handler[h].kind = "commit" /\ handler[h].at = "insert"
  /\ unit' = Inserted(handler[h].rows)
  /\ audit' = audit \cup {<<"UNIT_IMPORTED", handler[h].import>>}
  /\ handler' = [handler EXCEPT ![h].at = "forget"]
  /\ UNCHANGED <<details, work, pending, stale, issued>>

\* One INSERT and the audit event, in one transaction.
InsertUnits(h) ==
  /\ handler[h].kind = "commit" /\ handler[h].at = "insert"
  /\ ~ Collides(handler[h].rows)
  /\ unit' = Inserted(handler[h].rows)
  /\ audit' = audit \cup {<<"UNIT_IMPORTED", handler[h].import>>}
  /\ handler' = [handler EXCEPT ![h].at = "forget"]
  /\ UNCHANGED <<details, work, pending, stale, issued>>

ForgetImport(h) ==
  /\ handler[h].kind = "commit" /\ handler[h].at = "forget"
  /\ pending' = [pending EXCEPT ![handler[h].import] = Null]
  /\ handler' = [handler EXCEPT ![h] = Idle]
  /\ UNCHANGED <<catalogueVars, stale, issued>>

\* P2002 of the INSERT: the transaction is rolled back and the entry stays.
RefuseCollision(h) ==
  /\ handler[h].kind = "commit" /\ handler[h].at = "insert"
  /\ Collides(handler[h].rows)
  /\ handler' = [handler EXCEPT ![h] = Idle]
  /\ UNCHANGED <<catalogueVars, pending, stale, issued>>

----------------------------------------------------------------------------
\* A query of a handler fails; what it staged or inserted stays.
HandlerFails(h) ==
  /\ Crashes
  /\ handler[h] # Idle
  /\ handler' = [handler EXCEPT ![h] = Idle]
  /\ UNCHANGED <<catalogueVars, pending, stale, issued>>

\* The store is memory of the process.
Restart ==
  /\ Crashes
  /\ pending' = [i \in ImportId |-> Null]
  /\ handler' = [h \in Handler |-> Idle]
  /\ work' = [k \in Keeper |-> NoWork]
  /\ UNCHANGED <<details, unit, audit, stale, issued>>

GrowStale(i) ==
  /\ pending[i] # Null /\ i \notin stale
  /\ stale' = stale \cup {i}
  /\ UNCHANGED <<catalogueVars, pending, issued, handler>>

Override == [Field -> Nat \cup {Null, Unsaid}]

ImportStep(h) ==
  \/ \E file \in File, override \in Override : AcceptPreview(h, file, override)
  \/ RefuseHeader(h)
  \/ ReadReferences(h)
  \/ \E i \in ImportId : StagePreview(h, i) \/ TakeImport(h, i)
  \/ InsertUnits(h)
  \/ ForgetImport(h)
  \/ RefuseCollision(h)
  \/ HandlerFails(h)

\* The API alone, with any client.
ImportNext ==
  \/ \E k \in Keeper : CatalogueStep(k) /\ UNCHANGED importVars
  \/ \E h \in Handler : ImportStep(h)
  \/ \E i \in ImportId : GrowStale(i)
  \/ Restart

ImportSpec == ImportInit /\ [][ImportNext]_vars
============================================================================
