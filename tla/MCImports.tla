----------------------------- MODULE MCImports -----------------------------
(***************************************************************************)
(* Instances of ImportWizard for TLC.                                      *)
(***************************************************************************)
EXTENDS ImportHistory, TLC

CONSTANTS p1, p2, b1, b2, s1, s2, l1, l2, f1, f2

VARIABLE focus   \* what the behaviour is about: the page, or the catalogue under it

mcVars == <<wizardVars, historyVars, focus>>

TwoBatches == b1 :> p1 @@ b2 :> p2

Named(number, name) == [number |-> number, name |-> name]

\* b1 is called by its own reference; p2 may get the number of p1.
Everything ==
  p1 :> Named(l1, l1) @@ p2 :> Named(l2, l2) @@ b1 :> Named(Null, l1) @@ b2 :> Named(l2, l1)

\* A batch whose internal reference is its name.
SameName == [Everything EXCEPT ![b1] = Named(l1, l1)]

NoEdits == [x \in Item |-> {}]

Renumbered == [x \in Item |-> IF x = p2 THEN {Named(l1, l2)} ELSE {}]

Entered(product, batch) == [product |-> product, variant |-> Null, batch |-> batch]
Entries == {<<s1, Entered(p1, b1)>>, <<s1, Entered(p1, b2)>>}
Patches == {<<s1, [f \in {"batch"} |-> b]>> : b \in {b2, Null}}

\* f1 lacks nothing; f2 has no product column, a batch of another product, rows that
\* are too short and a serial number twice.
Files ==
  f1 :> [header |-> <<"serialNumber", "productReference", "batchReference">>,
         rows   |-> << <<s1, l1, l1>>, <<s2, p2, b2>> >>]
  @@ f2 :> [header |-> <<"serialNumber", "other", "batchReference">>,
            rows   |-> << <<s1, p1, b2>>, <<s2, p2>>, <<s2, l1>> >>]

Choices == {<<"productReference", 2>>}

MCInit == HistoryInit /\ focus \in {"page", "catalogue"}

\* Two imports, a catalogue at rest and a store that forgets only what
\* has been imported, or one import of f1 while units are
\* entered, products renumbered, and time passes.
InFocus ==
  CASE focus = "page"      -> work' = work /\ stale' = stale
                              /\ \A i \in ImportId :
                                   pending[i] # Null /\ pending'[i] = Null => Imported(i)
    [] focus = "catalogue" -> /\ Cardinality(issued') <= 1
                              /\ \A w \in Wizard : page'[w].file # f2

MCNext == WizardNext /\ InFocus /\ focus' = focus /\ Recall

MCSpec == MCInit /\ [][MCNext]_mcVars

\* No action looks at the audit trail, and properties only at the events of imports.
View == <<details, unit, work, importVars, page, focus, historyVars,
          {i \in ImportId : Imported(i)}>>

Symmetry == Permutations(ImportId) \cup Permutations(Handler)

Only(S) == IF \E x \in S : S = {x} THEN CHOOSE x \in S : TRUE ELSE Bad

\* A batch is looked up by its stable id, then by its internal reference, then by
\* its name, in that order (docs/csv-import.md:86-89).
BatchInOrder(p, ref) ==
  LET under == {b \in Batch : Exists(b) /\ ProductOf[b] = p}
      byNumber == {b \in under : details[b].number = ref}
      byName == {b \in under : details[b].name = ref}
  IN  IF ref \in Batch THEN Only({ref} \cap under)
      ELSE IF byNumber # {} THEN Only(byNumber) ELSE Only(byName)

\* Every preview has looked its batches up in that order (while none is renamed).
BatchesLookedUpInOrder ==
  \A h \in Handler :
    handler[h].kind = "preview" /\ handler[h].next = "serialNumber" =>
      \A i \in Lines(handler[h]) :
        LET p == handler[h].found["productReference"][i]
            ref == Cell(handler[h], i, "batchReference")
        IN  p \in Product /\ ref # Null =>
              handler[h].found["batchReference"][i] = BatchInOrder(p, ref)
============================================================================
