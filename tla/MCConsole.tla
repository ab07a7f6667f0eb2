------------------------------ MODULE MCConsole ------------------------------
(***************************************************************************)
(* Instances of Console for TLC.  A behaviour is about one of the pages,   *)
(* chosen at its start.                                                    *)
(***************************************************************************)
EXTENDS Console, FiniteSets, TLC

CONSTANTS r1, r2, A, k1, Pages

CONSTANTS MaxWrites, MaxMishaps

VARIABLES
  focus,    \* the page
  writes,   \* requests of the page that may change something
  mishaps   \* steps of others, and connections that broke

mcVars == <<consoleVars, focus, writes, mishaps>>

Serials(from, to) ==
  [NoScope EXCEPT !.serialFrom = [prefix |-> A, sequence |-> from],
                  !.serialTo = [prefix |-> A, sequence |-> to]]

Pool == {Serials(1, 2), Serials(2, 2)}

\* Two revisions of one document and language, for different units.
OneKey == [r \in Revision |-> k1]
Rows == [i \in Row |-> CASE i = 1 -> [of |-> r1, rule |-> Serials(1, 1)]
                         [] i = 2 -> [of |-> r2, rule |-> Serials(2, 2)]
                         [] OTHER -> Unused]
Statuses == {[r \in Revision |-> "APPROVED"],
             [r \in Revision |-> IF r = r1 THEN "DRAFT" ELSE "IN_REVIEW"]}

Filters == {[key |-> Null, status |-> s] : s \in {Null, "ACTIVE"}}

Values == [serialTo |-> {Null}, explicitExclusion |-> {TRUE}]

Writings == [wizard |-> 2, rules |-> 1, history |-> 2, document |-> 3]
Mishaps == [wizard |-> 2, rules |-> 1, history |-> 3, document |-> 2]

MCInit ==
  /\ ConsoleInit
  /\ focus \in Pages /\ writes = 0 /\ mishaps = 0
  /\ focus = "document" \/ \A r \in Revision : status[r] = "APPROVED"

\* What others do that matters to the page.
OthersMatter ==
  CASE focus = "wizard"   -> UNCHANGED row[2] /\ \A p \in PubId : Active(p) => Active(p)'
    [] focus = "rules"    -> UNCHANGED <<row, status[r1]>>
    [] OTHER              -> TRUE

InFocus ==
  /\ CASE focus = "wizard"   -> /\ UNCHANGED <<tab, list, detail, document>>
                                /\ wizard'.revision \in {Null, r1}
       [] focus = "rules"    -> /\ UNCHANGED <<wizard, list, detail, document, registry>>
                                /\ tab' # tab /\ tab = Null => tab'.revision = r1
       [] focus = "history"  -> UNCHANGED <<wizard, tab, document, row, status>>
       [] focus = "document" -> UNCHANGED <<wizard, tab, list, detail, row, registry>>
  /\ call' = call => OthersMatter

\* Ids are taken in order.
InOrder ==
  /\ \A c \in Call : call[c] = Null /\ call'[c] # Null => \A d \in Call : d < c => call[d] # Null
  /\ \A p \in PubId : registry[p] # registry'[p] => \A q \in PubId : q < p => registry[q] # Vacant

WritesUnderWay == Cardinality({c \in Call : call[c] # Null /\ call[c].op \in Writes})

NewFailure == \E c \in Call : call'[c] # Null /\ call'[c].state = "failed" /\ call'[c] # call[c]

\* Bounds: what the user sends; what others do and how often connections break.
Counted ==
  /\ writes' = IF WritesUnderWay' > WritesUnderWay THEN writes + 1 ELSE writes
  /\ mishaps' = IF NewFailure \/ (call' = call /\ deskVars' # deskVars) THEN mishaps + 1 ELSE mishaps
  /\ writes' <= MaxWrites[focus] /\ mishaps' <= MaxMishaps[focus]

MCNext == ConsoleNext /\ InFocus /\ InOrder /\ Counted /\ UNCHANGED focus

MCSpec == MCInit /\ [][MCNext]_mcVars
=============================================================================
