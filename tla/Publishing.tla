----------------------------- MODULE Publishing -----------------------------
(***************************************************************************)
(* Publishing, revoking and resolving (publish.service.ts,                 *)
(* conflict-detection.ts, resolver.service.ts), composed with the editing  *)
(* of the revisions and rules that are published.                          *)
(*                                                                         *)
(* A publish request is one SERIALIZABLE transaction.  PostgreSQL gives it *)
(* the snapshot of its first query, which is the read of the revision, not *)
(* of the moment it is granted the advisory lock; everything it reads      *)
(* later, the live rules and the ACTIVE publications, is as of that        *)
(* snapshot.  At commit, serializable snapshot isolation refuses a         *)
(* transaction that missed the publication of a concurrent one that missed *)
(* its own.  Editing and revoking run outside this protection.             *)
(*                                                                         *)
(* A snapshot is kept as two sets of publication ids: what a publication   *)
(* froze never changes, so ids are enough.                                 *)
(***************************************************************************)
EXTENDS RevisionEditing, Sequences, FiniteSets

CONSTANTS
  Key,          \* resolution keys: a document and a language
  KeyOf,        \* the key of every revision
  PubId,        \* publications that may be made: bounds their number
  Publisher,    \* publish requests that may be in flight
  Revoker,      \* revoke requests that may be in flight
  ContextPool,  \* units that documents are looked up for, a subset of UnitContext
  MaxTime       \* bound on the clock

Publication ==
  [revision : Revision, rules : SUBSET RulePool, status : {"ACTIVE", "REVOKED"},
   publishedAt : Nat, revokedAt : Nat \cup {Null}]

ASSUME PublishingAssumption ==
  /\ KeyOf \in [Revision -> Key]
  /\ ContextPool \subseteq UnitContext
  /\ MaxTime \in Nat
  /\ Null \notin PubId \cup Revision \cup Publication

VARIABLES
  pub,          \* the publications table with its frozen snapshots
  tx,           \* per publisher: its transaction
  lockQueue,    \* per key: holder and waiters of the advisory lock, in order
  revocation,   \* per revoker: the request it is working on
  now           \* the clock

publishingVars == <<pub, tx, lockQueue, revocation, now>>
vars == <<editingVars, publishingVars>>

NoTx == [pc |-> "idle", revision |-> Null, rules |-> {}, seen |-> {},
         seenActive |-> {}, since |-> 0]

\* pc: begun (revision read), waiting (lock requested), checked (no conflict
\* found, rows about to be created and committed)
RunningTx ==
  [pc : {"begun", "waiting", "checked"}, revision : Revision, rules : SUBSET RulePool,
   seen : SUBSET PubId, seenActive : SUBSET PubId, since : Nat]

Transaction == {NoTx} \cup RunningTx

NoRevocation == [pc |-> "idle", publication |-> Null, since |-> 0]

RunningRevocation == [pc : {"write", "audit"}, publication : PubId, since : Nat]

Revocation == {NoRevocation} \cup RunningRevocation

PublishingTypeOK ==
  /\ pub \in [PubId -> Publication \cup {Null}]
  /\ tx \in [Publisher -> Transaction]
  /\ lockQueue \in [Key -> Seq(Publisher)]
  /\ revocation \in [Revoker -> Revocation]
  /\ now \in 0 .. MaxTime

TypeOK == EditingTypeOK /\ PublishingTypeOK

Init ==
  /\ EditingInit
  /\ pub = [p \in PubId |-> Null]
  /\ tx = [w \in Publisher |-> NoTx]
  /\ lockQueue = [k \in Key |-> << >>]
  /\ revocation = [v \in Revoker |-> NoRevocation]
  /\ now = 0

----------------------------------------------------------------------------
\* The publications table

Published == {p \in PubId : pub[p] # Null}

KeyOfPub(p) == KeyOf[pub[p].revision]

IsActive(p) == pub[p] # Null /\ pub[p].status = "ACTIVE"

ActivePubs(k) == {p \in PubId : IsActive(p) /\ KeyOfPub(p) = k}

\* conflict-detection.ts: against which of these publications do the rules conflict?
FindConflicts(publications, newRules) ==
  {p \in publications : RuleSetsConflict(newRules, pub[p].rules)}

----------------------------------------------------------------------------
\* The publish transaction

TxKey(w) == KeyOf[tx[w].revision]

\* Mutant: the outcome of a lock request that need not wait is not looked at.
AskedForLock(w, k) == \E i \in 1 .. Len(lockQueue[k]) : lockQueue[k][i] = w

HoldsLock(w, k) == lockQueue[k] # << >> /\ Head(lockQueue[k]) = w

\* Bound: a row is left for every transaction in flight and for one more.
RoomToPublish ==
  Cardinality(Published) + Cardinality({w \in Publisher : tx[w].pc # "idle"})
    < Cardinality(PubId)

\* The first query: it fixes the snapshot, and the status check is on it.
BeginPublish(w, r) ==
  /\ tx[w].pc = "idle"
  /\ status[r] = "APPROVED"
  /\ RoomToPublish
  /\ tx' = [tx EXCEPT ![w] =
       [pc |-> "begun", revision |-> r, rules |-> LiveRules(r),
        seen |-> Published, seenActive |-> ActivePubs(KeyOf[r]), since |-> now]]
  /\ UNCHANGED <<editingVars, pub, lockQueue, revocation, now>>

RequestLock(w) ==
  /\ tx[w].pc = "begun"
  /\ tx' = [tx EXCEPT ![w].pc = "waiting"]
  /\ lockQueue' = [lockQueue EXCEPT ![TxKey(w)] = Append(@, w)]
  /\ UNCHANGED <<editingVars, pub, revocation, now>>

\* Mutant: the rules are read again when the lock is granted, outside the snapshot.
CheckConflictsOfLiveRules(w) ==
  /\ tx[w].pc = "waiting" /\ HoldsLock(w, TxKey(w))
  /\ FindConflicts(tx[w].seenActive, LiveRules(tx[w].revision)) = {}
  /\ tx' = [tx EXCEPT ![w].pc = "checked", ![w].since = now,
                      ![w].rules = LiveRules(tx[w].revision)]
  /\ UNCHANGED <<editingVars, pub, lockQueue, revocation, now>>

CheckConflicts(w) ==
  /\ tx[w].pc = "waiting" /\ HoldsLock(w, TxKey(w))
  /\ FindConflicts(tx[w].seenActive, tx[w].rules) = {}
  /\ tx' = [tx EXCEPT ![w].pc = "checked", ![w].since = now]
  /\ UNCHANGED <<editingVars, pub, lockQueue, revocation, now>>

\* The queue without the entry of w, which has at most one.
Leave(queue, w) ==
  IF \E i \in 1 .. Len(queue) : queue[i] = w
  THEN LET i == CHOOSE i \in 1 .. Len(queue) : queue[i] = w
       IN  [j \in 1 .. Len(queue) - 1 |-> queue[IF j < i THEN j ELSE j + 1]]
  ELSE queue

\* The end of a transaction, whichever it is, gives up the lock.
Release(w) == lockQueue' = [k \in Key |-> Leave(lockQueue[k], w)]

\* Mutant: the lock is taken for the session and outlives a failed transaction.
RollBackKeepsLock(w) ==
  /\ tx' = [tx EXCEPT ![w] = NoTx]
  /\ UNCHANGED <<editingVars, pub, lockQueue, revocation, now>>

RollBack(w) ==
  /\ tx' = [tx EXCEPT ![w] = NoTx]
  /\ Release(w)
  /\ UNCHANGED <<editingVars, pub, revocation, now>>

RejectConflict(w) ==
  /\ tx[w].pc = "waiting" /\ HoldsLock(w, TxKey(w))
  /\ FindConflicts(tx[w].seenActive, tx[w].rules) # {}
  /\ RollBack(w)

\* Mutant: plain snapshot isolation, which lets both transactions commit.
NoSerializationFailure(w) == FALSE

\* PostgreSQL's commit rule, as far as publishing depends on it: a same-key
\* publication committed since the snapshot was missed by this transaction's
\* check, and its own check missed the row this transaction adds.
SerializationFailure(w) ==
  \E p \in Published \ tx[w].seen : KeyOfPub(p) = TxKey(w)

\* Publication, snapshot and audit event are created and committed together;
\* publishedAt is stamped when the row is created, after the check.
CommitPublish(w, p, publishedAt) ==
  /\ tx[w].pc = "checked"
  /\ ~SerializationFailure(w)
  /\ p \notin Published
  /\ pub' = [pub EXCEPT ![p] =
       [revision |-> tx[w].revision, rules |-> tx[w].rules, status |-> "ACTIVE",
        publishedAt |-> publishedAt, revokedAt |-> Null]]
  /\ audit' = audit \cup {<<"PUBLICATION_CREATED", p>>}
  /\ tx' = [tx EXCEPT ![w] = NoTx]
  /\ Release(w)
  /\ UNCHANGED <<status, rules, edit, revocation, now>>

RefuseSerialization(w) ==
  tx[w].pc = "checked" /\ SerializationFailure(w) /\ RollBack(w)

\* The process dies, the transaction times out, or PostgreSQL refuses it out
\* of caution: possible anywhere in it.
PublishFails(w) == Crashes /\ tx[w].pc # "idle" /\ RollBack(w)

PublishStep(w) ==
  \/ RequestLock(w)
  \/ CheckConflicts(w)
  \/ RejectConflict(w)
  \/ \E p \in PubId, t \in tx[w].since .. now : CommitPublish(w, p, t)
  \/ RefuseSerialization(w)

----------------------------------------------------------------------------
\* Revoking: a read, an update by id, an audit event

\* Mutant: any publication may be revoked, a revoked one again.
ReadForRevokeAgain(v, p) ==
  /\ revocation[v].pc = "idle"
  /\ pub[p] # Null
  /\ revocation' = [revocation EXCEPT ![v] =
       [pc |-> "write", publication |-> p, since |-> now]]
  /\ UNCHANGED <<editingVars, pub, tx, lockQueue, now>>

ReadForRevoke(v, p) ==
  /\ revocation[v].pc = "idle"
  /\ IsActive(p)
  /\ revocation' = [revocation EXCEPT ![v] =
       [pc |-> "write", publication |-> p, since |-> now]]
  /\ UNCHANGED <<editingVars, pub, tx, lockQueue, now>>

\* revokedAt is the time the handler computed before the update got through.
WriteRevoke(v, revokedAt) ==
  /\ revocation[v].pc = "write"
  /\ pub' = [pub EXCEPT ![revocation[v].publication] =
       [@ EXCEPT !.status = "REVOKED", !.revokedAt = revokedAt]]
  /\ revocation' = [revocation EXCEPT ![v].pc = "audit"]
  /\ UNCHANGED <<editingVars, tx, lockQueue, now>>

\* Mutant: the request forgets to let go of its publication.
RecordRevokeKeepsRequest(v) ==
  /\ revocation[v].pc = "audit"
  /\ audit' = audit \cup {<<"PUBLICATION_REVOKED", revocation[v].publication>>}
  /\ revocation' = [revocation EXCEPT ![v].pc = "idle"]
  /\ UNCHANGED <<status, rules, edit, pub, tx, lockQueue, now>>

RecordRevoke(v) ==
  /\ revocation[v].pc = "audit"
  /\ audit' = audit \cup {<<"PUBLICATION_REVOKED", revocation[v].publication>>}
  /\ revocation' = [revocation EXCEPT ![v] = NoRevocation]
  /\ UNCHANGED <<status, rules, edit, pub, tx, lockQueue, now>>

RevokeFails(v) ==
  /\ Crashes
  /\ revocation[v].pc # "idle"
  /\ revocation' = [revocation EXCEPT ![v] = NoRevocation]
  /\ UNCHANGED <<editingVars, pub, tx, lockQueue, now>>

RevokeStep(v) ==
  \/ \E t \in revocation[v].since .. now : WriteRevoke(v, t)
  \/ RecordRevoke(v)

----------------------------------------------------------------------------
Tick ==
  /\ now < MaxTime
  /\ now' = now + 1
  /\ UNCHANGED <<editingVars, pub, tx, lockQueue, revocation>>

Next ==
  \/ EditingNext /\ UNCHANGED publishingVars
  \/ \E w \in Publisher, r \in Revision : BeginPublish(w, r)
  \/ \E w \in Publisher : PublishStep(w) \/ PublishFails(w)
  \/ \E v \in Revoker, p \in PubId : ReadForRevoke(v, p)
  \/ \E v \in Revoker : RevokeStep(v) \/ RevokeFails(v)
  \/ Tick

Spec == Init /\ [][Next]_vars

\* Node runs every handler whose query has been answered, and PostgreSQL
\* answers every query of a transaction that is not waiting for a lock; lock
\* waiters are served in order.  Nothing obliges a user to start a request.
Fairness ==
  /\ \A w \in Publisher : WF_vars(PublishStep(w))
  /\ \A v \in Revoker : WF_vars(RevokeStep(v))

FairSpec == Spec /\ Fairness

----------------------------------------------------------------------------
\* Resolving (resolver.service.ts): what applies to a unit at a moment

\* Mutant: a publication still applies at the moment it is revoked.
InForceToTheEnd(p, effectiveAt) ==
  /\ pub[p] # Null
  /\ pub[p].publishedAt <= effectiveAt
  /\ pub[p].revokedAt # Null => effectiveAt <= pub[p].revokedAt

\* The query's conditions on time; the status column is not consulted.
InForce(p, effectiveAt) ==
  /\ pub[p] # Null
  /\ pub[p].publishedAt <= effectiveAt
  /\ pub[p].revokedAt # Null => effectiveAt < pub[p].revokedAt

Candidates(k, context, effectiveAt) ==
  {p \in PubId : /\ InForce(p, effectiveAt) /\ KeyOfPub(p) = k
                 /\ Applies(pub[p].rules, context, effectiveAt)}

\* The candidates of a key that reach the highest rank any of them reaches.
Top(k, context, effectiveAt) ==
  {p \in Candidates(k, context, effectiveAt) :
     \E s \in MatchedSpecificities(pub[p].rules, context, effectiveAt) :
       \A q \in Candidates(k, context, effectiveAt) :
         \A t \in MatchedSpecificities(pub[q].rules, context, effectiveAt) : t <= s}

TopRevisions(k, context, effectiveAt) ==
  {pub[p].revision : p \in Top(k, context, effectiveAt)}

\* More than one revision at the top: reported as a conflict, not resolved.
ResolutionConflict(k, context, effectiveAt) ==
  \E r, s \in TopRevisions(k, context, effectiveAt) : r # s

----------------------------------------------------------------------------
\* Safety

\* Two ACTIVE publications of one document and language never have rules of
\* equal specificity that could apply to one unit: what the conflict check in
\* the publish transaction is there to protect, whatever publishes, revokes
\* and edits run at the same time.
NoCompetingPublications ==
  \A p, q \in PubId :
    p # q /\ IsActive(p) /\ IsActive(q) /\ KeyOfPub(p) = KeyOfPub(q)
      => ~RuleSetsConflict(pub[p].rules, pub[q].rules)

\* Looking documents up now never ends in a tie: at most one publication of a
\* key is at the top for a unit, so the resolver neither reports a conflict
\* nor picks one of several (docs/applicability-resolution.md:81-87).
ResolverUnambiguous ==
  \A k \in Key, context \in ContextPool :
    \A p, q \in Top(k, context, now) : p = q

\* Revoked, and no request that found it ACTIVE is still to write to it.
Ended ==
  {p \in Published :
     /\ pub[p].status = "REVOKED"
     /\ \A v \in Revoker : revocation[v].pc = "write" => revocation[v].publication # p}

\* What was revoked stays REVOKED with what it froze, and once the requests that
\* found it ACTIVE are done the moment of its end stays as well: "Only an ACTIVE
\* publication can be revoked" (publish.service.ts:127-129), two requests at
\* once may both find it so.
RevokedIsFinal ==
  [][\A p \in Published : pub[p].status = "REVOKED" =>
       /\ pub'[p] = [pub[p] EXCEPT !.revokedAt = pub'[p].revokedAt]
       /\ p \in Ended => pub'[p] = pub[p] /\ p \in Ended']_vars

\* A revoke request always has a publication to write to.
RevocationsRefer ==
  \A v \in Revoker :
    revocation[v].pc # "idle" => revocation[v].publication \in Published

\* Two transactions are never past the conflict check of one key together:
\* the advisory lock is held until the transaction ends.
OneCheckedPerKey ==
  \A w, x \in Publisher :
    tx[w].pc = "checked" /\ tx[x].pc = "checked" /\ TxKey(w) = TxKey(x) => w = x

----------------------------------------------------------------------------
\* The abstract registry: publications without the moments they were made

RegistryView ==
  [p \in PubId |->
     IF pub[p] = Null THEN [revision |-> Null, rules |-> {}, status |-> "VACANT"]
     ELSE [revision |-> pub[p].revision, rules |-> pub[p].rules,
           status |-> pub[p].status]]

Registry == INSTANCE PublicationRegistry WITH registry <- RegistryView

\* Publishing implements the atomic registry: a transaction takes effect in
\* one step, at its commit, and what its conflict check found out on its
\* snapshot is still good there (publish.service.ts:26-118).
ImplementsRegistry == Registry!Spec

----------------------------------------------------------------------------
\* Liveness

\* A publish request always comes to an end, one way or the other: nobody
\* waits for the advisory lock for ever.
PublishEnds == \A w \in Publisher : tx[w].pc # "idle" ~> tx[w].pc = "idle"

----------------------------------------------------------------------------
\* What the documents say of publishing that the code does not keep

\* "it's exactly what stops a redundant duplicate POST for the same revision"
\* with an unchanged rule set (docs/publication-lifecycle.md:130-137).
NoDuplicatePublication ==
  \A p, q \in PubId :
    p # q /\ IsActive(p) /\ IsActive(q) /\ pub[p].revision = pub[q].revision
      => pub[p].rules # pub[q].rules
=============================================================================
