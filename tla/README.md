# DocumentHub in TLA+

DocumentHub stores technical documents, lets a company say which *units* (serial
numbers) each revision of a document applies to, publishes reviewed revisions, and
shows anyone who scans a unit's QR code what applies to it. This directory holds a
model of it in four parts that share modules where the code shares state:

- the **library**: applicability rules, uploading, reviewing and editing revisions, the publish
  transaction, revoking, the resolver, and the public pages and downloads on top of it;
- the **catalogue**: products, batches and units, the CSV import and the import page;
- **people**: members, invitations, accounts, tenants, guards, and the browser sessions they use;
- the **publishing pages** of the web client over the API.

TLC checks it on small instances; TLAPS proves the main results for all.

Paths below are relative to the repository; `api/` stands for `src/apps/api/src/` and
`web/` for `src/apps/web/src/`.

## 1. The system

The API is one NestJS process over PostgreSQL (through Prisma). Every request is an
async handler: between two `await`s any other handler may run, and unless the handler
opens a transaction each query commits by itself. Except for the store of pending
imports, all state is in the database and in file storage. The web client is one page
application per browser tab: its pages send requests, and each answer is taken by
whatever the page has become meanwhile, unless the page cancels it.

| component | state it keeps | operations | interacts with | what is hard | what makes it correct |
|---|---|---|---|---|---|
| **Applicability** `api/applicability/{specificity,serial,affected-units}.ts`, `api/publications/rules-overlap.ts` | none (pure) | parse a serial, match a rule, rank it, compare two rules, count units | called by publish, preview, resolver, import | half-open ranges, prefixes, unset fields, NULL in SQL; three codings of one meaning | the codings agree: what matches together overlaps, what is counted is matched, what is missed is a NULL |
| **Revisions** `api/documents/revisions.service.ts` | status, identity and file of a revision | upload, submit, approve, retire, download | storage, audit; read by publish | read, then write by id: no transaction | status follows the lifecycle; published only after review |
| **Rules** `api/applicability/applicability-rules.service.ts` | the live rules of a revision | create, update, delete | reads the revision; frozen by publish | the check of the status is stale when the write happens | rules of a RETIRED revision change only by requests that were checked before |
| **Publishing** `api/publications/{publish.service,conflict-detection}.ts` | publications and frozen snapshots | publish (SERIALIZABLE, advisory lock), revoke | reads revisions and rules; audit | concurrent publishes, a snapshot older than the lock, aborts, unguarded revoke | no two ACTIVE publications of a document and language compete |
| **Resolver** `api/publications/resolver.service.ts` | none | resolve now or at a past moment | reads publications only | boundaries in time, ties | one winner per document, language, unit and moment |
| **Preview** `api/publications/publish-preview.service.ts` | none | impact of publishing a revision | rules, units, conflict check | its answer is about *now* | count and conflict list agree with the resolver and with publish |
| **Storage** `api/storage/` | files | put, get | upload, download | file and row are not written together | every row has its whole file |
| **Public access** `api/public/`, `web/features/public/` | the page a visitor has open | page, download | resolver, storage | revoked between page and download | what was revoked is not served to who asks later |
| **Catalogue** `api/products/` | products, variants, batches, units | create, update | ids named by rules and imports | patches of one field of a pair that must agree | a unit's variant and batch belong to its product |
| **Imports** `api/imports/` | pending imports, in memory, 30 minutes | preview, commit | reads the catalogue, creates units | commit much later than preview, restart, two commits | all rows or none; serial numbers stay unique |
| **Import page** `web/features/imports/` | step, mapping, preview, result | choose, map, review, commit, go back | imports | answers to a step that was left; more rows than the step lists | what is imported was in the review step, as far as it lists it |
| **Memberships** `api/organizations/` | role and status of each member | change role, suspend, reactivate | guards read it, invitations write it | count of other administrators, then write | an organization keeps an active administrator |
| **Invitations** `api/invitations/` | invitations and their status | create, resend, revoke, expire on look-up, accept | writes users and memberships | two accepts of one token, expiry against accept | a token is used at most once; a final status is final |
| **Platform** `api/platform/` | tenants, users, platform audit | create tenant, suspend, close | invitations, guards | several writes, no transaction; operators who suspend each other | the last operator goes only in crossfire; a suspension takes effect at once |
| **Auth, guards** `api/auth/`, `api/common/guards/` | none beyond users | log in; per-request checks | users, memberships, tenants | three reads with awaits in between, then the handler | who writes had access since the request was sent |
| **Session** `web/features/auth/`, `web/lib/api-client.ts` | token and organization in localStorage; a store per tab | log in, register, restore, switch, log out | every request reads it | operations that are not cancelled, storage shared by tabs | a write goes to the organization shown, unless another tab has switched |
| **Publishing pages** `web/features/{publications,applicability,documents}/` | wizard, rules tab, history, document page | publish, edit rules, revoke, move | API | late, reordered and lost answers; others at work | what is confirmed, listed and deleted is what the user saw |
| **Audit** `api/audit/` | append-only events | record, list | every handler | separate query | every event tells of a change |
| **Documents, families, QR codes, other pages, process** | single rows, images, forms, configuration | create, rename, archive, list | — | little | unique keys |

## 2. The modules

```
Applicability              pure: rules, serials, ranks, overlap, matching, counting
  |-- RulePairs              any two rules and any unit
  |     |-- MCApplicability
  |     `-- ApplicabilityProofs
  |-- PublicationRegistry    abstract: what publishing promises
  |     `-- Desk               the API as pages see it, and their requests
  |           |-- PublishWizard, RulesTab, HistoryPage, RevisionsPage
  |           `-- Console        the four pages together
  |                 |-- MCConsole
  |                 `-- ConsoleProofs
  `-- RevisionEditing          review status and live rules
        |-- Publishing           publish transaction, revoke, resolver; refines the registry
        |     |-- PublishingProofs      (with ApplicabilityProofs)
        |     `-- PublishingReview      what revisions went through
        |           |-- MCPublishing
        |           `-- ReviewProofs    (with PublishingProofs)
        |-- Uploads              file, then row
        `-- PublicAccess         Publishing and Uploads, with pages and downloads
              |-- MCPublicAccess
              `-- LibraryProofs    (with PublishingProofs)

Catalogue                  products, variants, batches, units
  `-- Imports                preview, pending store, commit
        `-- ImportWizard       the page over it
              `-- ImportHistory  where units come from, what pages have shown
                    |-- MCImports
                    `-- ImportsProofs

Memberships                members of an organization and changes to them
  `-- Invitations            create, resend, revoke, expire, accept
        `-- InvitationHistory  accepts; administrators gone behind the back of a check
              |-- MCInvitations
              `-- InvitationsProofs

Accounts                   accounts, tenants, guards, platform administration
  `-- Sessions               browser tabs over localStorage, and other clients
        `-- AccessHistory      what a request had when
              |-- MCPortal
              `-- SessionsProofs
```

The parts share nothing but the audit trail, which no action reads, and ids that are never
deleted, so no module composes all of them. Where one part needs another, it does so by a result:
the pages see publishing as the atomic registry, which `ImplementsRegistry` justifies, and
`Accounts` lets a tenant's write stand for the handlers that the other modules take apart.

### The library

**Applicability** transcribes the pure functions. A bound of a serial range is its parsed
form (prefix and sequence) or `Null`: the rules service sets the text and the parsed
columns together, so they cannot come apart. A serial number as typed is a prefix and
either digits or none; `ParseSerial` maps "none" to sequence 0 as `parseSerial` does.
The unit count of the preview is one SQL query. Of a unit whose variant, batch or family is NULL a
clause about one is neither true nor false, so `InWhereClause` (the clause is true) and
`OutsideWhereClause` (its NOT is true) are two operators and not each other's negation; a family
is compared through the join of the unit's product.

**RevisionEditing** has `status` and `rules` (one row per rule) as tables, `audit` as the
set of events, and `edit`, the requests in flight. A handler is three steps, one for each
point where others may get in: *read and check*, *write by id*, *record the event*. The
reads between the status check and the write (does the rule row exist, do the ids in the
request belong together) are part of the first step: a row that has gone by the time of the
write makes the request fail (`RuleGone`), and ids are never deleted. `EditFails` is the death of
the process or of a query between two steps; what was written stays.

**Publishing** adds the publications table `pub`, one transaction per publisher `tx`, the
advisory lock with its waiters `lockQueue`, revoke requests in flight `revocation`, and a
clock `now`. The steps of a publish request:

| action | code (`publish.service.ts`) |
|---|---|
| `BeginPublish` | 29-36: first query; PostgreSQL takes the snapshot here. What the transaction will read later (44, 47) is fixed with it: rules, publications |
| `RequestLock` | 41-42: queues for `pg_advisory_xact_lock` |
| `CheckConflicts` / `RejectConflict` | 44-55: once the lock is granted, against the ACTIVE publications of the snapshot |
| `CommitPublish` / `RefuseSerialization` | 57-119: rows, snapshot and event commit together, or PostgreSQL refuses (SQLSTATE 40001) |
| `PublishFails` | anywhere: process death, transaction timeout, a cautious serialization failure |
| `ReadForRevoke`, `WriteRevoke`, `RecordRevoke` | 125-129, 131-134, 136-144 |

Three external things are modelled from how this code uses them. *The advisory lock* is a
queue per key, served in order, released at the end of the transaction; two keys that hash
alike would only wait for each other more. *Serializable snapshot isolation* is reduced to
the case this code provokes: a transaction whose conflict check missed a publication of
its key that has been committed since its snapshot cannot commit, because that other
transaction's check missed the row it is about to insert. Anything else PostgreSQL may
refuse is in `PublishFails`. *The clock* is one clock; `publishedAt` and `revokedAt` are
some moment between the step before and the step that writes them.

The names frozen into a snapshot (63-64) and the file columns are left out: no decision
reads them. `SUPERSEDED` is left out because no code produces it.

**PublicationRegistry** is the abstract specification: publishing is one atomic step that
looks at the registry *as it is* and refuses a competing rule set; revoking is one-way.

**Uploads** adds `rows` (the revisions that have one), `stored` (none, part or all of the file
of each) and `upload`, the requests in flight. A revision's `Slot` is its document, label and
language, which are unique in the table.

| action | code (`revisions.service.ts`) |
|---|---|
| `RequestUpload`, `CheckSlot` | 38-63: document, size and type, and whether the slot is taken |
| `OpenFile`, `WriteFile` | 65-71 and the `put` of the storage services, which may die half way |
| `InsertRow` / `RefuseSlot` | 73-90: the unique key decides between two uploads that both found the slot free |
| `RecordUpload`, `UploadFails` | 92-102; death of the process or of a query: the file stays, and nothing refers to it |

**PublicAccess** puts uploads, publishing and visitors together. `visit` is the page in a visitor's
browser, with its links, and the download it waits for.

| action | code |
|---|---|
| `RequestPage`, `ShowPage` | `usePublicResource.ts`, `public.service.ts` 27-81: the resolver's answer for the moment of the request |
| `RequestDownload`, `FixMoment`, `ResolveAgain`, `Serve` | `PublicationList.tsx`, `public.service.ts` 83-136: look-ups, a new moment, the resolver again, then the bytes |

### The catalogue

**Catalogue** has the rows of products, variants and batches (`details`), the units by serial number
(`unit`), and per keeper the request at hand: *read what it depends on, write one row, record*. A
patch of a unit names the fields it changes; the row it checked may have changed by the time it
writes, the product of a unit never does.

**Imports** adds the store `pending` with what is `stale` in it (older than `TTL_MS`, evicted whenever
the store is used), the ids `issued`, and one request per `handler`. A file is its header row and its
cells; a cell is what the catalogue would be asked for, `Null` if blank and `Bad` if it parses to
nothing.

| action | code (`imports.service.ts`) |
|---|---|
| `AcceptPreview`, `RefuseHeader` | 37-88: header row, column mapping (`Columns`, `Detected`), required columns |
| `ReadReferences` | 116-204, 228-268: products, variants, batches, a query each |
| `StagePreview` | 205-320: serial numbers that exist, the rows that pass, `put` into the store |
| `TakeImport` | 322-343 and `take`: the entry stays in the store |
| `InsertUnits` / `RefuseCollision` | 345-369, 373-387: one INSERT and the audit event in a transaction, or P2002 |
| `ForgetImport`, `GrowStale`, `Restart` | 371; time; the store is memory |

**ImportWizard** is `ImportWizardPage.tsx` over it: `page` with its step, file, mapping, preview and the
two calls it may wait for. Each answer goes to the state the page has by then. `LoseConnection`
ends a call for the page only; the handler goes on. A restart ends the calls of all pages.

### People

**Memberships** has `member`, one membership or `Null` per user, and `change`, the
requests of administrators in flight. A handler is guard (`TenantGuard`, `RolesGuard`), read
of the membership, count of the other active administrators if one is about to go, write by id, audit event: five
awaits, five steps. `updateMemberRole` and `updateMemberStatus` have the same shape and are one
set of actions over a `value` that is a role or a status. The status `INVITED` is left out:
no code writes it.

**Invitations** adds `invitation` (the table), `account` (who has a user account),
`overdue` (invitations past `expiresAt`), `errand` (requests of administrators) and `visit`
(requests that come with a link).

| action | code (`invitations.service.ts`) |
|---|---|
| `RequestInvitation`, `RequestWithdrawal` | guards before create, resend, revoke |
| `ReadInvitation`, `WriteRevoked`, `CreateInvitation`, `RecordErrand` | 53-57 and 64-68; 59 and 70-73; 26-35; 37-44 and 75-83. Resend is revoke, then create; it records the creation only |
| `LookUp`, `WriteExpired` | 176-195. `own` says that the visitor is logged in to the account invited |
| `Claim` | 120-126. The update takes the lock of the row and keeps it: `Locked` |
| `FindUser`, `RefuseVisitor` | 128-136, 149-151, and the unique e-mail of a user refusing a second account |
| `CommitAccept` | 138-164: what the transaction wrote becomes visible at once |
| `VisitFails`, `ErrandFails` | death of the process or of a query; a transaction is rolled back |

The transaction runs at PostgreSQL's default level, READ COMMITTED: it sees what is
committed when each query runs, and every other write to a row it has written waits for its
end and then goes ahead on the row as it finds it. That is why `Claim`, `WriteRevoked` and
`WriteExpired` wait for `~Locked`, why `Claim` looks at the status after the wait, and
why the other two, which update by id, overwrite whatever it has become.

**Accounts** has the tables the guards read (`account`, `platformAdmin`, `tenant`, `member`), open
invitations, and `request`, what handlers work on. `Validate` is `jwt.strategy.ts` with the
platform guard, `GuardTenant` is `TenantGuard`, then one action per handler (`SetUserStatus`,
`SetTenantStatus`, `FoundTenant`, ...), then `Record`. Each is one await of the code, except
`SetMemberStatus`, which Memberships takes apart, and the script `BootstrapPlatformAdmin`, whose look-up and write are
one step: no property is about what happens between them. `Register`,
`CreateOrganization` and `AcceptInvitation` are the three ways to an account and an organization,
`BootstrapPlatformAdmin` the operator's script. A membership has no role here; Memberships has it.

**Sessions** has `stored` (token and organization in localStorage, shared by all tabs), `tab` (page and
store of each tab) and `task`, operations of the store: each sends a request, goes on with its
answer, perhaps sends the next, and nothing but a reload cancels it. `OtherClient` is a request from
anywhere else, with a token of anybody. Actions are named for what the
user does or for the answer that comes; `auth-store.ts` and the pages named in the map are their source.

### The publishing pages

**Desk** is the API as pages see it. A handler that changes a rule, a revision or a publication's end
checks first and writes later, by the id alone:

| action | code |
|---|---|
| `CheckUpdate`, `CheckRemove`, `CheckCreate` | `applicability-rules.service.ts` 69-77, 113-116, 21-26: the revision must not be RETIRED, the rule must be of it. The status it saw stays in the request as `seen` |
| `UpdateRule`, `RemoveRule`, `CreateRule` | 79, 118, 28: the write; a rule that has gone by then makes the request fail |
| `CheckMove`, `MoveRevision` | `revisions.service.ts` 138-145, 147 |
| `CheckRevoke`, `RevokePublication` | `publish.service.ts` 125-129, 131-134 |
| `ReadForPreview`, `AnswerPreview` | `publish-preview.service.ts`: the revision and its rules, then the publications |
| `PublishRevision` | one step, which is what Publishing implements (`ImplementsRegistry`) |

A request is `sent`, served and `answered`, and heard by its page; or its connection breaks, and
the page is told so whether or not the API serves it, before or later. `OthersStep` is somebody else
at work on the same data, at one go: what happens between the checks and writes of others is in
Publishing and RevisionEditing. Ids of rules are not used twice.

**PublishWizard**, **RulesTab**, **HistoryPage** and **RevisionsPage** each have one variable or two
with the state of the page's React component and its hooks, one action per thing the user does and
one per answer; **Console** puts them over one Desk.

### MC modules and mutants

MC modules add instances and a `focus` that says which of several questions a behaviour is about (so that
one run need not multiply them). History variables are in modules of their own, which the proofs use as
well: **PublishingReview** has `reached`, `approvedRules`, `changed`, `overtaken` and `contested` (what revisions went
through, and which requests act on what is not so any more),
**InvitationHistory** `joined` and `undermined` (accepts; administrators who go behind the back of the last-administrator
check), **ImportHistory** `staged`, `origin`, `shown`, `listed` and `strayed` (where units come from and what pages
have shown and listed), **AccessHistory** `seen` and `behind` (what a request had when; tabs another tab has switched). No action reads them. **RulePairs** has no
code of its own: its behaviours pick two rules and a unit for the functions of Applicability to be compared on.

Operators introduced by a comment "Mutant:" are plausible bugs of the definition below
them. They are used by no specification; each one, put in place of that definition, makes
the property named with it in `PROJECT.json` fail.

## 3. What TLC checks

Bounds are the cfg's constants; `RoomToPublish` stops publish requests from starting when
every publication id is taken or spoken for, `MaxTime` stops the clock, `MaxWrites` and `MaxMishaps`
bound what happens around a page. Where a set of ids bounds a table, everything that can race for one
row can do so with the ids there are. Deadlock is not
checked: users may stop sending requests, and the bounds end behaviours too.

### Runs that pass

- **applicability_pairs** (2.1 million states). Every pair of 160 serial, date and
  exclusion rules over two prefixes, bounds 0..2 or unset, times three
  moments and every serial 0..3 or digitless; and every pair of the id rules, to include and to exclude, over every
  unit with and without a family, variant and batch. Three
  sequence values give ranges that are apart, touch, nest, cross and run backwards; the fourth serial lies
  beyond every bound.
  `OverlapIsConservative`: two rules that match one unit at one moment are never held
  disjoint. `OverlapIsExactOnSerials`: nor are well-formed ranges held to overlap that share
  no serial. `CountMissesOnlyTheUndecided`: dates aside, and if the bounds of each range share a prefix, the preview counts no unit
  the resolver would not reach, and misses one only if an exclusion names a family, variant or batch of which the unit has none: see
  **subtraction**.
- **publish_edited** (one revision from DRAFT with one rule row, two editors, two publishers, one revoker,
  two publications, crashes). `FrozenWhileApproved`: what is frozen is a rule set the revision carried while
  APPROVED. `NoReviewSkipped`: nothing is published that was not reviewed, and nothing retired that was
  not approved, although racing transitions can move the status backwards.
  `NoCompetingPublications`: no two ACTIVE publications of a key have
  inclusion rules of equal rank that could meet, with rules changing during the transactions.
  `BackOnlyIfOvertaken`: a status leaves the table of transitions only by a request whose revision has moved since
  it was read. `RetiredIsFinal`: a retired revision and its rules stay as they are as soon as the requests that were
  past their checks are done; no other request gets there. The two editors do overtake each other: without the two
  exceptions both properties fail in this run.
  `ImplementsRegistry`: the refinement of PublicationRegistry. Two publishers are enough for one to commit
  inside the other's snapshot, and the revision competes with itself.
- **history** (four revisions of two keys, three publishers, two revokers, one editor, three publications, clock 0..2,
  fairness; the focus is on the past, on the lock or on edits). On the past: two revisions of one key that compete
  are published by one after the other or both at once, and two requests revoke, the same publication if they like. `ResolverUnambiguous`: looking
  up now never ends in a tie. `HistoryUnambiguous`: nor does any moment of the past, but for publications that two
  requests were revoking at once, whose end the later one moves. `RevokedIsFinal`: what was revoked stays revoked with what it froze,
  and its end stays where it is once no request that had found it ACTIVE is still to write. Three
  moments give a publication, its end, and its successor. On the lock: `PublishEnds`: every publish request comes to an end.
  `OneCheckedPerKey`: the lock admits one transaction per key past the check; the second key shows that keys do not
  block each other. On edits, with crashes: `AuditTellsTheTruth`: the trail never tells of
  something that did not happen.
- **library** (three revisions, two of them being uploaded for one slot; two uploaders, two publishers, two
  revokers, one editor, one visitor, two publications, clock 0..2, crashes). `OneRowPerSlot`: a document never has two
  revisions of one label and language. `PublishedHaveFiles`: what a download has found can be read.
  `RevokedNotServed`: a download asked for after a revocation, with no other revocation of the same publication
  still to write, does not serve what was revoked, however old the page. The `focus` is on uploads or on visits; both have all of publishing.
- **imports_wizard** (one page, two imports of two files, two handlers, one catalogue request at a time,
  two serial numbers, crashes and restarts). One file is in order; the other lacks its product column and has rows
  that are too short, a batch of another product and a serial number twice. `UnitsConsistent`: variant and batch of a unit belong to its
  product, however it came about. `ImportsAreWhole`: an import is in with all its rows and its event, or with
  neither. `ReviewedBeforeImported`: what is imported was in the review step, with all its valid rows, or as
  many of them as the step lists (`SampleSize`, 30 in the code and one here, so that files do exceed it).
  `ResultIsOwnIfNotStrayed`: the count reported stands under the rows it is about, unless the user has gone back
  during the commit. The `focus` is on the page with a catalogue at rest, or on the catalogue with one import.
- **invitations** (two users, two invitations, one inviter, two visitors, two managers, crashes; the
  focus is on links or on members). `TokenUsedOnce`: a link makes a member at most once. `AcceptedMeansMember`:
  an invitation that counts as used has made its addressee a member with an account.
  `RejectedStaysRejected`: one that was revoked or has expired is never accepted.
  `LastAdminProtected`: there is an active administrator until one goes between the count and the write of
  a request that takes another, or by an invitation; other writes in between, by any number of requests, do no harm: see **last_admin** and below. Two visitors
  meet on one link, or bring two links of one person, both without an account; the inviter
  revokes under their hands.
- **portal** (two users, two organizations, two guarded requests, two operations of the store, two tabs, crashes).
  `LastOperatorGoesInCrossfire`: the last active operator is suspended only by a request that another one, suspended
  meanwhile, had got past the guard; two operators do suspend each other in this run.
  `WritesHadAccess`: who has a write admitted was active, and a member, and the tenant was open, at some time since
  the request was sent. `WritesWhereShown`: a page's write goes to the organization its tab shows, unless another tab has
  stored another one since this tab was loaded or stored its own. The
  focus is on the API, with suspensions during requests; on one tab, opened by a newcomer, somebody invited,
  a member or somebody suspended; or on two tabs of a member of both organizations, who switches, reloads, logs out and in again.
- **console** (two revisions of one key, two publications, three ids of rules, two requests under way, one to three writes
  of the page and up to three steps of others or broken connections). `RefusedForNews`: a confirmation the
  wizard allowed is refused only if something has changed since its preview. `RetiredRulesChangeOnlyInFlight`: what changes a rule of
  a retired revision is a request for that very revision that was checked before it was retired, though the tab may show
  rules under another revision. That exception is reached: without it the property fails here. `ListAnswersLatest`: the history shows the answer to
  the filter and page chosen last. `RevokesWhatWasOpened`, `ReportedIsListed`: the drawer revokes the publication it
  was opened for, and the list follows. `NeverWaitsInVain`: on the page of a document no row stays disabled, and nothing
  loads, when nothing is under way. The focus is on one of the four pages. Two requests are enough for an answer to overtake another, or
  to come after the page has been left.

### Runs that show a disagreement

Each of these checks one statement of a doc or comment and ends in a counterexample.

- **last_admin** — two requests, each demoting or suspending one of the last two
  administrators, count the other one and both write.
- **cleared_field** — a field of a rule is set to "no restriction" in the form; the request leaves it out, the
  API leaves it as it was, and the page says the rule was updated.
- **subtraction** — a rule set includes a product and excludes one variant; the preview does not count a unit of the product
  that has no variant, though the exclusion does not match it and the resolver gives it the document.
- **refresh** — a page is reloaded while the API cannot be reached; the stored session is thrown away.

### Met while modelling

With no run of their own. Of the first group the modules state the property that fails, by the name given: put
into a cfg, TLC shows the behaviour.

- `NoDuplicatePublication` (Publishing): a revision without inclusion rules can be published again and again, since
  such a rule set conflicts with nothing, itself included (`conflict-detection.ts:53`);
  `docs/publication-lifecycle.md:134-136` says a redundant publish is refused.
- `ConfirmsTheLatestPreview` (PublishWizard): the answer to an earlier visit of the impact step is not cancelled and
  may arrive last; `PublishWizardPage.tsx:78-80` says what is shown is never a stale snapshot.
- `AlreadyPublishedMeansSameRules` (PublishWizard): `publish-preview.service.ts:59-60` says ALREADY_PUBLISHED means
  the same rule set; it is also what a revision gets whose rules were changed since and still meet the published ones.
- `ResultIsOwn` (ImportHistory): who goes back during a commit and previews again sees the count of one import under the
  rows of another; `ImportWizardPage.tsx:561-562` says the step imports exactly what was reviewed.
- `BatchesLookedUpInOrder` (MCImports): `docs/csv-import.md:86-89` says a batch is looked up by internal reference, then
  by name; `imports.service.ts:194-203` puts both into one list, where a hit for each, even of one batch, is ambiguous.

Of the second group the passing runs reach the behaviour, and the property checked says that nothing else leads to it.

- Transitions (`BackOnlyIfOvertaken`): the slower of two writes APPROVED over RETIRED. Rules (`RetiredIsFinal`,
  `RetiredRulesChangeOnlyInFlight`): an edit that read the status before a retirement writes after it, and
  `applicability-rules.service.ts:130-138` has let it through.
- Revoking (`RevokedIsFinal`, `HistoryUnambiguous`): two requests read ACTIVE; the second moves `revokedAt`
  (`publish.service.ts:131`), and with it the past the resolver reports.
- Operators (`LastOperatorGoesInCrossfire`): two who suspend each other at once leave the platform without one.
- Two tabs (`WritesWhereShown`): a tab that switches the organization switches it for the other tab too, whose
  page goes on showing the former one and writes to the new one.
- Imports (`ReviewedBeforeImported`): `docs/csv-import.md:9-12` says the user must see every row's result. The review step
  lists 30 valid and 50 refused rows (`ImportWizardPage.tsx:31-32`, 447-451, 505), tells the number of the others, and the commit
  writes all valid ones. The list of refused rows is not modelled.
- The page of a document (`NeverWaitsInVain`): there is one place for the row with a move under way (`RevisionsTab.tsx:27`), so a row
  is enabled again by the end of a move of another row; and reloads are not cancelled (`DocumentDetailPage.tsx:37-49`), so that an
  earlier answer may be the last to arrive.

The others are read off the code.

- `docs/publication-lifecycle.md:122-124` says preview and resolver implement the same
  semantics; for a range from `A1` to `B2` the resolver matches nothing, and the preview counts
  every `A` unit from 1 to 2. `CountMissesOnlyTheUndecided` excludes such ranges.
- `docs/domain-model.md:73-74` says every mutating call writes an audit event; it is a query of its
  own after the write, and a crash in between loses it.
- `conflict-detection.ts:25-27` says check and write are atomic under the advisory lock. The
  snapshot is older than the wait for the lock, so a transaction that waited checks against what was
  before, finds nothing, and is only stopped at commit: nothing wrong is stored, but the user gets
  an internal error (Prisma P2034) where the docs promise a conflict message.
- `docs/platform-administration.md:75-76` and the comment at `organizations.controller.ts:26-27` say a tenant and the
  invitation of its first administrator are created atomically; `platform-tenants.service.ts:169-182` uses two queries.
- The empty rule list is described as "gilt uneingeschränkt für alle Einheiten" (`RuleBuilderView.tsx:121`,
  `PublishWizardPage.tsx:197`); the resolver finds a publication without inclusion rules for no unit.
- Accepting an invitation overwrites an existing membership (`invitations.service.ts:138-142`):
  an older invitation may demote the last administrator or bring a suspended member back. In
  that sense, too, the promise of `docs/platform-admin.md:73` is not kept.
- A look-up or a revoke that read PENDING before an accept committed writes EXPIRED or REVOKED
  over ACCEPTED. The link stays unusable.
- The comment at `invitations.service.ts:49` says resend revokes any pending invitation for the
  e-mail address; it revokes the one named.
- The button "Abmelden und als … anmelden" (`InviteAcceptPage.tsx:153-159`) goes to the log-in page and logs nobody out.
- The bootstrap script promotes an account that is suspended and leaves it suspended.
- The retry button of the conflicts step (`PublishWizardPage.tsx:238`) does nothing: the effect fetches at the impact
  step only (`:82`).
- `docs/public-access.md:55` says documents of a suspended organization do not resolve; `docs/security.md:190` says, and the
  code does, the opposite.
- `docs/publication-lifecycle.md:55-58` says ACTIVE publications of a key have
  non-overlapping scopes; the check compares only rules of equal specificity
  (`conflict-detection.ts:58`). The resolver needs no more than that.
- The same file, lines 12-13, says re-publishing takes a new revision; a revoked revision
  stays APPROVED and may be published again.
- `docs/domain-model.md:42` and the comment at `applicability-rules.service.ts:131` say rules
  are mutable while not published; only RETIRED is refused (`:135`). Snapshots are not affected.
- `serial.ts:11-12` says a serial without digits is matched only by an empty range; it parses
  to 0 and any range of its prefix that admits 0 matches it.

### Fairness

`Fairness` is weak fairness of each publisher's steps and each revoker's steps after it has
begun. Node runs a handler whose query has been answered; PostgreSQL answers every query
that does not wait for a lock, and serves lock waiters in order. Weak fairness is enough: a
publisher's step, once enabled (it is at the head of the queue), stays enabled until it is
taken. There is no fairness for starting a request, for failures or for the clock. In
the focus on the lock publishers do not die: a holder that dies loses its connection and the lock with
it, which would only end requests sooner. The pages have no liveness property: a request without an answer
keeps a page waiting for as long as the browser does.

## 4. What is proved

Every safety property and every action property of the passing runs is a theorem, except `NeverWaitsInVain`, for any sets of ids, users,
pages and requests, infinite ones included. The theorems use the named assumptions of the modules they are about, and
no others: `Null` is no id, no serial number, no filter and no answer; rules and contexts are well-formed; every revision has a key
and a slot, and those there at the start have different slots; products, variants, batches and serial numbers are apart; initial
tables have their types; founders are users; roles are no statuses; and a column that a header or a user may name as the serial
numbers has serial numbers or blanks (`WizardAssumption`). The code takes any text there for a serial number, so the
last one only says that `Serial` has all the texts that may come up; the model keeps cells that stand for different things apart.

No theorem limits the number of requests, editors, operators, revokers or tabs. What they do to each other is in the properties:
who was overtaken, which publications are contested, which tabs are behind. One theorem has a hypothesis, that there is a founder
(`LastAdminProtected`): an organization nobody founded has no administrator to lose.

| theorem | says |
|---|---|
| *ApplicabilityProofs* | |
| `OverlapIsConservativeForAll`, `OverlapIsConservativeEver` | two rules that match one unit are never held disjoint, for all ids, prefixes and sequences |
| `OverlapIsExactOnSerialsEver` | two well-formed ranges held to overlap share a serial number |
| `CountMissesOnlyTheUndecidedEver` | for ranges of one prefix, and dates aside, the preview counts nothing the resolver would not have and misses only what SQL cannot decide |
| `TieIsConflict` | two rule sets that reach a unit at the same top rank are a conflict of the publish check |
| *PublishingProofs* | |
| `TypeCorrect` | `Spec => []TypeOK` |
| `NoCompetingPublicationsEver` | `Spec => []NoCompetingPublications` |
| `OneCheckedPerKeyEver` | `Spec => []OneCheckedPerKey` |
| `ResolverUnambiguousEver` | `Spec => []ResolverUnambiguous` |
| `PublishingImplementsRegistry` | `Spec => ImplementsRegistry` |
| `RevokedIsFinalEver` | `Spec => RevokedIsFinal` |
| *ReviewProofs* | |
| `NoReviewIsSkipped` | `ReviewSpec => []NoReviewSkipped` |
| `WhatIsFrozenWasApproved` | `ReviewSpec => []FrozenWhileApproved` |
| `TheAuditTellsTheTruth` | `ReviewSpec => []AuditTellsTheTruth` |
| `BackOnlyIfOvertakenEver` | `ReviewSpec => BackOnlyIfOvertaken` |
| `RetiredIsFinalEver` | `Spec => RetiredIsFinal` |
| `HistoryUnambiguousEver` | `ReviewSpec => []HistoryUnambiguous` |
| *LibraryProofs* | |
| `LibraryTypeCorrect` | `LibrarySpec => []LibraryTypeOK` |
| `OneRowPerSlotEver` | `LibrarySpec => []OneRowPerSlot` |
| `PublishedHaveFilesEver` | `LibrarySpec => []PublishedHaveFiles` |
| `RevokedNotServedEver` | `LibrarySpec => []RevokedNotServed` |
| *InvitationsProofs* | |
| `InvitationTypeCorrect` | `Spec => []TypeOK` of Invitations |
| `AcceptedMeansMemberEver` | `Spec => []AcceptedMeansMember` |
| `RejectedStaysRejectedEver` | `Spec => RejectedStaysRejected` |
| `NoLinkIsUsedTwice` | `InvitationHistorySpec => []TokenUsedOnce` |
| `LastAdminGoesOnlyBehindBacks` | `InvitationHistorySpec => []LastAdminProtected`, with a founder |
| *ImportsProofs* | |
| `CatalogueTypeCorrect` | `ImportSpec => []CatalogueTypeOK` |
| `UnitsConsistentEver` | `ImportSpec => []UnitsConsistent` |
| `ImportPagesKeepTheirTypes` | `ImportHistorySpec => []TypeOK` |
| `ImportsStayWhole` | `ImportHistorySpec => []ImportsAreWhole` |
| `ReviewedBeforeImportedEver` | `ImportHistorySpec => []ReviewedBeforeImported` |
| `ResultsAreOwnUnlessStrayed` | `ImportHistorySpec => []ResultIsOwnIfNotStrayed` |
| *SessionsProofs* | |
| `PortalTypes` | `PortalSpec => []PortalTypeOK` |
| `WritesHadAccessAlways` | `AccessSpec => []WritesHadAccess` |
| `LastOperatorGoesOnlyInCrossfire` | `PortalSpec => LastOperatorGoesInCrossfire` |
| `WritesGoWhereShown` | `AccessSpec => WritesWhereShown` |
| *ConsoleProofs* | |
| `TheListAnswersLatest` | `ConsoleSpec => []ListAnswersLatest` |
| `TheOpenedIsRevoked` | `ConsoleSpec => []RevokesWhatWasOpened` |
| `TheReportedIsListed` | `ConsoleSpec => []ReportedIsListed` |
| `ConfirmationsAreRefusedForNews` | `ConsoleSpec => []RefusedForNews` |
| `RetiredRulesAreChangedInFlight` | `ConsoleSpec => RetiredRulesChangeOnlyInFlight` |

*Rules.* Whoever is in two ranges has the prefix of both and lies behind no upper and before no lower bound, so the overlap test
finds no gap (`MatchingSerialsMeet`). Conversely, without a gap the higher of the lower bounds is in both, or, if neither
range has one, number 0 of the prefix (`OverlappingRangesMeet`). The WHERE clause takes one prefix for a range and
the resolver compares both bounds with the unit's; with one prefix that is the same (`WhereClauseIsScope`). Of a unit that has every field
the rule names, the clause is either true or its NOT is (`WhereClauseDecides`).

*Types.* `TypeOK` is not inductive: a revoke request writes to the publication it names,
which must exist. `TypeInv` adds `RevocationsRefer`.

*No competing publications.* `SafetyInv` is `TypeInv` with three more parts. `SnapshotInv`: what a
transaction saw are publications, and those ACTIVE now that it saw were ACTIVE when it saw
them. `CheckInv`: past its check a transaction conflicts with nothing it saw ACTIVE.
`NoCompetingPublications` itself. A commit then adds a publication that conflicts neither
with what it saw (by the check, as REVOKED is for good) nor with what was
published since (there is none, or the commit is refused). **The argument does not mention the
advisory lock**: serializable isolation alone carries the safety, the lock only turns most
serialization failures into waiting. In the model, removing the commit rule breaks the property and
removing the lock does not. An isolation level below SERIALIZABLE would lose it.

*The lock.* `OneCheckedPerKeyEver` rests on `LockInv`: a checked transaction is at the head of
its key's queue, and no transaction is in a queue twice.

*Resolver.* If two publications of a key were both at the top for a unit, both are in force now,
hence ACTIVE (`TimeInv`: no stamp lies in the future), and `TieIsConflict` contradicts
`NoCompetingPublications`.

*Refinement.* `RegistryView` forgets the stamps. A commit is the abstract `Publish`, whose guard is
the argument above; the first write of a revocation is `Revoke`; everything else stutters, the
second write of a racing revocation included.

*What has ended.* `RevokedIsFinal` needs `EndedStays` only: a revocation writes to what it found ACTIVE, so no request
gets to write to a publication that is REVOKED when the request begins.

*History.* `HistoryInv` (in ReviewProofs, where requests are remembered) adds that of publications that are not contested a conflicting
pair was never in force together: one was revoked no later than the other was published (`DisjointInv`), which needs
that what a transaction saw and did not check had ended before it began its snapshot
(`EndedInv`), and that what a revoke request is about to write to is ACTIVE or contested (`ContestInv`).

*Files.* `FilesInv`: no two rows of one slot, rows have whole files, uploads in flight are of revisions
that have no row yet, each of another one, and an upload about to insert has written its file (`UploadsHold`). `RowsInv` adds that
what is published, or about to be, has a row; requests start with revisions that exist, and rows do not go.

*Downloads.* `GoneInv`: what had ended before a download was asked for is still `Ended`, with a stamp no later
than the moment the download then fixed. The resolver at that moment does not find it (`EndedNotFound`). What another revocation is
still to write to has not ended: its stamp may yet move.

*Invitations.* `InvitationInv` is `TypeOK` with five more parts. `ChangesRefer`, `ErrandsRefer` and `VisitsRefer`:
what a request holds exists. `ClaimsHold`: what a transaction has claimed is PENDING and
claimed by no other one, which the row lock gives. `AcceptedMeansMember` itself. Every write by an
administrator or by time spares the rows that are claimed (`TableStepKeepsInv`), so a commit finds its
invitation PENDING; that is `RejectedStaysRejected`.

*Catalogue and imports.* `ImportInv`: `UnitsConsistent` and the types, and that all rows on their way into
the table fit it now: the row or patch of a request that is about to write (`WorkInv`), the rows staged
and the rows being committed (`PendingInv`, `HandlerInv`), and what a preview has found so far, by the stage it
has reached (`FoundFits`). What fits once fits for good, however much later it is written, because items
are never deleted (`ItemsStay`) and a unit never changes its product: that is why no lock is needed between a
check and its write. `ImportSpec` is the API with any client.

*Last administrator.* `WithdrawalSafe`: who is about to write a withdrawal leaves another active administrator.
`ProtectionInv`: this, and an active administrator, remain until one goes while another withdrawal has been let
through, or by an invitation; that is what `undermined` records, and nothing less does. Promotions, the other changes, failures
and the reads of any number of requests keep it (`ManagerKeepsProtection`).

*A link is used once.* `UsedInv`: what is PENDING has not been accepted. No step makes an invitation PENDING again
(`PendingOnlyOnce`), and an accept, whose claim has kept others off the row, ends it.

*Review.* `ReviewInv` remembers: a status has been reached; APPROVED only from a revision in review, RETIRED only from
one approved, also by requests that have read and not yet written. Racing transitions may move the status back and
forth, but only among what was reached, so a transaction that read APPROVED carries a revision that was reviewed.
`FrozenInv` and `AuditInv` say the same of the rules a transaction has read and of what a request is about to record.
`PlannedInv`: what a request found when it read the revision still holds when it writes, unless it was overtaken. `SettledStays`: no request
gets past a check of a revision that is RETIRED.

*Imports and their pages.* `WizardInv` is `ImportInv` with four more parts. `StoreInv`: what is in the store is what
was staged. `RequestsInv`: a commit inserts what was staged under an id that a review step has shown. `WholeInv`: all rows
of an import that is in the catalogue are there, which is why a second commit of the same import collides with
the first, and an import that is not has left no unit. `PagesInv`: a page shows what was staged and waits for a call of its kind;
a page that has not been left during a commit waits for the commit of what it shows. The ids of an import are never
used twice, also not after a restart. `ListedInv`: what has been listed of an import is what the step lists of its rows.

*Guards.* `AccountsInv` adds to the types what requests are sent with and what the guards have seen to by each point.
`AccessInv`: past `Validate` an account has been seen active, past `GuardTenant` the membership and the tenant too. It is not
true that they still are: a suspension in between is not noticed. `OfOperators`: past
the guard, a request to suspend is of an operator; nobody suspends themselves (`OneStays`), so if nobody is left, the one
who suspended the last was suspended before his request was written.

*Tabs.* `SelectionInv`: a tab under which no other one has stored a selection shows the one that is stored, although an operation of the
store that nobody has cancelled may change both at any time (`RenewalsStore`).

*Publishing pages.* `ConsoleInv` has a part for each of the three promises. The history page: there is one request for
a list at a time, the one it waits for, since a new one cancels the last (`ListCalls`); what comes for the drawer is of the
publication opened, or of a revocation that has ended (`DrawerCalls`, `DrawerInv`); a
revoked publication stays so in the registry (`Gone`). The wizard: a preview without
conflicts competes with none of the publications it read (`PreviewFits`), so that a refusal needs another rule set or another
publication. The rules: `CheckedInv` says what a
handler past its check may rely on. The rule it is about to write to is of the revision it was asked about, or has been deleted: the
API finds a rule by its id and its revision (`Finds`), a rule never changes its revision, and its id is not used again.

*Only model-checked:* `PublishEnds`, as liveness is out of reach of the prover, and `NeverWaitsInVain`, which needs of all pages what
each leaves to the requests of the others. That the actions can happen at all, and
that each property can fail, is shown by the runs and their mutants. No RECURSIVE operator is used anywhere, and no
proof needs induction over data; the one least element there is, of the columns of a field, is `WFMin` of the library.

## 5. What is not modelled, and the plan

Left out for good: rendering and layout of the web client, QR images, the splitting of CSV text into cells,
logging, rate limits, deployment, password hashing and token signing, filtering and paging of other lists. Tenancy is a filter on every
query: except in Accounts and Sessions a model is one organization. Documents and product families are single rows under unique keys;
the remaining pages are forms and lists over one request each.

Next, in this order:

1. The pages' view of the API as a refinement: Desk against PublicationRegistry, and Uploads against an atomic upload.
2. `NeverWaitsInVain` for any number of requests.
3. Documents: creation and archiving against uploads and publishing.

The hazards in `PROJECT.json` name the lines; those without a property say why none covers them.
