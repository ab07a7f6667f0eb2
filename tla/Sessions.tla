------------------------------ MODULE Sessions ------------------------------
(***************************************************************************)
(* The session of a browser: the token and the selected organization in    *)
(* localStorage, which all tabs share and every request reads as it is     *)
(* sent, and the store of each tab, which shows who is logged in where.    *)
(*                                                                         *)
(* An operation of the store sends a request, goes on with its answer,     *)
(* perhaps sends the next, and is not cancelled by anything but a reload:  *)
(* whatever happened to the tab meanwhile is overwritten.                  *)
(***************************************************************************)
EXTENDS Accounts

CONSTANTS
  Tab,
  Task    \* operations of the store that may be in flight: bounds them

Page == {"login", "register", "organization", "invite", "app"}

ASSUME SessionsAssumption == Null \notin Page

VARIABLES
  stored,   \* localStorage
  tab,      \* the page and the store of every tab
  task      \* operations in flight

sessionVars == <<stored, tab, task>>
vars == <<accountsVars, sessionVars>>

Stored == [token : User \cup {Null}, org : Org \cup {Null}]

TabState ==
  [page : Page, status : {"idle", "loading", "authenticated", "unauthenticated"},
   user : User \cup {Null}, orgs : SUBSET Org, org : Org \cup {Null},
   listed : Org \cup {Null}]

NoTask ==
  [pc |-> "free", tab |-> Null, op |-> Null, as |-> Null, org |-> Null,
   goal |-> Null, answer |-> {}]

\* as: whose token or password is sent.  org: the one asked for.  goal: the page
\* to go to in the end.
TaskState ==
  [pc : {"sent", "answered", "failed"}, tab : Tab,
   op : {"register", "login", "first", "restore", "found", "founded", "accept",
         "accepted", "join", "members"},
   as : User, org : Org \cup {Null}, goal : Page \cup {Null}, answer : SUBSET Org]

PortalTypeOK ==
  /\ AccountsTypeOK
  /\ stored \in Stored
  /\ tab \in [Tab -> TabState]
  /\ task \in [Task -> TaskState \cup {NoTask}]

\* What a tab knows when it is loaded: no user yet, but the selection.
Loaded(page) ==
  [page |-> page, status |-> "idle", user |-> Null, orgs |-> {}, org |-> stored.org,
   listed |-> Null]

----------------------------------------------------------------------------
\* Requests of the store

Issue(k, t, op, as, org, goal) ==
  task' = [task EXCEPT ![k] =
    [pc |-> "sent", tab |-> t, op |-> op, as |-> as, org |-> org, goal |-> goal,
     answer |-> {}]]

\* The next request of the same operation.
Follow(k, op) == task' = [task EXCEPT ![k].op = op, ![k].pc = "sent"]

Finish(k) == task' = [task EXCEPT ![k] = NoTask]

Lists == {"first", "restore", "founded", "accepted"}

\* What the API does with the request, if it accepts it.
Serves(q) ==
  \/ q.op = "register" /\ Register(q.as)
  \/ q.op = "login" /\ account[q.as] = "ACTIVE" /\ UNCHANGED tables
  \/ q.op \in Lists /\ account[q.as] = "ACTIVE" /\ UNCHANGED tables
  \/ q.op = "members" /\ account[q.as] = "ACTIVE" /\ member[q.as][q.org] = "ACTIVE"
       /\ tenant[q.org] # "CLOSED" /\ UNCHANGED tables
  \/ q.op = "found" /\ CreateOrganization(q.as, q.org)
  \/ q.op = "accept" /\ AcceptInvitation(q.as, q.org, TRUE)
  \/ q.op = "join" /\ AcceptInvitation(q.as, q.org, FALSE)

Answer(k) ==
  /\ task[k].pc = "sent"
  /\ Serves(task[k])
  /\ task' = [task EXCEPT ![k].pc = "answered", ![k].answer =
       IF task[k].op \in Lists THEN OrganizationsOf(task[k].as) ELSE {}]
  /\ UNCHANGED <<request, trail, stored, tab>>

\* The request is refused, or it or its answer is lost: apiRequest throws.
Fail(k) ==
  /\ task[k].pc \in {"sent", "answered"}
  /\ task' = [task EXCEPT ![k].pc = "failed", ![k].answer = {}]
  /\ UNCHANGED <<accountsVars, stored, tab>>

----------------------------------------------------------------------------
\* Where a tab is

\* RequireAuth sends whoever is not logged in from the app to the log-in page.
AtLogin(t) ==
  tab[t].page = "login" \/ (tab[t].page = "app" /\ tab[t].status = "unauthenticated")

InApp(t) == tab[t].page = "app" /\ tab[t].status = "authenticated"

\* On the invitation's page only an authenticated session counts.
KnownAs(t) == IF tab[t].status = "authenticated" THEN tab[t].user ELSE Null

Visit(t, page) ==
  /\ page \in {"login", "invite", "app"} \cup IF SelfService THEN {"register"} ELSE {}
  /\ page # tab[t].page
  /\ tab' = [tab EXCEPT ![t].page = page, ![t].listed = Null]
  /\ UNCHANGED <<accountsVars, stored, task>>

\* Answers to a page that is gone are not heard.
Reload(t) ==
  /\ tab' = [tab EXCEPT ![t] = Loaded(IF @.page = "organization" THEN "register" ELSE @.page)]
  /\ task' = [k \in Task |-> IF task[k].tab = t THEN NoTask ELSE task[k]]
  /\ UNCHANGED <<accountsVars, stored>>

----------------------------------------------------------------------------
\* Restoring a session

\* Only RequireAuth and the invitation's page restore.
Bootstrap(t, k) ==
  /\ tab[t].status = "idle" /\ tab[t].page \in {"app", "invite"}
  /\ task[k].pc = "free"
  /\ IF stored.token = Null
       THEN tab' = [tab EXCEPT ![t].status = "unauthenticated"] /\ UNCHANGED task
       ELSE /\ tab' = [tab EXCEPT ![t].status = "loading"]
            /\ Issue(k, t, "restore", stored.token, Null, Null)
  /\ UNCHANGED <<accountsVars, stored>>

\* organizations[0] is any of them.
FirstOf(orgs) == IF orgs = {} THEN {Null} ELSE orgs

Select(org) == stored' = [stored EXCEPT !.org = org]

\* Who creates an account by an invitation goes on to the app either way.
Arrive(now, goal) ==
  IF goal = "app" \/ (goal = "organization" /\ now.page = "register")
    THEN [now EXCEPT !.page = goal, !.listed = Null] ELSE now

Authenticated(now, orgs, org, goal) ==
  Arrive([now EXCEPT !.status = "authenticated", !.orgs = orgs, !.org = org], goal)

Restored(k) ==
  LET q == task[k]
      keep == stored.org \in q.answer
  IN /\ q.pc = "answered" /\ q.op = "restore"
     /\ \E o \in IF keep THEN {stored.org} ELSE FirstOf(q.answer) :
          /\ Select(o)
          /\ tab' = [tab EXCEPT ![q.tab] =
               Authenticated([@ EXCEPT !.user = q.as], q.answer, o, q.goal)]
     /\ Finish(k)
     /\ UNCHANGED accountsVars

\* Whatever the reason: the session is discarded.
RestoreFailed(k) ==
  LET q == task[k]
  IN /\ q.pc = "failed" /\ q.op = "restore"
     /\ stored' = [token |-> Null, org |-> Null]
     /\ tab' = [tab EXCEPT ![q.tab] = Arrive([@ EXCEPT
          !.status = "unauthenticated", !.user = Null, !.orgs = {}, !.org = Null], q.goal)]
     /\ Finish(k)
     /\ UNCHANGED accountsVars

----------------------------------------------------------------------------
\* Registering and logging in

SubmitRegistration(t, k, u) ==
  /\ tab[t].page = "register" /\ task[k].pc = "free"
  /\ tab' = [tab EXCEPT ![t].status = "loading"]
  /\ Issue(k, t, "register", u, Null, "organization")
  /\ UNCHANGED <<accountsVars, stored>>

Registered(k) ==
  /\ task[k].pc = "answered" /\ task[k].op = "register"
  /\ tab' = [tab EXCEPT ![task[k].tab].status = "loading"]
  /\ Follow(k, "login")
  /\ UNCHANGED <<accountsVars, stored>>

SubmitLogin(t, k, u) ==
  /\ AtLogin(t) /\ task[k].pc = "free"
  /\ tab' = [tab EXCEPT ![t].status = "loading", ![t].page = "login"]
  /\ Issue(k, t, "login", u, Null, "app")
  /\ UNCHANGED <<accountsVars, stored>>

\* The token is stored before the organizations are there.  Logging in leads to
\* the app; the page that sent for it can be visited again.
LoggedIn(k) ==
  LET q == task[k]
  IN /\ q.pc = "answered" /\ q.op = "login"
     /\ stored' = [stored EXCEPT !.token = q.as]
     /\ tab' = [tab EXCEPT ![q.tab].user = q.as]
     /\ Follow(k, "first")
     /\ UNCHANGED accountsVars

FirstSelected(k) ==
  LET q == task[k]
  IN /\ q.pc = "answered" /\ q.op = "first"
     /\ \E o \in FirstOf(q.answer) :
          /\ Select(o)
          /\ tab' = [tab EXCEPT ![q.tab] = Authenticated(@, q.answer, o, q.goal)]
     /\ Finish(k)
     /\ UNCHANGED accountsVars

\* A token that was stored stays stored.
LoginFailed(k) ==
  /\ task[k].pc = "failed" /\ task[k].op \in {"register", "login", "first"}
  /\ tab' = [tab EXCEPT ![task[k].tab].status = "unauthenticated"]
  /\ Finish(k)
  /\ UNCHANGED <<accountsVars, stored>>

\* The last page of the registration; its request carries whatever token is
\* stored by then.
SubmitOrganization(t, k, o) ==
  /\ tab[t].page = "organization" /\ task[k].pc = "free"
  /\ stored.token # Null
  /\ Issue(k, t, "found", stored.token, o, "app")
  /\ UNCHANGED <<accountsVars, stored, tab>>

----------------------------------------------------------------------------
\* Invitations

AcceptAsCurrentUser(t, k, o) ==
  /\ tab[t].page = "invite" /\ task[k].pc = "free"
  /\ KnownAs(t) # Null /\ stored.token # Null
  /\ <<KnownAs(t), o>> \in invited
  /\ Issue(k, t, "accept", stored.token, o, "app")
  /\ UNCHANGED <<accountsVars, stored, tab>>

\* The form is there while the session is still being restored.
SubmitAccount(t, k, u, o) ==
  /\ tab[t].page = "invite" /\ task[k].pc = "free"
  /\ KnownAs(t) = Null
  /\ <<u, o>> \in invited
  /\ Issue(k, t, "join", u, o, "app")
  /\ UNCHANGED <<accountsVars, stored, tab>>

\* The new account's session is restored like any other.
Joined(k) ==
  LET q == task[k]
  IN /\ q.pc = "answered" /\ q.op = "join"
     /\ stored' = [stored EXCEPT !.token = q.as]
     /\ tab' = [tab EXCEPT ![q.tab].status = "loading"]
     /\ Follow(k, "restore")
     /\ UNCHANGED accountsVars

\* What was created or accepted leads to a new list of organizations, asked for
\* with whatever token is stored by then.
Relist(k, op, next) ==
  /\ task[k].pc = "answered" /\ task[k].op = op
  /\ task' = [task EXCEPT ![k] =
       IF stored.token = Null THEN [@ EXCEPT !.op = next, !.pc = "failed"]
                              ELSE [@ EXCEPT !.op = next, !.pc = "sent", !.as = stored.token]]
  /\ UNCHANGED <<accountsVars, stored, tab>>

OrganizationCreated(k) == Relist(k, "found", "founded")
InvitationAccepted(k)  == Relist(k, "accept", "accepted")

\* One's own organization is selected, listed or not; the one of an invitation
\* only if it is listed.
Refreshed(k) ==
  LET q == task[k]
      now == tab[q.tab]
      selected == IF q.op = "founded" \/ q.org \in q.answer THEN {q.org}
                  ELSE IF now.org # Null THEN {now.org} ELSE FirstOf(q.answer)
  IN /\ q.pc = "answered" /\ q.op \in {"founded", "accepted"}
     /\ \E o \in selected :
          /\ Select(o)
          /\ tab' = [tab EXCEPT ![q.tab] =
               Arrive([@ EXCEPT !.orgs = q.answer, !.org = o], q.goal)]
     /\ Finish(k)
     /\ UNCHANGED accountsVars

\* The page shows the error.
NotDone(k) ==
  /\ task[k].pc = "failed" /\ task[k].op \in {"found", "founded", "accept", "accepted", "join", "members"}
  /\ Finish(k)
  /\ UNCHANGED <<accountsVars, stored, tab>>

----------------------------------------------------------------------------
\* In the app

Logout(t) ==
  /\ InApp(t)
  /\ stored' = [token |-> Null, org |-> Null]
  /\ tab' = [tab EXCEPT ![t] = [@ EXCEPT !.page = "login", !.status = "unauthenticated",
       !.user = Null, !.orgs = {}, !.org = Null, !.listed = Null]]
  /\ UNCHANGED <<accountsVars, task>>

\* Mutant: only the tab hears of the selection.
SwitchShown(t, o) ==
  /\ InApp(t) /\ o \in tab[t].orgs \ {tab[t].org}
  /\ tab' = [tab EXCEPT ![t].org = o]
  /\ UNCHANGED <<accountsVars, stored, task>>

SwitchOrganization(t, o) ==
  /\ InApp(t) /\ o \in tab[t].orgs \ {tab[t].org}
  /\ Select(o)
  /\ tab' = [tab EXCEPT ![t].org = o]
  /\ UNCHANGED <<accountsVars, task>>

\* The members' page: the path names the organization shown, the API follows
\* the header.
LoadMembers(t, k) ==
  /\ InApp(t) /\ tab[t].org # Null /\ tab[t].listed # tab[t].org
  /\ task[k].pc = "free" /\ stored.token # Null /\ stored.org # Null
  /\ Issue(k, t, "members", stored.token, stored.org, Null)
  /\ UNCHANGED <<accountsVars, stored, tab>>

\* Late answers are not told from the latest one.
MembersLoaded(k) ==
  /\ task[k].pc = "answered" /\ task[k].op = "members"
  /\ tab' = [tab EXCEPT ![task[k].tab].listed =
       IF InApp(task[k].tab) THEN task[k].org ELSE @]
  /\ Finish(k)
  /\ UNCHANGED <<accountsVars, stored>>

SubmitInvitation(t, h, u) ==
  /\ InApp(t) /\ tab[t].org # Null /\ stored.token # Null
  /\ Send(h, "invite", stored.token, stored.org, Null, u, Null)
  /\ UNCHANGED sessionVars

ToggleMember(t, h, u, value) ==
  /\ InApp(t) /\ tab[t].org # Null /\ tab[t].listed # Null /\ stored.token # Null
  /\ Send(h, "member", stored.token, stored.org, tab[t].listed, u, value)
  /\ UNCHANGED sessionVars

----------------------------------------------------------------------------
\* The platform's pages.  Their shell is for operators, as the store knows them.
Operates(t) == InApp(t) /\ tab[t].user \in platformAdmin /\ stored.token # Null

SubmitTenant(t, h, o, u) ==
  /\ Operates(t)
  /\ Send(h, "found", stored.token, o, Null, u, Null)
  /\ UNCHANGED sessionVars

ConfirmTenantStatus(t, h, o, value) ==
  /\ Operates(t)
  /\ tenant[o] # Null /\ value \in TenantStatus \ {"TRIAL"}
  /\ Send(h, "tenant", stored.token, o, Null, Null, value)
  /\ UNCHANGED sessionVars

ToggleUser(t, h, u, value) ==
  /\ Operates(t)
  /\ account[u] # Null
  /\ Send(h, "user", stored.token, Null, Null, u, value)
  /\ UNCHANGED sessionVars

\* Another browser or client of the API, with a token of its own.
OtherClient(h, kind, user, org, listed, target, value) ==
  /\ Demanded(kind, org, target, value)
  /\ Send(h, kind, user, org, listed, target, value)
  /\ UNCHANGED sessionVars

----------------------------------------------------------------------------
OpenSession(t) ==
  \/ \E page \in Page : Visit(t, page)
  \/ Reload(t)
  \/ \E k \in Task : Bootstrap(t, k)
  \/ \E k \in Task, u \in User : SubmitRegistration(t, k, u) \/ SubmitLogin(t, k, u)
  \/ \E k \in Task, o \in Org : SubmitOrganization(t, k, o) \/ AcceptAsCurrentUser(t, k, o)
  \/ \E k \in Task, u \in User, o \in Org : SubmitAccount(t, k, u, o)

UseApp(t) ==
  \/ Logout(t)
  \/ \E o \in Org : SwitchOrganization(t, o)
  \/ \E k \in Task : LoadMembers(t, k)
  \/ \E h \in Handler, u \in User : SubmitInvitation(t, h, u)
  \/ \E h \in Handler, u \in User, value \in AccountStatus : ToggleMember(t, h, u, value)

Operate(t) ==
  \/ \E h \in Handler, o \in Org, u \in User : SubmitTenant(t, h, o, u)
  \/ \E h \in Handler, o \in Org, value \in TenantStatus : ConfirmTenantStatus(t, h, o, value)
  \/ \E h \in Handler, u \in User, value \in AccountStatus : ToggleUser(t, h, u, value)

TaskStep(k) ==
  \/ Answer(k) \/ Fail(k)
  \/ Restored(k) \/ RestoreFailed(k)
  \/ Registered(k) \/ LoggedIn(k) \/ FirstSelected(k) \/ LoginFailed(k)
  \/ OrganizationCreated(k) \/ InvitationAccepted(k) \/ Refreshed(k) \/ Joined(k)
  \/ NotDone(k) \/ MembersLoaded(k)

Step(h) == RequestStep(h) /\ UNCHANGED sessionVars

PortalNext ==
  \/ \E t \in Tab : OpenSession(t) \/ UseApp(t) \/ Operate(t)
  \/ \E k \in Task : TaskStep(k)
  \/ \E h \in Handler, kind \in TenantWrite \cup PlatformWrite, user \in User,
        org, listed \in Org \cup {Null}, target \in User \cup {Null},
        value \in AccountStatus \cup TenantStatus \cup {Null} :
       OtherClient(h, kind, user, org, listed, target, value)
  \/ \E h \in Handler : Step(h)
  \/ \E u \in User : BootstrapPlatformAdmin(u) /\ UNCHANGED sessionVars

\* Browsers are opened, with whatever is stored, while no request is in flight.
PortalInit ==
  /\ AccountsTypeOK
  /\ request = [h \in Handler |-> NoRequest]
  /\ trail = {}
  /\ stored \in Stored
  /\ \E page \in [Tab -> Page] : tab = [t \in Tab |-> Loaded(page[t])]
  /\ task = [k \in Task |-> NoTask]

PortalSpec == PortalInit /\ [][PortalNext]_vars

----------------------------------------------------------------------------
\* Properties

\* A session that is stored is only discarded when its user logs out or the API
\* no longer accepts it: "The token and current org id are persisted to
\* `localStorage` so a refresh doesn't log the user out" (apps/web/README.md:678-679).
RefreshKeepsSession ==
  [][stored.token # Null /\ stored'.token = Null
       => account[stored.token] # "ACTIVE" \/ \E t \in Tab : Logout(t)]_vars
=============================================================================
