--------------------------- MODULE SessionsProofs ---------------------------
(***************************************************************************)
(* What the guards and the session of a browser guarantee, for any number  *)
(* of people, organizations, requests in flight, tabs and operations.      *)
(***************************************************************************)
EXTENDS AccessHistory, TLAPS

----------------------------------------------------------------------------
\* Requests that are in flight

Requests == [Handler -> Request \cup {NoRequest}]

InFlight == {"sent", "known", "handle", "invite", "record", "note"}

\* All but the progress of a request stays as it was sent.
SameRequest(p, q) ==
  /\ p.kind = q.kind /\ p.user = q.user /\ p.org = q.org /\ p.listed = q.listed
  /\ p.target = q.target /\ p.value = q.value

OthersAsTheyAre(h) == \A g \in Handler \ {h} : request'[g] = request[g]

LEMMA IdleIsNoRequest ==
  ASSUME request \in Requests, NEW h \in Handler, request[h].pc # "idle"
  PROVE  request[h] \in Request
  BY DEF Requests, NoRequest

LEMMA Advancing ==
  ASSUME request \in Requests, NEW h \in Handler, request[h].pc # "idle",
         NEW pc \in InFlight, Advance(h, pc)
  PROVE  /\ request' \in Requests /\ OthersAsTheyAre(h)
         /\ request'[h] \in Request /\ request'[h].pc = pc
         /\ SameRequest(request'[h], request[h])
<1>1. request[h] \in Request
  BY IdleIsNoRequest
<1>2. request'[h] = [request[h] EXCEPT !.pc = pc]
  BY DEF Advance, Requests
<1>3. request'[h] \in Request /\ request'[h].pc = pc /\ SameRequest(request'[h], request[h])
  BY <1>1, <1>2 DEF Request, InFlight, SameRequest
<1> QED BY <1>3 DEF Advance, Requests, OthersAsTheyAre

LEMMA Ending ==
  ASSUME request \in Requests, NEW h \in Handler, End(h)
  PROVE  request' \in Requests /\ OthersAsTheyAre(h) /\ request'[h] = NoRequest
  BY DEF End, Requests, OthersAsTheyAre

LEMMA Starting ==
  ASSUME request \in Requests, NEW h \in Handler, NEW q \in Request,
         request' = [request EXCEPT ![h] = q]
  PROVE  request' \in Requests /\ OthersAsTheyAre(h) /\ request'[h] = q
  BY DEF Requests, OthersAsTheyAre

----------------------------------------------------------------------------
\* What a request is sent with, and what the guards have made sure of

WellSent(q) ==
  /\ q.kind \in {"member", "user"} => q.value \in AccountStatus
  /\ q.kind = "tenant" => q.org \in Org /\ q.value \in TenantStatus
  /\ q.kind = "found" => q.org \in Org
  /\ q.kind \in {"invite", "member", "user", "found"} => q.target \in User

WellGuarded(q) ==
  /\ q.pc = "known" => q.kind \in TenantWrite
  /\ q.pc = "invite" => q.kind = "found"
  /\ q.pc \in {"handle", "record"} /\ q.kind \in TenantWrite => q.org \in Org

RequestsInv ==
  \A h \in Handler : request[h].pc # "idle" => WellSent(request[h]) /\ WellGuarded(request[h])

AccountsInv == AccountsTypeOK /\ RequestsInv

\* What a handler's step does to its request, and what it needs of the tables.
Handled(h) ==
  /\ OthersAsTheyAre(h)
  /\ request[h] \in Request
  /\ \/ request'[h] = NoRequest
     \/ request'[h] \in Request /\ SameRequest(request'[h], request[h])

LEMMA RequestsGoOn ==
  ASSUME RequestsInv, NEW h \in Handler, Handled(h),
         request'[h] # NoRequest => WellGuarded(request'[h])
  PROVE  RequestsInv'
<1>1. ASSUME NEW g \in Handler, request'[g].pc # "idle"
      PROVE  WellSent(request'[g]) /\ WellGuarded(request'[g])
  <2>1. CASE g # h
    BY <1>1, <2>1 DEF RequestsInv, Handled, OthersAsTheyAre
  <2>2. CASE g = h
    <3>1. request'[h] # NoRequest /\ request[h].pc # "idle"
      BY <1>1, <2>2 DEF NoRequest, Handled, Request
    <3> QED BY <2>2, <3>1 DEF RequestsInv, Handled, WellSent, SameRequest
  <2> QED BY <2>1, <2>2
<1> QED BY <1>1 DEF RequestsInv

LEMMA RequestStepKeeps ==
  ASSUME AccountsInv, NEW h \in Handler, RequestStep(h)
  PROVE  AccountsInv' /\ Handled(h)
<1> USE AccountsAssumption
<1> DEFINE q == request[h]
<1>0. /\ request \in Requests /\ RequestsInv
      /\ account \in [User -> AccountStatus \cup {Null}]
      /\ platformAdmin \subseteq {u \in User : account[u] # Null}
      /\ tenant \in [Org -> TenantStatus \cup {Null}]
      /\ member \in [User -> [Org -> AccountStatus \cup {Null}]]
      /\ invited \subseteq User \X Org
  BY DEF AccountsInv, AccountsTypeOK, Requests
<1>1. q.pc # "idle"
  BY DEF RequestStep, Validate, GuardTenant, Invite, SetMemberStatus, SetUserStatus,
         SetTenantStatus, FoundTenant, SlugTaken, Record, RequestFails, Handles
<1>2. q \in Request /\ WellSent(q) /\ WellGuarded(q)
  BY <1>0, <1>1, IdleIsNoRequest DEF RequestsInv
\* A step ends the request, or takes it on to a place it may be at.
<1>3. ASSUME End(h) PROVE request' \in Requests /\ Handled(h) /\ RequestsInv'
  <2>1. request' \in Requests /\ Handled(h) /\ request'[h] = NoRequest
    BY <1>0, <1>2, <1>3, Ending DEF Handled
  <2> QED BY <1>0, <2>1, RequestsGoOn
<1>4. ASSUME NEW pc \in InFlight, Advance(h, pc),
             pc = "known" => q.kind \in TenantWrite,
             pc = "invite" => q.kind = "found",
             pc \in {"handle", "record"} /\ q.kind \in TenantWrite => q.org \in Org
      PROVE  request' \in Requests /\ Handled(h) /\ RequestsInv'
  <2>1. /\ request' \in Requests /\ Handled(h) /\ request'[h].pc = pc
        /\ SameRequest(request'[h], q)
    BY <1>0, <1>1, <1>2, <1>4, Advancing DEF Handled
  <2>2. WellGuarded(request'[h])
    BY <1>4, <2>1 DEF WellGuarded, SameRequest
  <2> QED BY <1>0, <2>1, <2>2, RequestsGoOn
<1> DEFINE TablesOK ==
      /\ account \in [User -> AccountStatus \cup {Null}]
      /\ platformAdmin \subseteq {u \in User : account[u] # Null}
      /\ tenant \in [Org -> TenantStatus \cup {Null}]
      /\ member \in [User -> [Org -> AccountStatus \cup {Null}]]
      /\ invited \subseteq User \X Org
<1>5. ASSUME UNCHANGED tables PROVE TablesOK'
  BY <1>0, <1>5 DEF tables
<1>6. ASSUME request' \in Requests, Handled(h), RequestsInv', TablesOK'
      PROVE  AccountsInv' /\ Handled(h)
  BY <1>6 DEF AccountsInv, AccountsTypeOK, Requests
<1> HIDE DEF TablesOK
<1>7. CASE Validate(h)
  <2>1. \/ End(h)
        \/ Advance(h, "known") /\ q.kind \in TenantWrite
        \/ Advance(h, "handle") /\ q.kind \in PlatformWrite
    BY <1>7 DEF Validate
  <2>2. q.kind \in PlatformWrite => q.kind \notin TenantWrite
    BY DEF PlatformWrite, TenantWrite
  <2> QED BY <1>3, <1>4, <1>5, <1>6, <1>7, <2>1, <2>2 DEF InFlight, Validate
<1>8. CASE GuardTenant(h)
  <2>1. q.org # Null => q.org \in Org
    BY <1>2 DEF Request
  <2>2. End(h) \/ (Advance(h, "handle") /\ q.org \in Org)
    BY <1>8, <2>1, Zenon DEF GuardTenant, Admits
  <2> QED BY <1>3, <1>4, <1>5, <1>6, <1>8, <2>2 DEF InFlight, GuardTenant
<1>9. CASE Invite(h)
  <2>1. q.target \in User /\ q.org \in Org /\ Advance(h, "record")
    BY <1>2, <1>9 DEF Invite, Handles, WellSent, WellGuarded, TenantWrite
  <2>2. TablesOK'
    BY <1>0, <1>9, <2>1 DEF Invite, TablesOK
  <2> QED BY <1>4, <1>6, <2>1, <2>2 DEF InFlight
<1>10. CASE SetMemberStatus(h)
  <2>1. q.value \in AccountStatus /\ q.target \in User /\ q.org \in Org
    BY <1>2, <1>10 DEF SetMemberStatus, Handles, WellSent, WellGuarded, TenantWrite
  <2>2. \/ End(h) /\ UNCHANGED member
        \/ Advance(h, "record") /\ member' = [member EXCEPT ![q.target][q.org] = q.value]
    BY <1>10 DEF SetMemberStatus
  <2>3. TablesOK'
    BY <1>0, <1>10, <2>1, <2>2 DEF SetMemberStatus, TablesOK
  <2> QED BY <1>3, <1>4, <1>6, <2>1, <2>2, <2>3 DEF InFlight
<1>11. CASE SetUserStatus(h)
  <2>1. q.value \in AccountStatus /\ q.target \in User /\ q.kind = "user"
    BY <1>2, <1>11 DEF SetUserStatus, Handles, WellSent
  <2>2. \/ End(h) /\ UNCHANGED account
        \/ Advance(h, "record") /\ account' = [account EXCEPT ![q.target] = q.value]
    BY <1>11 DEF SetUserStatus
  <2>3. TablesOK'
    BY <1>0, <1>11, <2>1, <2>2 DEF SetUserStatus, TablesOK
  <2>4. q.kind \notin TenantWrite
    BY <2>1 DEF TenantWrite
  <2> QED BY <1>3, <1>4, <1>6, <2>2, <2>3, <2>4 DEF InFlight
<1>12. CASE SetTenantStatus(h)
  <2>1. q.org \in Org /\ q.value \in TenantStatus
    BY <1>2, <1>12 DEF SetTenantStatus, Handles, WellSent
  <2>2. \/ End(h) /\ UNCHANGED tenant
        \/ Advance(h, "record") /\ tenant' = [tenant EXCEPT ![q.org] = q.value]
    BY <1>12 DEF SetTenantStatus
  <2>3. TablesOK'
    BY <1>0, <1>12, <2>1, <2>2 DEF SetTenantStatus, TablesOK
  <2> QED BY <1>3, <1>4, <1>6, <2>1, <2>2, <2>3 DEF InFlight
<1>13. CASE FoundTenant(h)
  <2>1. q.kind = "found" /\ Advance(h, "invite")
    BY <1>13 DEF FoundTenant, Handles
  <2>2. TablesOK'
    BY <1>0, <1>13 DEF FoundTenant, TablesOK, TenantStatus
  <2> QED BY <1>4, <1>6, <2>1, <2>2 DEF InFlight
<1>14. CASE SlugTaken(h)
  BY <1>3, <1>5, <1>6, <1>14 DEF SlugTaken
<1>15. CASE Record(h)
  <2>1. UNCHANGED tables /\ (End(h) \/ Advance(h, "note"))
    BY <1>15 DEF Record
  <2> QED BY <1>3, <1>4, <1>5, <1>6, <2>1 DEF InFlight
<1>16. CASE RequestFails(h)
  BY <1>3, <1>5, <1>6, <1>16 DEF RequestFails
<1> QED
  BY <1>7, <1>8, <1>9, <1>10, <1>11, <1>12, <1>13, <1>14, <1>15, <1>16 DEF RequestStep

----------------------------------------------------------------------------
\* The tabs and their operations

SessionTypeOK ==
  /\ stored \in Stored
  /\ tab \in [Tab -> TabState]
  /\ task \in [Task -> TaskState \cup {NoTask}]

\* A step of a tab or an operation: a tab keeps the selection it shows or shows
\* the one that is stored.
SessionGoesOn ==
  SessionTypeOK' /\ \A s \in Tab : tab'[s].org \in {tab[s].org, stored'.org}

LEMMA UnderWay ==
  ASSUME SessionTypeOK, NEW k \in Task, task[k].pc # "free"
  PROVE  task[k] \in TaskState
  BY DEF SessionTypeOK, NoTask

LEMMA Issuing ==
  ASSUME SessionTypeOK, NEW k \in Task, NEW t \in Tab,
         NEW op \in {"register", "login", "first", "restore", "found", "founded", "accept",
                     "accepted", "join", "members"},
         NEW as \in User, NEW org \in Org \cup {Null}, NEW goal \in Page \cup {Null},
         Issue(k, t, op, as, org, goal)
  PROVE  task' \in [Task -> TaskState \cup {NoTask}]
  BY DEF SessionTypeOK, Issue, TaskState

LEMMA Finishing ==
  ASSUME SessionTypeOK, NEW k \in Task, Finish(k)
  PROVE  task' \in [Task -> TaskState \cup {NoTask}]
  BY DEF SessionTypeOK, Finish

LEMMA Following ==
  ASSUME SessionTypeOK, NEW k \in Task, task[k].pc # "free",
         NEW op \in {"login", "first", "restore"}, Follow(k, op)
  PROVE  task' \in [Task -> TaskState \cup {NoTask}]
<1>1. task[k] \in TaskState
  BY UnderWay
<1>2. task' = [task EXCEPT ![k] = [[task[k] EXCEPT !.op = op] EXCEPT !.pc = "sent"]]
  BY DEF Follow, SessionTypeOK
<1>3. [task[k] EXCEPT !.op = op] \in TaskState
  BY <1>1 DEF TaskState
<1>4. [[task[k] EXCEPT !.op = op] EXCEPT !.pc = "sent"] \in TaskState
  BY <1>3 DEF TaskState
<1> QED BY <1>2, <1>4 DEF SessionTypeOK

LEMMA Arriving ==
  ASSUME NEW now \in TabState, NEW goal \in Page \cup {Null}
  PROVE  Arrive(now, goal) \in TabState /\ Arrive(now, goal).org = now.org
<1> USE SessionsAssumption
<1>1. CASE goal = "app" \/ (goal = "organization" /\ now.page = "register")
  <2>1. goal \in Page /\ Arrive(now, goal) = [[now EXCEPT !.page = goal] EXCEPT !.listed = Null]
    BY <1>1 DEF Arrive, Page
  <2>2. [now EXCEPT !.page = goal] \in TabState /\ [now EXCEPT !.page = goal].org = now.org
    BY <2>1 DEF TabState
  <2> DEFINE x == [now EXCEPT !.page = goal]
  <2> HIDE DEF x
  <2>3. x \in TabState => /\ [x EXCEPT !.listed = Null] \in TabState
                          /\ [x EXCEPT !.listed = Null].org = x.org
    BY DEF TabState
  <2> QED BY <2>1, <2>2, <2>3 DEF x
<1>2. CASE ~(goal = "app" \/ (goal = "organization" /\ now.page = "register"))
  BY <1>2 DEF Arrive
<1> QED BY <1>1, <1>2

LEMMA Authenticating ==
  ASSUME NEW now \in TabState, NEW orgs \in SUBSET Org, NEW org \in Org \cup {Null},
         NEW goal \in Page \cup {Null}
  PROVE  /\ Authenticated(now, orgs, org, goal) \in TabState
         /\ Authenticated(now, orgs, org, goal).org = org
<1> DEFINE x == [now EXCEPT !.status = "authenticated", !.orgs = orgs, !.org = org]
<1>1. x \in TabState /\ x.org = org
  BY DEF TabState
<1> HIDE DEF x
<1>2. Authenticated(now, orgs, org, goal) = Arrive(x, goal)
  BY DEF Authenticated, x
<1> QED BY <1>1, <1>2, Arriving

\* A tab changes to a state it may be in.
LEMMA TabChanges ==
  ASSUME SessionTypeOK, NEW t \in Tab, NEW now \in TabState, tab' = [tab EXCEPT ![t] = now],
         stored' \in Stored, task' \in [Task -> TaskState \cup {NoTask}],
         now.org = stored'.org \/ now.org = tab[t].org
  PROVE  SessionGoesOn
  BY DEF SessionGoesOn, SessionTypeOK

LEMMA TabsStay ==
  ASSUME SessionTypeOK, UNCHANGED tab, stored' \in Stored,
         task' \in [Task -> TaskState \cup {NoTask}]
  PROVE  SessionGoesOn
  BY DEF SessionGoesOn, SessionTypeOK

\* A tab changes in a field that is not its organization.
LEMMA FieldOfTab ==
  ASSUME NEW now \in TabState
  PROVE  /\ \A s \in {"idle", "loading", "authenticated", "unauthenticated"} :
              [now EXCEPT !.status = s] \in TabState /\ [now EXCEPT !.status = s].org = now.org
         /\ \A u \in User \cup {Null} :
              [now EXCEPT !.user = u] \in TabState /\ [now EXCEPT !.user = u].org = now.org
         /\ \A p \in Page :
              [now EXCEPT !.page = p] \in TabState /\ [now EXCEPT !.page = p].org = now.org
         /\ \A o \in Org \cup {Null} :
              [now EXCEPT !.listed = o] \in TabState /\ [now EXCEPT !.listed = o].org = now.org
  BY DEF TabState

----------------------------------------------------------------------------
\* The steps of the tabs

LEMMA OpenSessionKeeps ==
  ASSUME SessionTypeOK, AccountsTypeOK, NEW t \in Tab, OpenSession(t)
  PROVE  SessionGoesOn /\ UNCHANGED accountsVars
<1> USE SessionsAssumption
<1>0. SessionTypeOK /\ tab[t] \in TabState /\ stored \in Stored
  BY DEF SessionTypeOK
<1>1. ASSUME NEW page \in Page, Visit(t, page) PROVE SessionGoesOn
  <2> DEFINE x == [tab[t] EXCEPT !.page = page]
             y == [x EXCEPT !.listed = Null]
  <2>1. x \in TabState /\ x.org = tab[t].org
    BY <1>0, FieldOfTab
  <2>2. tab' = [tab EXCEPT ![t] = y] /\ UNCHANGED <<stored, task>>
    BY <1>0, <1>1 DEF Visit, SessionTypeOK
  <2> HIDE DEF x
  <2>3. y \in TabState /\ y.org = tab[t].org
    BY <2>1, FieldOfTab
  <2> HIDE DEF y
  <2> QED BY <1>0, <2>2, <2>3, TabChanges DEF SessionTypeOK
<1>2. ASSUME Reload(t) PROVE SessionGoesOn
  <2> DEFINE page == IF tab[t].page = "organization" THEN "register" ELSE tab[t].page
  <2>1. page \in Page /\ stored.org \in Org \cup {Null}
    BY <1>0 DEF TabState, Page, Stored
  <2>2. tab' = [tab EXCEPT ![t] = Loaded(page)] /\ UNCHANGED stored
    BY <1>0, <1>2 DEF Reload, SessionTypeOK
  <2>3. task' \in [Task -> TaskState \cup {NoTask}]
    BY <1>0, <1>2 DEF Reload, SessionTypeOK
  <2> HIDE DEF page
  <2>4. Loaded(page) \in TabState /\ Loaded(page).org = stored.org
    BY <2>1 DEF Loaded, TabState
  <2> QED BY <1>0, <2>2, <2>3, <2>4, TabChanges
<1>3. ASSUME NEW k \in Task, Bootstrap(t, k) PROVE SessionGoesOn
  <2>1. CASE stored.token = Null
    <3>1. tab' = [tab EXCEPT ![t] = [tab[t] EXCEPT !.status = "unauthenticated"]]
      BY <1>0, <1>3, <2>1 DEF Bootstrap, SessionTypeOK
    <3>2. UNCHANGED <<stored, task>>
      BY <1>3, <2>1 DEF Bootstrap
    <3> QED BY <1>0, <3>1, <3>2, FieldOfTab, TabChanges DEF SessionTypeOK
  <2>2. CASE stored.token # Null
    <3>1. stored.token \in User
      BY <1>0, <2>2 DEF Stored
    <3>2. tab' = [tab EXCEPT ![t] = [tab[t] EXCEPT !.status = "loading"]] /\ UNCHANGED stored
      BY <1>0, <1>3, <2>2 DEF Bootstrap, SessionTypeOK
    <3>3. task' \in [Task -> TaskState \cup {NoTask}]
      BY <1>0, <1>3, <2>2, <3>1, Issuing DEF Bootstrap
    <3> QED BY <1>0, <3>2, <3>3, FieldOfTab, TabChanges
  <2> QED BY <2>1, <2>2
<1>4. ASSUME NEW k \in Task, NEW u \in User, SubmitRegistration(t, k, u) PROVE SessionGoesOn
  <2>1. tab' = [tab EXCEPT ![t] = [tab[t] EXCEPT !.status = "loading"]] /\ UNCHANGED stored
    BY <1>0, <1>4 DEF SubmitRegistration, SessionTypeOK
  <2>2. task' \in [Task -> TaskState \cup {NoTask}]
    BY <1>0, <1>4, Issuing DEF SubmitRegistration, Page
  <2> QED BY <1>0, <2>1, <2>2, FieldOfTab, TabChanges
<1>5. ASSUME NEW k \in Task, NEW u \in User, SubmitLogin(t, k, u) PROVE SessionGoesOn
  <2> DEFINE x == [tab[t] EXCEPT !.status = "loading"]
             y == [x EXCEPT !.page = "login"]
  <2>1. x \in TabState /\ x.org = tab[t].org
    BY <1>0, FieldOfTab
  <2>2. tab' = [tab EXCEPT ![t] = y] /\ UNCHANGED stored
    BY <1>0, <1>5 DEF SubmitLogin, SessionTypeOK
  <2> HIDE DEF x
  <2>3. y \in TabState /\ y.org = tab[t].org
    BY <2>1, FieldOfTab DEF Page
  <2> HIDE DEF y
  <2>4. task' \in [Task -> TaskState \cup {NoTask}]
    BY <1>0, <1>5, Issuing DEF SubmitLogin, Page
  <2> QED BY <1>0, <2>2, <2>3, <2>4, TabChanges
<1>6. ASSUME NEW k \in Task, NEW o \in Org, SubmitOrganization(t, k, o) PROVE SessionGoesOn
  <2>1. stored.token \in User
    BY <1>0, <1>6 DEF SubmitOrganization, Stored
  <2>2. task' \in [Task -> TaskState \cup {NoTask}]
    BY <1>0, <1>6, <2>1, Issuing DEF SubmitOrganization, Page
  <2> QED BY <1>0, <1>6, <2>2, TabsStay DEF SubmitOrganization
<1>7. ASSUME NEW k \in Task, NEW o \in Org, AcceptAsCurrentUser(t, k, o) PROVE SessionGoesOn
  <2>1. stored.token \in User
    BY <1>0, <1>7 DEF AcceptAsCurrentUser, Stored
  <2>2. task' \in [Task -> TaskState \cup {NoTask}]
    BY <1>0, <1>7, <2>1, Issuing DEF AcceptAsCurrentUser, Page
  <2> QED BY <1>0, <1>7, <2>2, TabsStay DEF AcceptAsCurrentUser
<1>8. ASSUME NEW k \in Task, NEW u \in User, NEW o \in Org, SubmitAccount(t, k, u, o)
      PROVE  SessionGoesOn
  <2>1. task' \in [Task -> TaskState \cup {NoTask}]
    BY <1>0, <1>8, Issuing DEF SubmitAccount, Page
  <2> QED BY <1>0, <1>8, <2>1, TabsStay DEF SubmitAccount
<1>9. UNCHANGED accountsVars
  BY DEF OpenSession, Visit, Reload, Bootstrap, SubmitRegistration, SubmitLogin,
         SubmitOrganization, AcceptAsCurrentUser, SubmitAccount
<1> QED BY <1>1, <1>2, <1>3, <1>4, <1>5, <1>6, <1>7, <1>8, <1>9 DEF OpenSession

LEMMA TaskStepKeeps ==
  ASSUME SessionTypeOK, AccountsTypeOK, NEW k \in Task, TaskStep(k)
  PROVE  SessionGoesOn
<1> USE SessionsAssumption
<1> DEFINE q == task[k]  t == task[k].tab
<1>0. SessionTypeOK /\ stored \in Stored /\ AccountsTypeOK
  BY DEF SessionTypeOK
<1>1. q \in TaskState
  BY <1>0, UnderWay
     DEF TaskStep, Answer, Fail, Restored, RestoreFailed, Registered, LoggedIn, FirstSelected,
         LoginFailed, OrganizationCreated, InvitationAccepted, Relist, Refreshed, Joined,
         NotDone, MembersLoaded
<1>2. /\ t \in Tab /\ tab[t] \in TabState /\ q.as \in User /\ q.org \in Org \cup {Null}
      /\ q.answer \in SUBSET Org /\ q.goal \in Page \cup {Null}
  BY <1>0, <1>1 DEF TaskState, SessionTypeOK
<1>3. ASSUME NEW org \in Org \cup {Null} PROVE [stored EXCEPT !.org = org] \in Stored
  BY <1>0 DEF Stored
<1>4. Finish(k) => task' \in [Task -> TaskState \cup {NoTask}]
  BY <1>0, Finishing
<1>5. FirstOf(q.answer) \subseteq Org \cup {Null}
  BY <1>2 DEF FirstOf
<1> HIDE DEF q, t
<1>6. CASE Answer(k)
  <2> DEFINE orgs == IF task[k].op \in Lists THEN OrganizationsOf(task[k].as) ELSE {}
             x == [task[k] EXCEPT !.pc = "answered"]
             y == [x EXCEPT !.answer = orgs]
  <2>1. orgs \in SUBSET Org
    BY DEF OrganizationsOf
  <2>2. x \in TaskState
    BY <1>1 DEF q, TaskState
  <2>3. task' = [task EXCEPT ![k] = y]
    BY <1>0, <1>6 DEF Answer, SessionTypeOK
  <2> HIDE DEF orgs, x
  <2>4. y \in TaskState
    BY <2>1, <2>2 DEF TaskState
  <2>5. task' \in [Task -> TaskState \cup {NoTask}]
    BY <1>0, <2>3, <2>4 DEF SessionTypeOK
  <2> QED BY <1>0, <1>6, <2>5, TabsStay DEF Answer
<1>7. CASE Fail(k)
  <2> DEFINE x == [task[k] EXCEPT !.pc = "failed"]
             y == [x EXCEPT !.answer = {}]
  <2>1. x \in TaskState
    BY <1>1 DEF q, TaskState
  <2>2. task' = [task EXCEPT ![k] = y]
    BY <1>0, <1>7 DEF Fail, SessionTypeOK
  <2> HIDE DEF x
  <2>3. y \in TaskState
    BY <2>1 DEF TaskState
  <2>4. task' \in [Task -> TaskState \cup {NoTask}]
    BY <1>0, <2>2, <2>3 DEF SessionTypeOK
  <2> QED BY <1>0, <1>7, <2>4, TabsStay DEF Fail
<1>8. CASE Restored(k)
  <2> DEFINE x == [tab[t] EXCEPT !.user = q.as]
  <2>1. PICK o \in (IF stored.org \in q.answer THEN {stored.org} ELSE FirstOf(q.answer)) :
          /\ Select(o)
          /\ tab' = [tab EXCEPT ![q.tab] = Authenticated([@ EXCEPT !.user = q.as], q.answer, o, q.goal)]
    BY <1>8 DEF Restored, q
  <2>2. o \in Org \cup {Null} /\ stored' = [stored EXCEPT !.org = o]
    BY <1>0, <1>5, <2>1 DEF Select, Stored
  <2>3. x \in TabState
    BY <1>2, FieldOfTab
  <2>4. tab' = [tab EXCEPT ![t] = Authenticated(x, q.answer, o, q.goal)]
    BY <1>0, <1>2, <2>1 DEF q, t, SessionTypeOK
  <2> HIDE DEF x
  <2>5. /\ Authenticated(x, q.answer, o, q.goal) \in TabState
        /\ Authenticated(x, q.answer, o, q.goal).org = o
    BY <1>2, <2>2, <2>3, Authenticating
  <2>6. stored' \in Stored /\ stored'.org = o
    BY <1>0, <1>3, <2>2 DEF Stored
  <2> QED BY <1>2, <1>4, <1>8, <2>4, <2>5, <2>6, TabChanges DEF Restored
<1>9. CASE RestoreFailed(k)
  <2> DEFINE x == [tab[t] EXCEPT !.status = "unauthenticated", !.user = Null, !.orgs = {},
                                 !.org = Null]
  <2>1. x \in TabState /\ x.org = Null
    BY <1>2 DEF TabState
  <2>2. tab' = [tab EXCEPT ![t] = Arrive(x, q.goal)]
    BY <1>0, <1>2, <1>9 DEF RestoreFailed, q, t, SessionTypeOK
  <2> HIDE DEF x
  <2>3. Arrive(x, q.goal) \in TabState /\ Arrive(x, q.goal).org = Null
    BY <1>2, <2>1, Arriving
  <2>4. stored' \in Stored /\ stored'.org = Null
    BY <1>9 DEF RestoreFailed, Stored
  <2> QED BY <1>2, <1>4, <1>9, <2>2, <2>3, <2>4, TabChanges DEF RestoreFailed
<1>10. CASE Registered(k)
  <2>1. tab' = [tab EXCEPT ![t] = [tab[t] EXCEPT !.status = "loading"]] /\ UNCHANGED stored
    BY <1>0, <1>2, <1>10 DEF Registered, t, SessionTypeOK
  <2>2. task' \in [Task -> TaskState \cup {NoTask}]
    BY <1>0, <1>10, Following DEF Registered
  <2> QED BY <1>0, <1>2, <2>1, <2>2, FieldOfTab, TabChanges
<1>11. CASE LoggedIn(k)
  <2>1. /\ tab' = [tab EXCEPT ![t] = [tab[t] EXCEPT !.user = q.as]]
        /\ stored' = [stored EXCEPT !.token = q.as]
    BY <1>0, <1>2, <1>11 DEF LoggedIn, q, t, SessionTypeOK
  <2>2. task' \in [Task -> TaskState \cup {NoTask}]
    BY <1>0, <1>11, Following DEF LoggedIn
  <2>3. stored' \in Stored /\ stored'.org = stored.org
    BY <1>0, <1>2, <2>1 DEF Stored
  <2>4. [tab[t] EXCEPT !.user = q.as] \in TabState /\ [tab[t] EXCEPT !.user = q.as].org = tab[t].org
    BY <1>2, FieldOfTab
  <2> QED BY <1>0, <1>2, <2>1, <2>2, <2>3, <2>4, TabChanges
<1>12. CASE FirstSelected(k)
  <2>1. PICK o \in FirstOf(q.answer) :
          /\ Select(o)
          /\ tab' = [tab EXCEPT ![q.tab] = Authenticated(@, q.answer, o, q.goal)]
    BY <1>12 DEF FirstSelected, q
  <2>2. o \in Org \cup {Null} /\ stored' = [stored EXCEPT !.org = o]
    BY <1>5, <2>1 DEF Select
  <2>3. tab' = [tab EXCEPT ![t] = Authenticated(tab[t], q.answer, o, q.goal)]
    BY <1>0, <1>2, <2>1 DEF q, t, SessionTypeOK
  <2>4. /\ Authenticated(tab[t], q.answer, o, q.goal) \in TabState
        /\ Authenticated(tab[t], q.answer, o, q.goal).org = o
    BY <1>2, <2>2, Authenticating
  <2>5. stored' \in Stored /\ stored'.org = o
    BY <1>0, <1>3, <2>2 DEF Stored
  <2> QED BY <1>2, <1>4, <1>12, <2>3, <2>4, <2>5, TabChanges DEF FirstSelected
<1>13. CASE LoginFailed(k)
  <2>1. tab' = [tab EXCEPT ![t] = [tab[t] EXCEPT !.status = "unauthenticated"]] /\ UNCHANGED stored
    BY <1>0, <1>2, <1>13 DEF LoginFailed, t, SessionTypeOK
  <2>2. /\ [tab[t] EXCEPT !.status = "unauthenticated"] \in TabState
        /\ [tab[t] EXCEPT !.status = "unauthenticated"].org = tab[t].org
    BY <1>2, FieldOfTab
  <2>3. task' \in [Task -> TaskState \cup {NoTask}]
    BY <1>4, <1>13 DEF LoginFailed
  <2> QED BY <1>0, <1>2, <2>1, <2>2, <2>3, TabChanges
<1>14. ASSUME NEW op, NEW next \in {"founded", "accepted"}, Relist(k, op, next)
       PROVE  SessionGoesOn
  <2> DEFINE x == [task[k] EXCEPT !.op = next]
  <2>1. x \in TaskState
    BY <1>1, <1>14 DEF q, TaskState
  <2>2. task' = [task EXCEPT ![k] = IF stored.token = Null THEN [x EXCEPT !.pc = "failed"]
                                    ELSE [x EXCEPT !.pc = "sent", !.as = stored.token]]
    BY <1>0, <1>14 DEF Relist, SessionTypeOK
  <2> HIDE DEF x
  <2>3. [x EXCEPT !.pc = "failed"] \in TaskState
    BY <2>1 DEF TaskState
  <2>4. stored.token # Null => [x EXCEPT !.pc = "sent", !.as = stored.token] \in TaskState
    BY <1>0, <2>1 DEF TaskState, Stored
  <2>5. task' \in [Task -> TaskState \cup {NoTask}]
    BY <1>0, <2>2, <2>3, <2>4 DEF SessionTypeOK
  <2> QED BY <1>0, <1>14, <2>5, TabsStay DEF Relist
<1>15. CASE Refreshed(k)
  <2> DEFINE selected == IF q.op = "founded" \/ q.org \in q.answer THEN {q.org}
                         ELSE IF tab[t].org # Null THEN {tab[t].org} ELSE FirstOf(q.answer)
  <2>1. PICK o \in selected :
          /\ Select(o)
          /\ tab' = [tab EXCEPT ![t] = Arrive([@ EXCEPT !.orgs = q.answer, !.org = o], q.goal)]
    BY <1>15 DEF Refreshed, q, t
  <2> DEFINE x == [tab[t] EXCEPT !.orgs = q.answer, !.org = o]
  <2>2. tab[t].org \in Org \cup {Null}
    BY <1>2 DEF TabState
  <2>3. o \in Org \cup {Null} /\ stored' = [stored EXCEPT !.org = o]
    BY <1>2, <1>5, <2>1, <2>2 DEF Select
  <2>4. x \in TabState /\ x.org = o
    BY <1>2, <2>3 DEF TabState
  <2>5. tab' = [tab EXCEPT ![t] = Arrive(x, q.goal)]
    BY <1>0, <1>2, <2>1 DEF SessionTypeOK
  <2> HIDE DEF x
  <2>6. Arrive(x, q.goal) \in TabState /\ Arrive(x, q.goal).org = o
    BY <1>2, <2>4, Arriving
  <2>7. stored' \in Stored /\ stored'.org = o
    BY <1>0, <1>3, <2>3 DEF Stored
  <2> QED BY <1>2, <1>4, <1>15, <2>5, <2>6, <2>7, TabChanges DEF Refreshed
<1>16. CASE Joined(k)
  <2>1. /\ tab' = [tab EXCEPT ![t] = [tab[t] EXCEPT !.status = "loading"]]
        /\ stored' = [stored EXCEPT !.token = q.as]
    BY <1>0, <1>2, <1>16 DEF Joined, q, t, SessionTypeOK
  <2>2. task' \in [Task -> TaskState \cup {NoTask}]
    BY <1>0, <1>16, Following DEF Joined
  <2>3. stored' \in Stored /\ stored'.org = stored.org
    BY <1>0, <1>2, <2>1 DEF Stored
  <2>4. /\ [tab[t] EXCEPT !.status = "loading"] \in TabState
        /\ [tab[t] EXCEPT !.status = "loading"].org = tab[t].org
    BY <1>2, FieldOfTab
  <2> QED BY <1>0, <1>2, <2>1, <2>2, <2>3, <2>4, TabChanges
<1>17. CASE NotDone(k)
  BY <1>0, <1>4, <1>17, TabsStay DEF NotDone
<1>18. CASE MembersLoaded(k)
  <2> DEFINE o == IF InApp(t) THEN q.org ELSE tab[t].listed
  <2>1. o \in Org \cup {Null}
    BY <1>2 DEF TabState
  <2>2. tab' = [tab EXCEPT ![t] = [tab[t] EXCEPT !.listed = o]] /\ UNCHANGED stored
    BY <1>0, <1>2, <1>18 DEF MembersLoaded, q, t, SessionTypeOK
  <2> HIDE DEF o
  <2>3. /\ [tab[t] EXCEPT !.listed = o] \in TabState
        /\ [tab[t] EXCEPT !.listed = o].org = tab[t].org
    BY <1>2, <2>1, FieldOfTab
  <2>4. task' \in [Task -> TaskState \cup {NoTask}]
    BY <1>4, <1>18 DEF MembersLoaded
  <2> QED BY <1>0, <1>2, <2>2, <2>3, <2>4, TabChanges
<1> QED
  BY <1>6, <1>7, <1>8, <1>9, <1>10, <1>11, <1>12, <1>13, <1>14, <1>15, <1>16, <1>17, <1>18
     DEF TaskStep, OrganizationCreated, InvitationAccepted

LEMMA UseAppKeeps ==
  ASSUME SessionTypeOK, NEW t \in Tab, UseApp(t)
  PROVE  SessionGoesOn
<1> USE SessionsAssumption
<1>0. SessionTypeOK /\ tab[t] \in TabState /\ stored \in Stored
  BY DEF SessionTypeOK
<1>1. CASE Logout(t)
  <2> DEFINE x == [tab[t] EXCEPT !.page = "login", !.status = "unauthenticated",
                     !.user = Null, !.orgs = {}, !.org = Null, !.listed = Null]
  <2>1. x \in TabState /\ x.org = Null
    BY <1>0 DEF TabState, Page
  <2>2. /\ tab' = [tab EXCEPT ![t] = x] /\ UNCHANGED task
        /\ stored' \in Stored /\ stored'.org = Null
    BY <1>0, <1>1 DEF Logout, SessionTypeOK, Stored
  <2> HIDE DEF x
  <2> QED BY <1>0, <2>1, <2>2, TabChanges DEF SessionTypeOK
<1>2. ASSUME NEW o \in Org, SwitchOrganization(t, o) PROVE SessionGoesOn
  <2>1. [tab[t] EXCEPT !.org = o] \in TabState /\ [tab[t] EXCEPT !.org = o].org = o
    BY <1>0 DEF TabState
  <2>2. tab' = [tab EXCEPT ![t] = [tab[t] EXCEPT !.org = o]] /\ UNCHANGED task
    BY <1>0, <1>2 DEF SwitchOrganization, SessionTypeOK
  <2>3. stored' \in Stored /\ stored'.org = o
    BY <1>0, <1>2 DEF SwitchOrganization, Select, Stored
  <2> QED BY <1>0, <2>1, <2>2, <2>3, TabChanges DEF SessionTypeOK
<1>3. ASSUME NEW k \in Task, LoadMembers(t, k) PROVE SessionGoesOn
  <2>1. stored.token \in User /\ stored.org \in Org
    BY <1>0, <1>3 DEF LoadMembers, Stored
  <2>2. task' \in [Task -> TaskState \cup {NoTask}]
    BY <1>0, <1>3, <2>1, Issuing DEF LoadMembers
  <2> QED BY <1>0, <1>3, <2>2, TabsStay DEF LoadMembers
<1>4. ASSUME UNCHANGED sessionVars PROVE SessionGoesOn
  BY <1>0, <1>4, TabsStay DEF sessionVars, SessionTypeOK
<1> QED
  BY <1>1, <1>2, <1>3, <1>4 DEF UseApp, SubmitInvitation, ToggleMember

----------------------------------------------------------------------------
\* What a step does to requests and to the right to make them

PortalInv == AccountsInv /\ SessionTypeOK

\* A page sends a request.
Sends(h) ==
  /\ OthersAsTheyAre(h)
  /\ request[h].pc = "idle" /\ request'[h].pc = "sent"
  /\ request'[h] \in Request /\ WellSent(request'[h])
  /\ request' \in Requests
  /\ UNCHANGED <<tables, sessionVars>>

\* People come to accounts, organizations and offices; nobody loses one.
Enlists ==
  /\ platformAdmin \subseteq platformAdmin'
  /\ \A u \in User : account'[u] \in {account[u], "ACTIVE"}
  /\ UNCHANGED request

LEMMA SendsKeeps ==
  ASSUME PortalInv, NEW h \in Handler, Sends(h)
  PROVE  PortalInv'
<1>1. SessionTypeOK'
  BY DEF PortalInv, Sends, SessionTypeOK, sessionVars
<1>2. AccountsTypeOK'
  BY DEF PortalInv, AccountsInv, AccountsTypeOK, Sends, Requests, tables
<1>3. RequestsInv'
  BY DEF PortalInv, AccountsInv, RequestsInv, Sends, OthersAsTheyAre, WellGuarded
<1> QED BY <1>1, <1>2, <1>3 DEF PortalInv, AccountsInv

LEMMA PagesSend ==
  ASSUME PortalInv, NEW t \in Tab,
         \/ \E h \in Handler, u \in User : SubmitInvitation(t, h, u)
         \/ \E h \in Handler, u \in User, value \in AccountStatus : ToggleMember(t, h, u, value)
         \/ Operate(t)
  PROVE  \E h \in Handler : Sends(h)
<1>0. /\ request \in Requests /\ stored \in Stored /\ tab[t].org \in Org \cup {Null}
      /\ tab[t].listed \in Org \cup {Null}
  BY DEF PortalInv, AccountsInv, AccountsTypeOK, SessionTypeOK, TabState, Requests
<1>1. ASSUME NEW h \in Handler, NEW u \in User, SubmitInvitation(t, h, u)
      PROVE  Sends(h)
  <2>1. stored.token \in User /\ stored.org \in Org \cup {Null}
    BY <1>0, <1>1 DEF SubmitInvitation, Stored
  <2> DEFINE q == [pc |-> "sent", kind |-> "invite", user |-> stored.token, org |-> stored.org,
                   listed |-> Null, target |-> u, value |-> Null]
  <2>2. q \in Request
    BY <1>0, <2>1 DEF Request, TenantWrite, PlatformWrite
  <2>3. /\ request[h].pc = "idle" /\ request' = [request EXCEPT ![h] = q]
        /\ UNCHANGED <<tables, sessionVars>>
    BY <1>1 DEF SubmitInvitation, Send
  <2>4. q.pc = "sent" /\ WellSent(q)
    BY DEF WellSent
  <2> HIDE DEF q
  <2>5. request' \in Requests /\ OthersAsTheyAre(h) /\ request'[h] = q
    BY <1>0, <2>2, <2>3, Starting
  <2> QED BY <2>2, <2>3, <2>4, <2>5 DEF Sends
<1>2. ASSUME NEW h \in Handler, NEW u \in User, NEW value \in AccountStatus,
             ToggleMember(t, h, u, value)
      PROVE  Sends(h)
  <2>1. stored.token \in User /\ stored.org \in Org \cup {Null}
    BY <1>0, <1>2 DEF ToggleMember, Stored
  <2> DEFINE q == [pc |-> "sent", kind |-> "member", user |-> stored.token, org |-> stored.org,
                   listed |-> tab[t].listed, target |-> u, value |-> value]
  <2>2. q \in Request
    BY <1>0, <2>1 DEF Request, TenantWrite, PlatformWrite
  <2>3. /\ request[h].pc = "idle" /\ request' = [request EXCEPT ![h] = q]
        /\ UNCHANGED <<tables, sessionVars>>
    BY <1>2 DEF ToggleMember, Send
  <2>4. q.pc = "sent" /\ WellSent(q)
    BY DEF WellSent
  <2> HIDE DEF q
  <2>5. request' \in Requests /\ OthersAsTheyAre(h) /\ request'[h] = q
    BY <1>0, <2>2, <2>3, Starting
  <2> QED BY <2>2, <2>3, <2>4, <2>5 DEF Sends
<1>3. ASSUME NEW h \in Handler, NEW o \in Org, NEW u \in User, SubmitTenant(t, h, o, u)
      PROVE  Sends(h)
  <2>1. stored.token \in User
    BY <1>0, <1>3 DEF SubmitTenant, Operates, Stored
  <2> DEFINE q == [pc |-> "sent", kind |-> "found", user |-> stored.token, org |-> o,
                   listed |-> Null, target |-> u, value |-> Null]
  <2>2. q \in Request
    BY <1>0, <2>1 DEF Request, TenantWrite, PlatformWrite
  <2>3. /\ request[h].pc = "idle" /\ request' = [request EXCEPT ![h] = q]
        /\ UNCHANGED <<tables, sessionVars>>
    BY <1>3 DEF SubmitTenant, Send
  <2>4. q.pc = "sent" /\ WellSent(q)
    BY DEF WellSent
  <2> HIDE DEF q
  <2>5. request' \in Requests /\ OthersAsTheyAre(h) /\ request'[h] = q
    BY <1>0, <2>2, <2>3, Starting
  <2> QED BY <2>2, <2>3, <2>4, <2>5 DEF Sends
<1>4. ASSUME NEW h \in Handler, NEW o \in Org, NEW value \in TenantStatus,
             ConfirmTenantStatus(t, h, o, value)
      PROVE  Sends(h)
  <2>1. stored.token \in User
    BY <1>0, <1>4 DEF ConfirmTenantStatus, Operates, Stored
  <2> DEFINE q == [pc |-> "sent", kind |-> "tenant", user |-> stored.token, org |-> o,
                   listed |-> Null, target |-> Null, value |-> value]
  <2>2. q \in Request
    BY <1>0, <2>1 DEF Request, TenantWrite, PlatformWrite
  <2>3. /\ request[h].pc = "idle" /\ request' = [request EXCEPT ![h] = q]
        /\ UNCHANGED <<tables, sessionVars>>
    BY <1>4 DEF ConfirmTenantStatus, Send
  <2>4. q.pc = "sent" /\ WellSent(q)
    BY DEF WellSent
  <2> HIDE DEF q
  <2>5. request' \in Requests /\ OthersAsTheyAre(h) /\ request'[h] = q
    BY <1>0, <2>2, <2>3, Starting
  <2> QED BY <2>2, <2>3, <2>4, <2>5 DEF Sends
<1>5. ASSUME NEW h \in Handler, NEW u \in User, NEW value \in AccountStatus,
             ToggleUser(t, h, u, value)
      PROVE  Sends(h)
  <2>1. stored.token \in User
    BY <1>0, <1>5 DEF ToggleUser, Operates, Stored
  <2> DEFINE q == [pc |-> "sent", kind |-> "user", user |-> stored.token, org |-> Null,
                   listed |-> Null, target |-> u, value |-> value]
  <2>2. q \in Request
    BY <1>0, <2>1 DEF Request, TenantWrite, PlatformWrite
  <2>3. /\ request[h].pc = "idle" /\ request' = [request EXCEPT ![h] = q]
        /\ UNCHANGED <<tables, sessionVars>>
    BY <1>5 DEF ToggleUser, Send
  <2>4. q.pc = "sent" /\ WellSent(q)
    BY DEF WellSent
  <2> HIDE DEF q
  <2>5. request' \in Requests /\ OthersAsTheyAre(h) /\ request'[h] = q
    BY <1>0, <2>2, <2>3, Starting
  <2> QED BY <2>2, <2>3, <2>4, <2>5 DEF Sends
<1> QED BY <1>1, <1>2, <1>3, <1>4, <1>5 DEF Operate

LEMMA OthersSend ==
  ASSUME PortalInv, NEW h \in Handler, NEW kind \in TenantWrite \cup PlatformWrite,
         NEW user \in User, NEW org \in Org \cup {Null}, NEW listed \in Org \cup {Null},
         NEW target \in User \cup {Null},
         NEW value \in AccountStatus \cup TenantStatus \cup {Null},
         OtherClient(h, kind, user, org, listed, target, value)
  PROVE  Sends(h)
<1>0. request \in Requests
  BY DEF PortalInv, AccountsInv, AccountsTypeOK, Requests
<1> DEFINE q == [pc |-> "sent", kind |-> kind, user |-> user, org |-> org, listed |-> listed,
                 target |-> target, value |-> value]
<1>1. q \in Request
  BY DEF Request
<1>2. /\ request[h].pc = "idle" /\ request' = [request EXCEPT ![h] = q]
      /\ UNCHANGED <<tables, sessionVars>> /\ Demanded(kind, org, target, value)
  BY DEF OtherClient, Send
<1>3. q.pc = "sent" /\ WellSent(q)
  BY <1>2 DEF WellSent, Demanded
<1> HIDE DEF q
<1>4. request' \in Requests /\ OthersAsTheyAre(h) /\ request'[h] = q
  BY <1>0, <1>1, <1>2, Starting
<1> QED BY <1>1, <1>2, <1>3, <1>4 DEF Sends

LEMMA ServingEnlists ==
  ASSUME PortalInv, NEW k \in Task, Answer(k)
  PROVE  Enlists /\ AccountsInv'
<1> USE AccountsAssumption
<1> DEFINE q == task[k]
<1>0. AccountsTypeOK /\ q \in TaskState
  BY UnderWay DEF PortalInv, AccountsInv, Answer
<1>1. q.as \in User
  BY <1>0 DEF TaskState
<1>2. UNCHANGED request
  BY DEF Answer
<1>3. Serves(q)
  BY DEF Answer
<1> DEFINE Goal ==
      /\ platformAdmin' = platformAdmin
      /\ \A u \in User : account'[u] \in {account[u], "ACTIVE"}
      /\ account' \in [User -> AccountStatus \cup {Null}]
      /\ tenant' \in [Org -> TenantStatus \cup {Null}]
      /\ member' \in [User -> [Org -> AccountStatus \cup {Null}]]
      /\ invited' \subseteq User \X Org
<1> HIDE DEF q
<1>4. ASSUME UNCHANGED tables PROVE Goal
  BY <1>0, <1>4 DEF tables, AccountsTypeOK
<1>5. ASSUME Register(q.as) PROVE Goal
  BY <1>0, <1>1, <1>5 DEF Register, AccountsTypeOK, AccountStatus
<1>6. ASSUME CreateOrganization(q.as, q.org) PROVE Goal
  BY <1>0, <1>1, <1>6 DEF CreateOrganization, AccountsTypeOK, AccountStatus, TenantStatus
<1>7. ASSUME NEW loggedIn, AcceptInvitation(q.as, q.org, loggedIn) PROVE Goal
  BY <1>0, <1>1, <1>7 DEF AcceptInvitation, AccountsTypeOK, AccountStatus
<1> HIDE DEF Goal
<1>8. Goal
  BY <1>3, <1>4, <1>5, <1>6, <1>7 DEF Serves
<1> USE DEF Goal
<1>9. AccountsTypeOK'
  BY <1>0, <1>2, <1>8 DEF AccountsTypeOK, AccountStatus
<1>10. RequestsInv'
  BY <1>2 DEF PortalInv, AccountsInv, RequestsInv
<1> QED BY <1>2, <1>8, <1>9, <1>10 DEF Enlists, AccountsInv

LEMMA BootstrapEnlists ==
  ASSUME AccountsInv, NEW u \in User, BootstrapPlatformAdmin(u)
  PROVE  Enlists /\ AccountsInv'
<1> USE AccountsAssumption
<1>1. Enlists
  BY DEF AccountsInv, AccountsTypeOK, BootstrapPlatformAdmin, Enlists
<1>2. AccountsTypeOK'
  BY DEF AccountsInv, AccountsTypeOK, BootstrapPlatformAdmin, AccountStatus
<1>3. RequestsInv'
  BY DEF AccountsInv, RequestsInv, BootstrapPlatformAdmin
<1> QED BY <1>1, <1>2, <1>3 DEF AccountsInv

\* Every step is of one of three kinds.
LEMMA PortalStepKeeps ==
  ASSUME PortalInv, [PortalNext]_vars
  PROVE  /\ PortalInv' /\ SessionGoesOn
         /\ \/ Enlists
            \/ \E h \in Handler : Sends(h)
            \/ \E h \in Handler : RequestStep(h) /\ Handled(h) /\ UNCHANGED sessionVars
<1>0. SessionTypeOK /\ AccountsInv /\ AccountsTypeOK
  BY DEF PortalInv, AccountsInv
<1>1. ASSUME UNCHANGED accountsVars PROVE Enlists /\ AccountsInv'
  BY <1>0, <1>1
     DEF Enlists, accountsVars, AccountsInv, AccountsTypeOK, RequestsInv, WellSent, WellGuarded
<1>2. ASSUME UNCHANGED sessionVars PROVE SessionGoesOn
  BY <1>0, <1>2 DEF SessionGoesOn, SessionTypeOK, sessionVars
<1>3. ASSUME NEW t \in Tab, OpenSession(t) PROVE PortalInv' /\ SessionGoesOn /\ Enlists
  BY <1>0, <1>1, <1>3, OpenSessionKeeps DEF PortalInv, SessionGoesOn
<1>4. ASSUME NEW t \in Tab, UseApp(t)
      PROVE  PortalInv' /\ SessionGoesOn /\ (Enlists \/ \E h \in Handler : Sends(h))
  <2>1. CASE UNCHANGED accountsVars
    BY <1>0, <1>1, <1>4, <2>1, UseAppKeeps DEF PortalInv, SessionGoesOn
  <2>2. CASE \/ \E h \in Handler, u \in User : SubmitInvitation(t, h, u)
             \/ \E h \in Handler, u \in User, value \in AccountStatus :
                  ToggleMember(t, h, u, value)
    BY <1>2, <2>2, PagesSend, SendsKeeps DEF Sends
  <2> QED BY <1>4, <2>1, <2>2 DEF UseApp, Logout, SwitchOrganization, LoadMembers
<1>5. ASSUME NEW t \in Tab, Operate(t) PROVE PortalInv' /\ SessionGoesOn /\ \E h \in Handler : Sends(h)
  BY <1>2, <1>5, PagesSend, SendsKeeps DEF Sends
<1>6. ASSUME NEW k \in Task, TaskStep(k) PROVE PortalInv' /\ SessionGoesOn /\ Enlists
  <2>1. SessionTypeOK' /\ SessionGoesOn
    BY <1>0, <1>6, TaskStepKeeps DEF SessionGoesOn
  <2>2. CASE Answer(k)
    BY <2>1, <2>2, ServingEnlists DEF PortalInv, SessionGoesOn
  <2>3. CASE UNCHANGED accountsVars
    BY <1>1, <2>1, <2>3 DEF PortalInv, SessionGoesOn
  <2> QED
    BY <1>6, <2>2, <2>3
       DEF TaskStep, Fail, Restored, RestoreFailed, Registered, LoggedIn, FirstSelected,
           LoginFailed, OrganizationCreated, InvitationAccepted, Relist, Refreshed, Joined,
           NotDone, MembersLoaded
<1>7. ASSUME NEW h \in Handler, Step(h)
      PROVE  PortalInv' /\ SessionGoesOn /\ RequestStep(h) /\ Handled(h) /\ UNCHANGED sessionVars
  BY <1>0, <1>2, <1>7, RequestStepKeeps DEF Step, PortalInv, SessionGoesOn
<1>8. ASSUME NEW u \in User, BootstrapPlatformAdmin(u), UNCHANGED sessionVars
      PROVE  PortalInv' /\ SessionGoesOn /\ Enlists
  BY <1>0, <1>2, <1>8, BootstrapEnlists DEF PortalInv, SessionGoesOn
<1>10. ASSUME NEW h \in Handler, NEW kind \in TenantWrite \cup PlatformWrite,
              NEW user \in User, NEW org \in Org \cup {Null}, NEW listed \in Org \cup {Null},
              NEW target \in User \cup {Null},
              NEW value \in AccountStatus \cup TenantStatus \cup {Null},
              OtherClient(h, kind, user, org, listed, target, value)
       PROVE  PortalInv' /\ SessionGoesOn /\ Sends(h)
  BY <1>2, <1>10, OthersSend, SendsKeeps DEF Sends
<1>9. CASE UNCHANGED vars
  <2>1. UNCHANGED accountsVars /\ UNCHANGED sessionVars
    BY <1>9 DEF vars
  <2> QED BY <1>1, <1>2, <2>1 DEF PortalInv, SessionGoesOn
<1> QED
  BY <1>3, <1>4, <1>5, <1>6, <1>7, <1>8, <1>9, <1>10 DEF PortalNext

LEMMA PortalOpens ==
  ASSUME PortalInit
  PROVE  PortalInv
<1> USE AccountsAssumption, SessionsAssumption
<1>1. RequestsInv
  BY DEF PortalInit, RequestsInv, NoRequest
<1>2. SessionTypeOK
  <2>1. \A page \in Page : Loaded(page) \in TabState
    BY DEF PortalInit, Loaded, TabState, Stored
  <2> QED BY <2>1 DEF PortalInit, SessionTypeOK
<1> QED BY <1>1, <1>2 DEF PortalInit, PortalInv, AccountsInv

THEOREM PortalInvHolds == PortalSpec => []PortalInv
<1>1. PortalInit => PortalInv
  BY PortalOpens
<1>2. PortalInv /\ [PortalNext]_vars => PortalInv'
  BY PortalStepKeeps
<1> QED BY <1>1, <1>2, PTL DEF PortalSpec

\* Accounts, tenants, memberships and requests stay of their types, and so do the
\* stored session, the tabs and their operations, however these interleave.
THEOREM PortalTypes == PortalSpec => []PortalTypeOK
<1>1. PortalInv => PortalTypeOK
  BY DEF PortalInv, AccountsInv, SessionTypeOK, PortalTypeOK
<1> QED BY <1>1, PortalInvHolds, PTL

----------------------------------------------------------------------------
\* Who renews the selection of a tab stores what it shows.
LEMMA RenewalsStore ==
  ASSUME SessionTypeOK, NEW t \in Tab, Renews(t)
  PROVE  tab'[t].org = stored'.org
<1>0. /\ tab \in [Tab -> TabState] /\ stored \in Stored
      /\ \A k \in Task : task[k].pc # "free" => task[k] \in TaskState
  BY UnderWay DEF SessionTypeOK
<1>1. ASSUME NEW k \in Task, task[k].tab = t, task[k].pc # "free"
      PROVE  /\ task[k].as \in User /\ task[k].org \in Org \cup {Null}
             /\ task[k].answer \in SUBSET Org /\ task[k].goal \in Page \cup {Null}
             /\ FirstOf(task[k].answer) \subseteq Org \cup {Null}
  BY <1>0, <1>1 DEF TaskState, FirstOf
<1>2. ASSUME NEW o, Select(o) PROVE stored'.org = o
  BY <1>0, <1>2 DEF Select, Stored
<1>3. CASE Reload(t)
  BY <1>0, <1>3 DEF Reload, Loaded
<1>4. ASSUME NEW k \in Task, task[k].tab = t, Restored(k) PROVE tab'[t].org = stored'.org
  <2>1. PICK o \in (IF stored.org \in task[k].answer THEN {stored.org}
                      ELSE FirstOf(task[k].answer)) :
          /\ Select(o)
          /\ tab' = [tab EXCEPT ![t] =
               Authenticated([@ EXCEPT !.user = task[k].as], task[k].answer, o, task[k].goal)]
    BY <1>4 DEF Restored
  <2> DEFINE x == [tab[t] EXCEPT !.user = task[k].as]
  <2>2. x \in TabState /\ o \in Org \cup {Null} /\ task[k].pc # "free"
    BY <1>0, <1>1, <1>4, <2>1, FieldOfTab DEF Restored, Stored
  <2>3. tab'[t] = Authenticated(x, task[k].answer, o, task[k].goal)
    BY <1>0, <2>1
  <2> HIDE DEF x
  <2> QED BY <1>1, <1>2, <1>4, <2>1, <2>2, <2>3, Authenticating
<1>5. ASSUME NEW k \in Task, task[k].tab = t, RestoreFailed(k) PROVE tab'[t].org = stored'.org
  <2> DEFINE x == [tab[t] EXCEPT !.status = "unauthenticated", !.user = Null, !.orgs = {},
                                 !.org = Null]
  <2>1. x \in TabState /\ x.org = Null /\ task[k].pc # "free"
    BY <1>0, <1>5 DEF TabState, RestoreFailed
  <2>2. tab'[t] = Arrive(x, task[k].goal) /\ stored'.org = Null
    BY <1>0, <1>5 DEF RestoreFailed
  <2> HIDE DEF x
  <2> QED BY <1>1, <1>5, <2>1, <2>2, Arriving
<1>6. ASSUME NEW k \in Task, task[k].tab = t, FirstSelected(k) PROVE tab'[t].org = stored'.org
  <2>1. PICK o \in FirstOf(task[k].answer) :
          /\ Select(o)
          /\ tab' = [tab EXCEPT ![t] =
               Authenticated(@, task[k].answer, o, task[k].goal)]
    BY <1>6 DEF FirstSelected
  <2>2. tab'[t] = Authenticated(tab[t], task[k].answer, o, task[k].goal) /\ task[k].pc # "free"
    BY <1>0, <1>6, <2>1 DEF FirstSelected
  <2>3. o \in Org \cup {Null}
    BY <1>1, <1>6, <2>1, <2>2
  <2> QED BY <1>0, <1>1, <1>2, <1>6, <2>1, <2>2, <2>3, Authenticating
<1>7. ASSUME NEW k \in Task, task[k].tab = t, Refreshed(k) PROVE tab'[t].org = stored'.org
  <2>1. PICK o : /\ Select(o)
                 /\ o \in Org \cup {Null}
                 /\ tab' = [tab EXCEPT ![t] =
                      Arrive([@ EXCEPT !.orgs = task[k].answer, !.org = o], task[k].goal)]
    BY <1>0, <1>1, <1>7 DEF Refreshed, TabState
  <2> DEFINE x == [tab[t] EXCEPT !.orgs = task[k].answer, !.org = o]
  <2>2. task[k].pc # "free" /\ tab[t] \in TabState /\ o \in Org \cup {Null}
    BY <1>0, <1>7, <2>1 DEF Refreshed
  <2>4. x \in TabState /\ x.org = o
    BY <1>1, <1>7, <2>2 DEF TabState
  <2>3. tab'[t] = Arrive(x, task[k].goal)
    BY <1>0, <2>1
  <2> HIDE DEF x
  <2> QED BY <1>1, <1>2, <1>7, <2>1, <2>2, <2>3, <2>4, Arriving
<1>8. CASE Logout(t)
  BY <1>0, <1>8 DEF Logout, TabState
<1>9. ASSUME NEW o \in Org, SwitchOrganization(t, o) PROVE tab'[t].org = stored'.org
  BY <1>0, <1>2, <1>9 DEF SwitchOrganization, TabState
<1> QED BY <1>3, <1>4, <1>5, <1>6, <1>7, <1>8, <1>9 DEF Renews

\* A tab under which nobody stores another selection shows the one that is stored.
SelectionInv ==
  /\ PortalInv
  /\ behind \subseteq Tab
  /\ \A t \in Tab \ behind : tab[t].org = stored.org

LEMMA SelectionStepKeeps ==
  ASSUME SelectionInv, [AccessNext]_accessVars
  PROVE  SelectionInv'
<1>0. PortalInv /\ [PortalNext]_vars
  BY DEF SelectionInv, AccessNext, accessVars
<1>1. PortalInv' /\ SessionGoesOn /\ SessionTypeOK
  BY <1>0, PortalStepKeeps DEF PortalInv
<1>2. CASE AccessNext
  <2>1. behind' = {t \in Tab : ~Renews(t) /\ (t \in behind \/ stored'.org # stored.org)}
    BY <1>2 DEF AccessNext, Witness
  <2>2. ASSUME NEW t \in Tab, t \notin behind' PROVE tab'[t].org = stored'.org
    <3>1. CASE Renews(t)
      BY <1>1, <3>1, RenewalsStore
    <3>2. CASE ~Renews(t)
      BY <1>1, <2>1, <2>2, <3>2 DEF SelectionInv, SessionGoesOn
    <3> QED BY <3>1, <3>2
  <2> QED BY <1>1, <2>1, <2>2 DEF SelectionInv
<1>3. CASE UNCHANGED accessVars
  BY <1>1, <1>3 DEF SelectionInv, accessVars, historyVars, vars, sessionVars
<1> QED BY <1>2, <1>3

\* In however many tabs: a page's write goes to the organization its tab shows,
\* unless another tab has stored another one since that tab was loaded or stored
\* its own, whatever answers come in between.
THEOREM WritesGoWhereShown == AccessSpec => WritesWhereShown
<1>1. AccessInit => SelectionInv
  <2> SUFFICES ASSUME AccessInit PROVE SelectionInv
    OBVIOUS
  <2>1. PortalInv /\ behind = {}
    BY PortalOpens DEF AccessInit
  <2>2. \A t \in Tab : tab[t].org = stored.org
    BY DEF AccessInit, PortalInit, Loaded
  <2> QED BY <2>1, <2>2 DEF SelectionInv
<1>2. SelectionInv /\ [AccessNext]_accessVars => SelectionInv'
  BY SelectionStepKeeps
<1>3. ASSUME SelectionInv, NEW h \in Handler, NEW t \in Tab \ behind, Writes(t, h)
      PROVE  request'[h].org = tab[t].org
  <2>1. request \in Requests /\ tab[t].org = stored.org
    BY <1>3 DEF SelectionInv, PortalInv, AccountsInv, AccountsTypeOK, Requests
  <2>2. request'[h].org = stored.org
    BY <1>3, <2>1 DEF Writes, SubmitInvitation, ToggleMember, Send, Requests
  <2> QED BY <2>1, <2>2
<1> DEFINE A == \A h \in Handler : request'[h].pc = "sent" =>
                  \A t \in Tab \ behind : Writes(t, h) => request'[h].org = tab[t].org
<1>4. SelectionInv => A
  BY <1>3
<1> HIDE DEF A
<1>5. AccessSpec => [][A]_accessVars
  BY <1>1, <1>2, <1>4, PTL DEF AccessSpec
<1> QED BY <1>5 DEF A, WritesWhereShown

----------------------------------------------------------------------------
\* What is being handled for an operator was let through as an operator's: nobody
\* loses the office, but an operator may have been suspended since.
OfOperators ==
  \A h \in Handler :
    request[h].pc = "handle" /\ request[h].kind \in PlatformWrite
      => request[h].user \in platformAdmin

LEMMA KindsDiffer == TenantWrite \cap PlatformWrite = {}
  BY DEF TenantWrite, PlatformWrite

\* A request that comes to be handled for an operator has just been validated.
LEMMA OnlyValidated ==
  ASSUME PortalInv, NEW h \in Handler, RequestStep(h), Handled(h),
         request'[h].pc = "handle", request'[h].kind \in PlatformWrite
  PROVE  /\ UNCHANGED <<account, platformAdmin>>
         /\ request'[h].user \in platformAdmin /\ account[request'[h].user] = "ACTIVE"
<1>0. /\ request \in Requests /\ request[h] \in Request
      /\ request[h].pc # "idle" => WellGuarded(request[h])
      /\ request'[h] # NoRequest
  BY DEF PortalInv, AccountsInv, AccountsTypeOK, RequestsInv, Requests, Handled, NoRequest
<1>1. SameRequest(request'[h], request[h])
  BY <1>0 DEF Handled
<1>2. \A pc : Advance(h, pc) => request'[h].pc = pc
  BY <1>0 DEF Advance, Requests, Request
<1>3. ~End(h)
  BY <1>0 DEF End, Requests
<1>4. CASE Validate(h)
  BY <1>1, <1>2, <1>3, <1>4, KindsDiffer DEF Validate, SameRequest, tables
<1>5. CASE GuardTenant(h)
  BY <1>0, <1>1, <1>5, KindsDiffer DEF GuardTenant, SameRequest, WellGuarded
<1>6. ASSUME ~Validate(h), ~GuardTenant(h) PROVE FALSE
  BY <1>2, <1>3, <1>6
     DEF RequestStep, Invite, SetMemberStatus, SetUserStatus, SetTenantStatus, FoundTenant,
         SlugTaken, Record, RequestFails
<1> QED BY <1>4, <1>5, <1>6

LEMMA OfOperatorsStays ==
  ASSUME PortalInv, OfOperators, [PortalNext]_vars
  PROVE  OfOperators'
<1>1. CASE Enlists
  BY <1>1 DEF Enlists, OfOperators
<1>2. ASSUME NEW h \in Handler, Sends(h) PROVE OfOperators'
  BY <1>2 DEF Sends, tables, OthersAsTheyAre, OfOperators
<1>3. ASSUME NEW h \in Handler, RequestStep(h), Handled(h) PROVE OfOperators'
  <2>1. UNCHANGED platformAdmin
    BY <1>3
       DEF RequestStep, Validate, GuardTenant, Invite, SetMemberStatus, SetUserStatus,
           SetTenantStatus, FoundTenant, SlugTaken, Record, RequestFails, tables
  <2> QED BY <1>3, <2>1, OnlyValidated DEF Handled, OthersAsTheyAre, OfOperators
<1> QED BY <1>1, <1>2, <1>3, PortalStepKeeps

\* Only an operator's write takes a user's account away, and never the account of
\* the operator it is made for.
LEMMA OneStays ==
  ASSUME PortalInv, OfOperators, [PortalNext]_vars, SomebodyAdministers, ~SomebodyAdministers'
  PROVE  \E h \in Handler :
            /\ Handles(h, "user") /\ SetUserStatus(h)
            /\ request[h].user \in platformAdmin
            /\ account[request[h].user] = "SUSPENDED"
<1>0. /\ account \in [User -> AccountStatus \cup {Null}]
      /\ platformAdmin \subseteq {u \in User : account[u] # Null}
  BY DEF PortalInv, AccountsInv, AccountsTypeOK
<1>1. ~UNCHANGED <<account, platformAdmin>>
  BY DEF SomebodyAdministers
<1>2. ~Enlists
  BY <1>0 DEF Enlists, SomebodyAdministers
<1>3. PICK h \in Handler : RequestStep(h) /\ Handled(h)
  BY <1>1, <1>2, PortalStepKeeps DEF Sends, tables
<1>4. SetUserStatus(h)
  BY <1>1, <1>3
     DEF RequestStep, Validate, GuardTenant, Invite, SetMemberStatus, SetTenantStatus,
         FoundTenant, SlugTaken, Record, RequestFails, tables
<1> DEFINE q == request[h]
<1>5. /\ q \in Request /\ q.pc = "handle" /\ q.kind = "user" /\ UNCHANGED platformAdmin
      /\ q.value \in AccountStatus /\ q.target \in User
  BY <1>3, <1>4 DEF SetUserStatus, Handles, Handled, PortalInv, AccountsInv, RequestsInv, WellSent
<1>6. q.user \in platformAdmin /\ q.user \in User
  BY <1>5 DEF OfOperators, PlatformWrite, Request
<1>7. account[q.user] # "ACTIVE"
  <2>1. ASSUME account[q.user] = "ACTIVE" PROVE account'[q.user] = "ACTIVE"
    BY <1>0, <1>4, <1>5, <1>6, <2>1 DEF SetUserStatus, AccountStatus
  <2> QED BY <1>5, <1>6, <2>1 DEF SomebodyAdministers
<1>8. account[q.user] = "SUSPENDED"
  BY <1>0, <1>6, <1>7 DEF AccountStatus
<1> QED BY <1>4, <1>5, <1>6, <1>8 DEF Handles

\* However many operators suspend users at once: the last one who is active goes only
\* by the write of an operator whom somebody has suspended since the guards let that
\* write through.
THEOREM LastOperatorGoesOnlyInCrossfire == PortalSpec => LastOperatorGoesInCrossfire
<1>1. PortalInit => OfOperators
  BY DEF PortalInit, OfOperators, NoRequest
<1>2. PortalInv /\ OfOperators /\ [PortalNext]_vars => OfOperators'
  BY OfOperatorsStays
<1> DEFINE A == SomebodyAdministers /\ ~SomebodyAdministers'
                  => \E h \in Handler :
                       /\ Handles(h, "user") /\ SetUserStatus(h)
                       /\ request[h].user \in platformAdmin
                       /\ account[request[h].user] = "SUSPENDED"
<1>3. PortalInv /\ OfOperators /\ [PortalNext]_vars => [A]_accountsVars
  BY OneStays
<1> HIDE DEF A
<1>4. PortalSpec => [][A]_accountsVars
  BY <1>1, <1>2, <1>3, PortalInvHolds, PTL DEF PortalSpec
<1> QED BY <1>4 DEF A, LastOperatorGoesInCrossfire

----------------------------------------------------------------------------
\* What the guards have seen of a tenant's write, and it has had since it was sent

AccessInv ==
  /\ PortalInv
  /\ seen \in [Handler -> SUBSET Access]
  /\ \A h \in Handler : request[h].kind \in TenantWrite =>
       /\ request[h].pc = "known" => "account" \in seen[h]
       /\ request[h].pc \in {"handle", "record"} => seen[h] = Access

LEMMA AccessStepKeeps ==
  ASSUME AccessInv, [AccessNext]_accessVars
  PROVE  AccessInv'
<1>0. PortalInv /\ [PortalNext]_vars /\ seen \in [Handler -> SUBSET Access]
  BY DEF AccessInv, AccessNext, accessVars
<1>1. PortalInv'
  BY <1>0, PortalStepKeeps
<1>2. CASE UNCHANGED accessVars
  BY <1>1, <1>2 DEF AccessInv, accessVars, historyVars, vars, accountsVars
<1>3. CASE AccessNext
  <2>1. Witness
    BY <1>3 DEF AccessNext
  <2>2. seen' \in [Handler -> SUBSET Access]
    BY <1>0, <2>1 DEF Witness, Held
  <2>3. ASSUME NEW h \in Handler, request'[h].kind \in TenantWrite
        PROVE  seen'[h] = seen[h] \cup Held(request'[h]) /\ seen[h] \subseteq seen'[h]
    BY <2>1, <2>3 DEF Witness
  <2> DEFINE Due(h) == request'[h].kind \in TenantWrite =>
               /\ request'[h].pc = "known" => "account" \in seen'[h]
               /\ request'[h].pc \in {"handle", "record"} => seen'[h] = Access
  <2>4. ASSUME NEW h \in Handler, request'[h] = request[h] PROVE Due(h)
    BY <2>2, <2>3, <2>4 DEF AccessInv
  <2>5. ASSUME NEW h \in Handler, RequestStep(h), Handled(h) PROVE Due(h)
    <3> DEFINE q == request[h]
    <3>0. /\ request \in Requests /\ q \in Request /\ seen[h] \in SUBSET Access
          /\ q.pc # "idle" => WellGuarded(q)
          /\ q.kind \in TenantWrite =>
               /\ q.pc = "known" => "account" \in seen[h]
               /\ q.pc \in {"handle", "record"} => seen[h] = Access
      BY <1>0, <2>5
         DEF AccessInv, PortalInv, AccountsInv, AccountsTypeOK, RequestsInv, Requests, Handled
    <3>1. CASE request'[h] = NoRequest
      BY <3>1 DEF NoRequest
    <3>2. CASE SameRequest(request'[h], q)
      <4> SUFFICES ASSUME q.kind \in TenantWrite PROVE Due(h)
        BY <3>2 DEF SameRequest
      <4>1. /\ request'[h].kind = q.kind /\ request'[h].user = q.user
            /\ request'[h].org = q.org
        BY <3>2 DEF SameRequest
      <4>2. \A pc : Advance(h, pc) => request'[h].pc = pc
        BY <3>0 DEF Advance, Requests, Request
      <4>3. End(h) => request'[h].pc = "idle"
        BY <3>0 DEF End, Requests, NoRequest
      <4>4. seen'[h] = seen[h] \cup Held(request'[h]) /\ seen'[h] \in SUBSET Access
        BY <2>2, <2>3, <4>1
      <4>5. CASE Validate(h)
        <5>1. q.kind \notin PlatformWrite
          BY KindsDiffer
        <5>2. \/ End(h)
              \/ account'[q.user] = "ACTIVE" /\ Advance(h, "known")
          BY <4>5, <5>1 DEF Validate, tables
        <5> QED BY <4>1, <4>2, <4>3, <4>4, <5>2 DEF Held, Access
      <4>6. CASE GuardTenant(h)
        <5>1. \/ End(h)
              \/ /\ Advance(h, "handle") /\ q.org # Null /\ member'[q.user][q.org] = "ACTIVE"
                 /\ tenant'[q.org] \in {"TRIAL", "ACTIVE"} /\ "account" \in seen[h]
          BY <3>0, <4>6 DEF GuardTenant, Admits, tables
        <5>2. CASE End(h)
          BY <4>3, <5>2
        <5>3. CASE ~End(h)
          <6>1. {"member", "tenant"} \subseteq Held(request'[h]) /\ "account" \in seen[h]
            BY <4>1, <5>1, <5>3 DEF Held, Access
          <6> QED BY <4>4, <6>1 DEF Access
        <5> QED BY <5>2, <5>3
      <4>7. CASE Invite(h) \/ SetMemberStatus(h)
        <5>1. q.pc = "handle" /\ (End(h) \/ Advance(h, "record"))
          BY <3>0, <4>7 DEF Invite, SetMemberStatus, Handles, WellGuarded, TenantWrite
        <5> QED BY <3>0, <4>2, <4>3, <4>4, <5>1
      <4>8. CASE SetUserStatus(h) \/ SetTenantStatus(h) \/ FoundTenant(h)
        BY <4>8 DEF SetUserStatus, SetTenantStatus, FoundTenant, Handles, TenantWrite
      <4>9. CASE SlugTaken(h) \/ Record(h) \/ RequestFails(h)
        <5>1. End(h) \/ Advance(h, "note")
          BY <4>9 DEF SlugTaken, Record, RequestFails
        <5> QED BY <4>2, <4>3, <5>1
      <4> HIDE DEF Due
      <4> QED BY <2>5, <4>5, <4>6, <4>7, <4>8, <4>9 DEF RequestStep
    <3> HIDE DEF Due
    <3> QED BY <2>5, <3>1, <3>2 DEF Handled
  <2>6. ASSUME NEW g \in Handler, \A h \in Handler \ {g} : request'[h] = request[h], Due(g)
        PROVE  \A h \in Handler : Due(h)
    BY <2>4, <2>6
  <2> HIDE DEF Due
  <2>7. \A h \in Handler : Due(h)
    <3>1. CASE Enlists
      BY <2>4, <3>1 DEF Enlists
    <3>2. ASSUME NEW h \in Handler, Sends(h) PROVE \A g \in Handler : Due(g)
      <4>1. Due(h)
        BY <3>2 DEF Sends, Due
      <4> QED BY <2>6, <3>2, <4>1 DEF Sends, OthersAsTheyAre
    <3>3. ASSUME NEW h \in Handler, RequestStep(h), Handled(h) PROVE \A g \in Handler : Due(g)
      BY <2>5, <2>6, <3>3 DEF Handled, OthersAsTheyAre
    <3> QED BY <1>0, <3>1, <3>2, <3>3, PortalStepKeeps
  <2> QED BY <1>1, <2>2, <2>7 DEF AccessInv, Due
<1> QED BY <1>2, <1>3

\* Whoever has a write of a tenant handled was ACTIVE, and an ACTIVE member, and the
\* tenant was open, each at some time since the write was sent: no suspension that was
\* in force all that time is passed by, whatever token is presented.
THEOREM WritesHadAccessAlways == AccessSpec => []WritesHadAccess
<1>1. AccessInit => AccessInv
  BY PortalOpens DEF AccessInit, AccessInv, PortalInit, NoRequest
<1>2. AccessInv /\ [AccessNext]_accessVars => AccessInv'
  BY AccessStepKeeps
<1>3. AccessInv => WritesHadAccess
  BY DEF AccessInv, WritesHadAccess
<1> QED BY <1>1, <1>2, <1>3, PTL DEF AccessSpec
=============================================================================
