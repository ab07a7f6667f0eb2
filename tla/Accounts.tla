------------------------------ MODULE Accounts ------------------------------
(***************************************************************************)
(* Accounts, tenants and who may use them: the guards every request of the *)
(* API passes, the handlers of platform administration, and the operations *)
(* by which people come to an account and an organization.                 *)
(*                                                                         *)
(* A request is authenticated, then guarded, then handled; account, tenant *)
(* and membership are read afresh each time, with awaits in between.  The  *)
(* tenant writes stand for all of them: Memberships, Invitations, Imports  *)
(* and Publishing say what handlers do once the guards have passed.        *)
(***************************************************************************)
CONSTANTS
  User,         \* people, each known by one e-mail address
  Org,          \* organizations that may be made: bounds their number
  Handler,      \* guarded requests that may be in flight
  SelfService,  \* REGISTRATION_MODE: whether anybody may register
  Crashes,      \* whether the API process may die within a handler
  Null

AccountStatus == {"ACTIVE", "SUSPENDED"}
TenantStatus  == {"TRIAL", "ACTIVE", "SUSPENDED", "CLOSED"}

ASSUME AccountsAssumption ==
  /\ {SelfService, Crashes} \subseteq BOOLEAN
  /\ Null \notin User \cup Org \cup AccountStatus \cup TenantStatus

VARIABLES
  account,         \* the status of every user's account, or Null
  platformAdmin,   \* users whose platformRole is PLATFORM_ADMIN
  tenant,          \* the status of every organization, or Null
  member,          \* the status of every user's membership of every organization, or Null
  invited,         \* open invitations: <<user, organization>>
  request,         \* per handler: the request it is working on
  trail            \* audit events recorded so far: <<request kind, object, value>>

accountsVars == <<account, platformAdmin, tenant, member, invited, request, trail>>
tables == <<account, platformAdmin, tenant, member, invited>>

TenantWrite   == {"invite", "member"}
PlatformWrite == {"user", "tenant", "found"}

NoRequest ==
  [pc |-> "idle", kind |-> Null, user |-> Null, org |-> Null, listed |-> Null,
   target |-> Null, value |-> Null]

\* org: the header, or the path of a platform request.  listed: where the row
\* was listed whose id is sent.
\* pc: sent, known (the token is good), handle (the guards have passed), invite
\* (a tenant is created), record (written), note (one event is recorded)
Request ==
  [pc : {"sent", "known", "handle", "invite", "record", "note"},
   kind : TenantWrite \cup PlatformWrite, user : User, org : Org \cup {Null},
   listed : Org \cup {Null}, target : User \cup {Null},
   value : AccountStatus \cup TenantStatus \cup {Null}]

AccountsTypeOK ==
  /\ account \in [User -> AccountStatus \cup {Null}]
  /\ platformAdmin \subseteq {u \in User : account[u] # Null}
  /\ tenant \in [Org -> TenantStatus \cup {Null}]
  /\ member \in [User -> [Org -> AccountStatus \cup {Null}]]
  /\ invited \subseteq User \X Org
  /\ request \in [Handler -> Request \cup {NoRequest}]

----------------------------------------------------------------------------
\* The guards

\* What the routes and their DTOs demand of a request.
Demanded(kind, org, target, value) ==
  /\ kind \in {"member", "user"} => value \in AccountStatus
  /\ kind = "tenant" => org \in Org /\ value \in TenantStatus
  /\ kind = "found" => org \in Org
  /\ kind # "tenant" => target \in User

Send(h, kind, user, org, listed, target, value) ==
  /\ request[h].pc = "idle"
  /\ account[user] # Null
  /\ request' = [request EXCEPT ![h] =
       [pc |-> "sent", kind |-> kind, user |-> user, org |-> org, listed |-> listed,
        target |-> target, value |-> value]]
  /\ UNCHANGED <<tables, trail>>

\* Mutant: the handler comes to rest with its last request still in hand.
Rest(h) == request' = [request EXCEPT ![h].pc = "idle"]

End(h) == request' = [request EXCEPT ![h] = NoRequest]

Advance(h, pc) == request' = [request EXCEPT ![h].pc = pc]

\* Mutant: the token alone is believed until it expires.
TrustToken(h) ==
  /\ request[h].pc = "sent"
  /\ IF request[h].kind \in TenantWrite
       THEN Advance(h, "known")
       ELSE IF request[h].user \in platformAdmin THEN Advance(h, "handle") ELSE End(h)
  /\ UNCHANGED <<tables, trail>>

\* The account is read on every request; the platform guard uses that reading.
Validate(h) ==
  LET q == request[h]
  IN /\ q.pc = "sent"
     /\ \/ account[q.user] = "ACTIVE" /\ q.kind \in TenantWrite /\ Advance(h, "known")
        \/ /\ account[q.user] = "ACTIVE" /\ q.kind \in PlatformWrite
           /\ q.user \in platformAdmin
           /\ Advance(h, "handle")
        \/ /\ account[q.user] # "ACTIVE" \/ (q.kind \in PlatformWrite /\ q.user \notin platformAdmin)
           /\ End(h)
     /\ UNCHANGED <<tables, trail>>

Admits(user, org) ==
  /\ org # Null
  /\ member[user][org] = "ACTIVE"
  /\ tenant[org] \in {"TRIAL", "ACTIVE"}

GuardTenant(h) ==
  /\ request[h].pc = "known"
  /\ IF Admits(request[h].user, request[h].org) THEN Advance(h, "handle") ELSE End(h)
  /\ UNCHANGED <<tables, trail>>

----------------------------------------------------------------------------
\* The handlers.  What they read before they write only goes into the audit
\* event, or says that there is no such row: both are one step.

Handles(h, kind) == request[h].pc = "handle" /\ request[h].kind = kind

Invite(h) ==
  /\ Handles(h, "invite") \/ request[h].pc = "invite"
  /\ invited' = invited \cup {<<request[h].target, request[h].org>>}
  /\ Advance(h, "record")
  /\ UNCHANGED <<account, platformAdmin, tenant, member, trail>>

\* The membership is looked up within the organization of the header.  Members
\* count as administrators here: the last one is kept.
SetMemberStatus(h) ==
  LET q == request[h]
      found == q.listed = q.org /\ member[q.target][q.org] # Null
      last  == q.value = "SUSPENDED" /\ member[q.target][q.org] = "ACTIVE"
                 /\ \A u \in User \ {q.target} : member[u][q.org] # "ACTIVE"
  IN /\ Handles(h, "member")
     /\ IF found /\ ~last
          THEN member' = [member EXCEPT ![q.target][q.org] = q.value] /\ Advance(h, "record")
          ELSE End(h) /\ UNCHANGED member
     /\ UNCHANGED <<account, platformAdmin, tenant, invited, trail>>

\* Mutant: operators may suspend themselves.
SetAnyUserStatus(h) ==
  LET q == request[h]
  IN /\ Handles(h, "user")
     /\ account[q.target] # Null
     /\ account' = [account EXCEPT ![q.target] = q.value]
     /\ Advance(h, "record")
     /\ UNCHANGED <<platformAdmin, tenant, member, invited, trail>>

SetUserStatus(h) ==
  LET q == request[h]
      refused == account[q.target] = Null \/ (q.target = q.user /\ q.value = "SUSPENDED")
  IN /\ Handles(h, "user")
     /\ IF refused THEN End(h) /\ UNCHANGED account
                   ELSE account' = [account EXCEPT ![q.target] = q.value] /\ Advance(h, "record")
     /\ UNCHANGED <<platformAdmin, tenant, member, invited, trail>>

SetTenantStatus(h) ==
  LET q == request[h]
  IN /\ Handles(h, "tenant")
     /\ IF tenant[q.org] = Null
          THEN End(h) /\ UNCHANGED tenant
          ELSE tenant' = [tenant EXCEPT ![q.org] = q.value] /\ Advance(h, "record")
     /\ UNCHANGED <<account, platformAdmin, member, invited, trail>>

\* The tenant first, the invitation of its administrator by queries that follow.
FoundTenant(h) ==
  /\ Handles(h, "found")
  /\ tenant[request[h].org] = Null
  /\ tenant' = [tenant EXCEPT ![request[h].org] = "TRIAL"]
  /\ Advance(h, "invite")
  /\ UNCHANGED <<account, platformAdmin, member, invited, trail>>

\* The slug that was free has been taken meanwhile: the unique key refuses it.
SlugTaken(h) ==
  /\ Handles(h, "found")
  /\ tenant[request[h].org] # Null
  /\ End(h)
  /\ UNCHANGED <<tables, trail>>

\* A tenant's status is told to the operators, then to the tenant itself.
Record(h) ==
  LET q == request[h]
      event == <<q.kind, IF q.kind \in {"tenant", "found"} THEN q.org ELSE q.target, q.value>>
  IN /\ q.pc \in {"record", "note"}
     /\ trail' = trail \cup {IF q.pc = "note" THEN <<"note", q.org, q.value>> ELSE event}
     /\ IF q.pc = "record" /\ q.kind = "tenant" THEN Advance(h, "note") ELSE End(h)
     /\ UNCHANGED tables

RequestFails(h) ==
  /\ Crashes
  /\ request[h].pc # "idle"
  /\ End(h)
  /\ UNCHANGED <<tables, trail>>

RequestStep(h) ==
  \/ Validate(h) \/ GuardTenant(h)
  \/ Invite(h) \/ SetMemberStatus(h)
  \/ SetUserStatus(h) \/ SetTenantStatus(h) \/ FoundTenant(h) \/ SlugTaken(h)
  \/ Record(h) \/ RequestFails(h)

----------------------------------------------------------------------------
\* Requests with no guard but the token, and the operator's script

OrganizationsOf(u) == {o \in Org : member[u][o] = "ACTIVE"}

\* Open registration is for development.
Register(u) ==
  /\ SelfService
  /\ account[u] = Null
  /\ account' = [account EXCEPT ![u] = "ACTIVE"]
  /\ UNCHANGED <<platformAdmin, tenant, member, invited>>

\* The founder is the first administrator, in one transaction.
CreateOrganization(u, o) ==
  /\ account[u] = "ACTIVE"
  /\ SelfService \/ u \in platformAdmin
  /\ tenant[o] = Null
  /\ tenant' = [tenant EXCEPT ![o] = "ACTIVE"]
  /\ member' = [member EXCEPT ![u][o] = "ACTIVE"]
  /\ UNCHANGED <<account, platformAdmin, invited>>

\* Whoever has no account yet is given one.
AcceptInvitation(u, o, loggedIn) ==
  /\ <<u, o>> \in invited
  /\ IF loggedIn THEN account[u] = "ACTIVE" ELSE account[u] = Null
  /\ invited' = invited \ {<<u, o>>}
  /\ member' = [member EXCEPT ![u][o] = "ACTIVE"]
  /\ account' = [account EXCEPT ![u] = "ACTIVE"]
  /\ UNCHANGED <<platformAdmin, tenant>>

\* An account that exists is promoted as it is, SUSPENDED or not.
BootstrapPlatformAdmin(u) ==
  /\ u \notin platformAdmin
  /\ platformAdmin' = platformAdmin \cup {u}
  /\ account' = [account EXCEPT ![u] = IF @ = Null THEN "ACTIVE" ELSE @]
  /\ trail' = trail \cup {<<"bootstrap", u, Null>>}
  /\ UNCHANGED <<tenant, member, invited, request>>

----------------------------------------------------------------------------
\* Properties

SomebodyAdministers == \E u \in platformAdmin : account[u] = "ACTIVE"

\* The last operator who is active goes only by a request of an operator who was
\* ACTIVE when the guard let it through and has been suspended since: nobody
\* suspends themselves, and whoever was suspended before has no say
\* (platform-users.service.ts:51-53, jwt.strategy.ts:27-31).
LastOperatorGoesInCrossfire ==
  [][SomebodyAdministers /\ ~SomebodyAdministers'
       => \E h \in Handler :
            /\ Handles(h, "user") /\ SetUserStatus(h)
            /\ request[h].user \in platformAdmin
            /\ account[request[h].user] = "SUSPENDED"]_accountsVars
=============================================================================
