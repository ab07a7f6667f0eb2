---------------------------- MODULE Memberships ----------------------------
(***************************************************************************)
(* The members of one organization and what administrators change about    *)
(* them (OrganizationsService).  A request passes the guards, reads the    *)
(* membership, counts the other administrators if it has to, writes by id  *)
(* and records an audit event: five awaits with no transaction.            *)
(***************************************************************************)
CONSTANTS
  User,      \* people, each known by one e-mail address
  Role,      \* what members may do
  Founder,   \* the administrators a behaviour starts with
  Manager,   \* handlers of requests to change a member that may be in flight
  Crashes,   \* whether the API process may die within a handler
  Null

MemberStatus == {"ACTIVE", "SUSPENDED"}

Member == [role : Role, status : MemberStatus]

ASSUME MembershipAssumption ==
  /\ "ADMINISTRATOR" \in Role
  /\ Role \cap MemberStatus = {}
  /\ Founder \subseteq User
  /\ Null \notin User \cup Role \cup MemberStatus \cup Member
  /\ Crashes \in BOOLEAN

VARIABLES
  member,   \* the membership of every user, or Null
  change,   \* per manager: the request it is working on
  audit     \* audit events recorded so far: <<action, object>>

membershipVars == <<member, change, audit>>

\* The value of a change is a role or a status.
Value == Role \cup MemberStatus

NoChange == [pc |-> "idle", target |-> Null, value |-> Null]

\* pc: guarded (the guards have passed), count (must not be the last
\* administrator), write, audit (has written)
ChangeRequest ==
  [pc : {"guarded", "count", "write", "audit"}, target : User, value : Value]

MembershipTypeOK ==
  /\ member \in [User -> Member \cup {Null}]
  /\ change \in [Manager -> ChangeRequest \cup {NoChange}]

\* An organization is created together with its first administrator.
MembershipInit ==
  /\ member = [u \in User |->
       IF u \in Founder THEN [role |-> "ADMINISTRATOR", status |-> "ACTIVE"] ELSE Null]
  /\ change = [h \in Manager |-> NoChange]
  /\ audit = {}

----------------------------------------------------------------------------
IsActiveAdmin(u) ==
  /\ member[u] # Null
  /\ member[u].role = "ADMINISTRATOR" /\ member[u].status = "ACTIVE"

\* Mutant: administrators who are suspended are counted as well.
OtherAdmins(u) ==
  {x \in User \ {u} : member[x] # Null /\ member[x].role = "ADMINISTRATOR"}

OtherActiveAdmins(u) == {x \in User \ {u} : IsActiveAdmin(x)}

Changed(m, value) ==
  IF value \in Role THEN [m EXCEPT !.role = value] ELSE [m EXCEPT !.status = value]

\* Would the change take an active administrator away?
Withdraws(m, value) ==
  /\ m.role = "ADMINISTRATOR" /\ m.status = "ACTIVE"
  /\ value \notin {"ADMINISTRATOR", "ACTIVE"}

----------------------------------------------------------------------------
\* Changing a member's role or status

RequestChange(h, actor, target, value) ==
  /\ change[h].pc = "idle"
  /\ IsActiveAdmin(actor)
  /\ member[target] # Null
  /\ change' = [change EXCEPT ![h] =
       [pc |-> "guarded", target |-> target, value |-> value]]
  /\ UNCHANGED <<member, audit>>

ReadMember(h) ==
  /\ change[h].pc = "guarded"
  /\ change' = [change EXCEPT ![h].pc =
       IF Withdraws(member[change[h].target], change[h].value) THEN "count" ELSE "write"]
  /\ UNCHANGED <<member, audit>>

AssertNotLastActiveAdmin(h) ==
  /\ change[h].pc = "count"
  /\ change' = [change EXCEPT ![h] =
       IF OtherActiveAdmins(change[h].target) = {} THEN NoChange
                                                   ELSE [@ EXCEPT !.pc = "write"]]
  /\ UNCHANGED <<member, audit>>

WriteMember(h) ==
  /\ change[h].pc = "write"
  /\ member' = [member EXCEPT ![change[h].target] = Changed(@, change[h].value)]
  /\ change' = [change EXCEPT ![h].pc = "audit"]
  /\ UNCHANGED audit

RecordChange(h) ==
  /\ change[h].pc = "audit"
  /\ audit' = audit \cup {<<change[h].value, change[h].target>>}
  /\ change' = [change EXCEPT ![h] = NoChange]
  /\ UNCHANGED member

\* The process dies, or a query fails, between two awaits of a handler.
ChangeFails(h) ==
  /\ Crashes
  /\ change[h].pc # "idle"
  /\ change' = [change EXCEPT ![h] = NoChange]
  /\ UNCHANGED <<member, audit>>

ChangeStep(h) ==
  \/ \E actor, target \in User, value \in Value : RequestChange(h, actor, target, value)
  \/ ReadMember(h)
  \/ AssertNotLastActiveAdmin(h)
  \/ WriteMember(h)
  \/ RecordChange(h)
  \/ ChangeFails(h)

MembershipNext == \E h \in Manager : ChangeStep(h)

MembershipSpec == MembershipInit /\ [][MembershipNext]_membershipVars

----------------------------------------------------------------------------
\* "A tenant can never be left with zero active ADMINISTRATOR members"
\* (docs/platform-admin.md:73-76).
AdminRemains == \E u \in User : IsActiveAdmin(u)
=============================================================================
