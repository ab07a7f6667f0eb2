------------------------- MODULE InvitationsProofs -------------------------
(***************************************************************************)
(* What holds of memberships and invitations for any number of users,      *)
(* invitations and requests in flight.                                     *)
(***************************************************************************)
EXTENDS InvitationHistory, TLAPS

----------------------------------------------------------------------------
\* Memberships by themselves

\* A change is of a member, and nobody ever stops being one.
ChangesRefer ==
  \A h \in Manager : change[h].pc # "idle" => member[change[h].target] # Null

MembershipInv == MembershipTypeOK /\ ChangesRefer

MembersStay == \A u \in User : member[u] # Null => member'[u] # Null

LEMMA ChangedType ==
  ASSUME NEW m \in Member, NEW value \in Value
  PROVE  Changed(m, value) \in Member
BY DEF Changed, Member, Value

LEMMA ChangeStepKeepsInv ==
  ASSUME MembershipInv, NEW h \in Manager, ChangeStep(h)
  PROVE  MembershipInv' /\ MembersStay
<1> USE MembershipAssumption DEF MembershipInv, MembershipTypeOK
<1>1. ASSUME NEW actor \in User, NEW target \in User, NEW value \in Value,
             RequestChange(h, actor, target, value)
      PROVE  MembershipInv' /\ MembersStay
  <2>1. [pc |-> "guarded", target |-> target, value |-> value] \in ChangeRequest
    BY DEF ChangeRequest
  <2> QED BY <1>1, <2>1 DEF RequestChange, ChangesRefer, MembersStay
<1>2. ASSUME change[h].pc # "idle"
      PROVE  /\ change[h] \in ChangeRequest
             /\ \A pc \in {"count", "write", "audit"} : [change[h] EXCEPT !.pc = pc] \in ChangeRequest
  <2>1. change[h] \in ChangeRequest
    BY <1>2 DEF NoChange
  <2> QED BY <2>1 DEF ChangeRequest
<1>3. ASSUME NEW pc \in {"count", "write", "audit"}, change[h].pc # "idle",
             change' = [change EXCEPT ![h].pc = pc], MembersStay,
             member' \in [User -> Member \cup {Null}]
      PROVE  MembershipInv'
  <2>1. change' \in [Manager -> ChangeRequest \cup {NoChange}]
    BY <1>2, <1>3
  <2>2. ChangesRefer'
    BY <1>2, <1>3 DEF ChangesRefer, MembersStay, ChangeRequest, NoChange
  <2> QED BY <1>3, <2>1, <2>2
<1>4. ASSUME UNCHANGED member, change' = [change EXCEPT ![h] = NoChange]
      PROVE  MembershipInv' /\ MembersStay
  BY <1>4 DEF ChangesRefer, MembersStay, NoChange
<1>5. ASSUME ReadMember(h) PROVE MembershipInv' /\ MembersStay
  <2>1. PICK pc \in {"count", "write", "audit"} : change' = [change EXCEPT ![h].pc = pc]
    BY <1>5 DEF ReadMember
  <2> QED BY <1>3, <1>5, <2>1 DEF ReadMember, MembersStay
<1>6. ASSUME AssertNotLastActiveAdmin(h) PROVE MembershipInv' /\ MembersStay
  <2>1. CASE OtherActiveAdmins(change[h].target) = {}
    BY <1>4, <1>6, <2>1 DEF AssertNotLastActiveAdmin
  <2>2. CASE OtherActiveAdmins(change[h].target) # {}
    BY <1>3, <1>6, <2>2 DEF AssertNotLastActiveAdmin, MembersStay
  <2> QED BY <2>1, <2>2
<1>7. ASSUME WriteMember(h) PROVE MembershipInv' /\ MembersStay
  <2>1. /\ change[h].target \in User /\ change[h].value \in Value
        /\ member[change[h].target] \in Member
    BY <1>2, <1>7 DEF WriteMember, ChangeRequest, ChangesRefer
  <2>2. Changed(member[change[h].target], change[h].value) \in Member
    BY <2>1, ChangedType
  <2>3. member' \in [User -> Member \cup {Null}] /\ MembersStay
    BY <1>7, <2>1, <2>2 DEF WriteMember, MembersStay
  <2> QED BY <1>3, <1>7, <2>3 DEF WriteMember
<1>8. ASSUME RecordChange(h) \/ ChangeFails(h) PROVE MembershipInv' /\ MembersStay
  BY <1>4, <1>8 DEF RecordChange, ChangeFails
<1> QED BY <1>1, <1>5, <1>6, <1>7, <1>8 DEF ChangeStep

----------------------------------------------------------------------------
\* The last administrator

\* Who is about to withdraw an administrator has seen another one.
WithdrawalSafe ==
  \A h \in Manager :
    change[h].pc = "write" /\ Withdraws(member[change[h].target], change[h].value)
      => OtherActiveAdmins(change[h].target) # {}

LastAdminInv == MembershipInv /\ WithdrawalSafe /\ AdminRemains

\* A write that withdraws no administrator keeps every one of them.
LEMMA ChangedKeepsAdmin ==
  ASSUME NEW m \in Member, NEW value \in Value,
         m.role = "ADMINISTRATOR", m.status = "ACTIVE", ~Withdraws(m, value)
  PROVE  Changed(m, value).role = "ADMINISTRATOR" /\ Changed(m, value).status = "ACTIVE"
BY MembershipAssumption DEF Member, MemberStatus, Value, Withdraws, Changed

LEMMA WriteKeepsAdmin ==
  ASSUME LastAdminInv, NEW h \in Manager, WriteMember(h)
  PROVE  AdminRemains'
<1> DEFINE t == change[h].target
           value == change[h].value
<1> USE MembershipAssumption DEF LastAdminInv, MembershipInv, MembershipTypeOK
<1>1. t \in User /\ value \in Value /\ member[t] \in Member
  BY DEF WriteMember, ChangesRefer, ChangeRequest, NoChange
<1>2. member' = [member EXCEPT ![t] = Changed(member[t], value)]
  BY DEF WriteMember
<1> HIDE DEF t, value
<1>3. ASSUME NEW x \in User, x # t, IsActiveAdmin(x) PROVE AdminRemains'
  BY <1>2, <1>3 DEF AdminRemains, IsActiveAdmin
<1>4. CASE Withdraws(member[t], value)
  <2>1. PICK x \in User \ {t} : IsActiveAdmin(x)
    BY <1>4 DEF WriteMember, WithdrawalSafe, OtherActiveAdmins, t, value
  <2> QED BY <1>3, <2>1
<1>5. CASE ~Withdraws(member[t], value)
  <2>1. PICK x \in User : IsActiveAdmin(x)
    BY DEF AdminRemains
  <2>2. CASE x # t
    BY <1>3, <2>1, <2>2
  <2>3. CASE x = t
    <3>1. /\ Changed(member[t], value).role = "ADMINISTRATOR"
          /\ Changed(member[t], value).status = "ACTIVE"
      BY <1>1, <1>5, <2>1, <2>3, ChangedKeepsAdmin DEF IsActiveAdmin
    <3>2. Changed(member[t], value) # Null
      BY <1>1, ChangedType
    <3>3. member'[t] = Changed(member[t], value)
      BY <1>1, <1>2
    <3> QED BY <1>1, <3>1, <3>2, <3>3 DEF AdminRemains, IsActiveAdmin
  <2> QED BY <2>2, <2>3
<1> QED BY <1>4, <1>5

LEMMA FoundedWithAdmin ==
  ASSUME Founder # {}, MembershipInit
  PROVE  LastAdminInv
<1>1. [role |-> "ADMINISTRATOR", status |-> "ACTIVE"] \in Member
  BY MembershipAssumption DEF Member, MemberStatus
<1>2. MembershipInv
  BY <1>1 DEF MembershipInit, MembershipInv, MembershipTypeOK, ChangesRefer, NoChange
<1>3. AdminRemains
  BY <1>1, MembershipAssumption DEF MembershipInit, AdminRemains, IsActiveAdmin
<1>4. WithdrawalSafe
  BY DEF MembershipInit, WithdrawalSafe, NoChange
<1> QED BY <1>2, <1>3, <1>4 DEF LastAdminInv

----------------------------------------------------------------------------
\* With invitations

\* A request in hand names invitations that exist and carries what it takes to
\* make one.
ErrandsRefer ==
  \A h \in Inviter :
    /\ errand[h].pc # "idle" => errand[h].email \in User /\ errand[h].role \in Role
    /\ errand[h].pc \in {"guarded", "revoke"} =>
         errand[h].invitation \in InvitationId /\ invitation[errand[h].invitation] # Null

VisitsRefer ==
  \A h \in Visitor : visit[h].pc # "idle" => invitation[visit[h].invitation] # Null

Holds(h) == visit[h].pc \in {"claimed", "join", "register"}

\* What a transaction has claimed is PENDING, and claimed by no other.
ClaimsHold ==
  \A h \in Visitor : Holds(h) =>
    /\ IsPending(visit[h].invitation)
    /\ \A g \in Visitor \ {h} : Holds(g) => visit[g].invitation # visit[h].invitation

InvitationInv ==
  /\ TypeOK
  /\ ChangesRefer
  /\ ErrandsRefer
  /\ VisitsRefer
  /\ ClaimsHold
  /\ AcceptedMeansMember

\* An invitation stays, and stays with its addressee.
InvitationsStay ==
  \A i \in InvitationId : invitation[i] # Null =>
    invitation'[i] # Null /\ invitation'[i].email = invitation[i].email

LEMMA InitInvitationInv == Init => InvitationInv
<1> SUFFICES ASSUME Init PROVE InvitationInv
  OBVIOUS
<1> USE DEF Init, MembershipInit
<1>1. [role |-> "ADMINISTRATOR", status |-> "ACTIVE"] \in Member
  BY MembershipAssumption DEF Member, MemberStatus
<1>2. MembershipTypeOK
  BY <1>1 DEF MembershipTypeOK
<1>3. account \subseteq User
  BY MembershipAssumption
<1>4. TypeOK
  BY <1>2, <1>3 DEF TypeOK
<1>5. ChangesRefer /\ ErrandsRefer /\ VisitsRefer
  BY DEF ChangesRefer, ErrandsRefer, VisitsRefer, NoChange, NoErrand, NoVisit
<1>6. ClaimsHold /\ AcceptedMeansMember
  BY DEF ClaimsHold, Holds, AcceptedMeansMember, NoVisit
<1> QED BY <1>4, <1>5, <1>6 DEF InvitationInv

\* Requests to change a member leave the invitations alone.
LEMMA MembershipStepKeepsInv ==
  ASSUME InvitationInv, MembershipNext, UNCHANGED invitationVars
  PROVE  InvitationInv'
<1>1. MembershipInv' /\ MembersStay
  BY ChangeStepKeepsInv DEF MembershipNext, InvitationInv, MembershipInv, TypeOK
<1>2. TypeOK' /\ ChangesRefer'
  BY <1>1 DEF invitationVars, InvitationInv, MembershipInv, TypeOK
<1>3. ErrandsRefer' /\ VisitsRefer' /\ ClaimsHold'
  BY DEF invitationVars, InvitationInv, ErrandsRefer, VisitsRefer, ClaimsHold, Holds, IsPending
<1>4. AcceptedMeansMember'
  BY <1>1 DEF invitationVars, InvitationInv, AcceptedMeansMember, MembersStay, TypeOK, Invitation
<1> QED BY <1>2, <1>3, <1>4 DEF InvitationInv

\* A write to the table of invitations that spares the rows held by a
\* transaction and accepts nobody: what administrators do, and expiring.
LEMMA TableStepKeepsInv ==
  ASSUME InvitationInv,
         UNCHANGED <<member, change, account, overdue>>,
         invitation' \in [InvitationId -> Invitation \cup {Null}],
         errand' \in [Inviter -> Errand \cup {NoErrand}],
         ErrandsRefer',
         visit' \in [Visitor -> Visit \cup {NoVisit}],
         \A h \in Visitor : visit'[h] = visit[h] \/ visit'[h] = NoVisit,
         \A i \in InvitationId : invitation'[i] # invitation[i] =>
           ~Locked(i) /\ invitation'[i] # Null /\ invitation'[i].status # "ACCEPTED"
  PROVE  InvitationInv'
<1> USE DEF InvitationInv
<1>1. TypeOK' /\ ChangesRefer'
  BY DEF TypeOK, MembershipTypeOK, ChangesRefer
<1>2. ASSUME NEW h \in Visitor, visit'[h].pc # "idle"
      PROVE  visit'[h] = visit[h] /\ visit[h].invitation \in InvitationId
  BY <1>2 DEF TypeOK, Visit, NoVisit
<1>3. VisitsRefer'
  BY <1>2 DEF VisitsRefer
<1>4. ClaimsHold'
  <2> SUFFICES ASSUME NEW h \in Visitor, Holds(h)'
               PROVE  /\ IsPending(visit[h].invitation)'
                      /\ \A g \in Visitor \ {h} :
                           Holds(g)' => visit'[g].invitation # visit'[h].invitation
    BY DEF ClaimsHold
  <2>1. \A g \in Visitor : Holds(g)' => visit'[g] = visit[g] /\ Holds(g)
    BY <1>2 DEF Holds
  <2>2. Locked(visit[h].invitation) /\ visit[h].invitation \in InvitationId
    BY <1>2, <2>1 DEF Locked, Holds
  <2>3. invitation'[visit[h].invitation] = invitation[visit[h].invitation]
    BY <2>2
  <2> QED BY <2>1, <2>3 DEF ClaimsHold, IsPending
<1>5. AcceptedMeansMember'
  BY DEF AcceptedMeansMember
<1> QED BY <1>1, <1>3, <1>4, <1>5

LEMMA ErrandMoves ==
  ASSUME InvitationInv, NEW h \in Inviter, NEW e \in Errand \cup {NoErrand},
         UNCHANGED <<member, change, account, overdue, visit>>,
         errand' = [errand EXCEPT ![h] = e],
         e.pc # "idle" => e.email \in User /\ e.role \in Role,
         e.pc \in {"guarded", "revoke"} =>
           e.invitation \in InvitationId /\ invitation[e.invitation] # Null,
         invitation' \in [InvitationId -> Invitation \cup {Null}],
         \A i \in InvitationId : invitation'[i] # invitation[i] =>
           ~Locked(i) /\ invitation'[i] # Null /\ invitation'[i].status # "ACCEPTED"
  PROVE  InvitationInv'
<1>1. /\ errand' \in [Inviter -> Errand \cup {NoErrand}]
      /\ visit' \in [Visitor -> Visit \cup {NoVisit}]
  BY DEF InvitationInv, TypeOK
<1>2. \A i \in InvitationId : invitation[i] # Null => invitation'[i] # Null
  OBVIOUS
<1>3. ErrandsRefer'
  <2> SUFFICES ASSUME NEW g \in Inviter
               PROVE  /\ errand'[g].pc # "idle" =>
                           errand'[g].email \in User /\ errand'[g].role \in Role
                      /\ errand'[g].pc \in {"guarded", "revoke"} =>
                           /\ errand'[g].invitation \in InvitationId
                           /\ invitation'[errand'[g].invitation] # Null
    BY DEF ErrandsRefer
  <2>1. CASE g = h
    BY <1>2, <2>1 DEF InvitationInv, TypeOK
  <2>2. CASE g # h
    <3>1. errand'[g] = errand[g]
      BY <2>2 DEF InvitationInv, TypeOK
    <3> QED BY <1>2, <3>1 DEF InvitationInv, ErrandsRefer
  <2> QED BY <2>1, <2>2
<1> QED BY <1>1, <1>3, TableStepKeepsInv

LEMMA ErrandStepKeepsInv ==
  ASSUME InvitationInv, NEW h \in Inviter, ErrandStep(h)
  PROVE  InvitationInv'
<1> USE MembershipAssumption, InvitationAssumption
<1>1. /\ errand \in [Inviter -> Errand \cup {NoErrand}]
      /\ invitation \in [InvitationId -> Invitation \cup {Null}]
  BY DEF InvitationInv, TypeOK
<1>2. ASSUME errand[h].pc # "idle"
      PROVE  errand[h] \in Errand /\ errand[h].email \in User /\ errand[h].role \in Role
  BY <1>1, <1>2 DEF NoErrand, InvitationInv, ErrandsRefer
<1>3. ASSUME UNCHANGED <<member, change, account, invitation, overdue, visit>>,
             errand' = [errand EXCEPT ![h] = NoErrand]
      PROVE  InvitationInv'
  BY <1>1, <1>3, ErrandMoves DEF NoErrand
<1>4. ASSUME NEW actor \in User, NEW email \in User, NEW role \in Role,
             RequestInvitation(h, actor, email, role)
      PROVE  InvitationInv'
  <2> DEFINE e == [pc |-> "create", action |-> "CREATE", invitation |-> Null,
                   email |-> email, role |-> role]
  <2>1. e \in Errand
    BY DEF Errand
  <2> QED BY <1>1, <1>4, <2>1, ErrandMoves DEF RequestInvitation, membershipVars
<1>5. ASSUME NEW actor \in User, NEW i \in InvitationId, NEW action \in {"RESEND", "REVOKE"},
             RequestWithdrawal(h, actor, i, action)
      PROVE  InvitationInv'
  <2> DEFINE e == [pc |-> "guarded", action |-> action, invitation |-> i,
                   email |-> invitation[i].email, role |-> invitation[i].role]
  <2>1. invitation[i] \in Invitation
    BY <1>1, <1>5 DEF RequestWithdrawal
  <2>2. e \in Errand /\ e.email \in User /\ e.role \in Role
    BY <2>1 DEF Errand, Invitation
  <2> QED BY <1>1, <1>5, <2>2, ErrandMoves DEF RequestWithdrawal, membershipVars
<1>6. ASSUME ReadInvitation(h) PROVE InvitationInv'
  <2>1. CASE ~IsPending(errand[h].invitation)
    BY <1>3, <1>6, <2>1 DEF ReadInvitation, membershipVars
  <2>2. CASE IsPending(errand[h].invitation)
    <3> DEFINE e == [errand[h] EXCEPT !.pc = "revoke"]
    <3>1. /\ e \in Errand /\ e.email \in User /\ e.role \in Role
          /\ e.invitation = errand[h].invitation
      BY <1>2, <1>6 DEF ReadInvitation, Errand
    <3>2. e.invitation \in InvitationId /\ invitation[e.invitation] # Null
      BY <1>6, <3>1 DEF ReadInvitation, InvitationInv, ErrandsRefer
    <3>3. errand' = [errand EXCEPT ![h] = e] /\ UNCHANGED <<member, change, account, invitation, overdue, visit>>
      BY <1>6, <2>2 DEF ReadInvitation, membershipVars
    <3> HIDE DEF e
    <3> QED BY <1>1, <3>1, <3>2, <3>3, ErrandMoves
  <2> QED BY <2>1, <2>2
<1>7. ASSUME WriteRevoked(h) PROVE InvitationInv'
  <2> DEFINE e == IF errand[h].action = "RESEND"
                    THEN [errand[h] EXCEPT !.pc = "create", !.action = "CREATE"]
                    ELSE [errand[h] EXCEPT !.pc = "audit"]
             i == errand[h].invitation
  <2>1. e \in Errand /\ e.email \in User /\ e.role \in Role /\ e.pc \in {"create", "audit"}
    BY <1>2, <1>7 DEF WriteRevoked, Errand
  <2>2. i \in InvitationId /\ invitation[i] \in Invitation
    BY <1>1, <1>7 DEF WriteRevoked, InvitationInv, ErrandsRefer
  <2>3. [invitation[i] EXCEPT !.status = "REVOKED"] \in Invitation
    BY <2>2 DEF Invitation
  <2>4. /\ invitation' \in [InvitationId -> Invitation \cup {Null}]
        /\ \A j \in InvitationId : invitation'[j] # invitation[j] =>
             ~Locked(j) /\ invitation'[j] # Null /\ invitation'[j].status # "ACCEPTED"
    BY <1>1, <1>7, <2>2, <2>3 DEF WriteRevoked, SetStatus, Invitation
  <2>5. errand' = [errand EXCEPT ![h] = e] /\ UNCHANGED <<member, change, account, overdue, visit>>
    BY <1>7 DEF WriteRevoked, membershipVars
  <2> HIDE DEF e
  <2> QED BY <2>1, <2>4, <2>5, ErrandMoves
<1>8. ASSUME NEW i \in InvitationId, CreateInvitation(h, i) PROVE InvitationInv'
  <2> DEFINE e == [errand[h] EXCEPT !.pc = "audit", !.invitation = i]
             new == [email |-> errand[h].email, role |-> errand[h].role,
                     status |-> "PENDING", acceptedBy |-> Null]
  <2>1. e \in Errand /\ e.email \in User /\ e.role \in Role /\ e.pc = "audit"
    BY <1>2, <1>8 DEF CreateInvitation, Errand
  <2>2. new \in Invitation
    BY <1>2, <1>8 DEF CreateInvitation, Invitation
  <2>3. ~Locked(i)
    BY <1>8 DEF CreateInvitation, Locked, InvitationInv, VisitsRefer
  <2>4. /\ invitation' \in [InvitationId -> Invitation \cup {Null}]
        /\ \A j \in InvitationId : invitation'[j] # invitation[j] =>
             ~Locked(j) /\ invitation'[j] # Null /\ invitation'[j].status # "ACCEPTED"
    BY <1>1, <1>8, <2>2, <2>3 DEF CreateInvitation
  <2>5. errand' = [errand EXCEPT ![h] = e] /\ UNCHANGED <<member, change, account, overdue, visit>>
    BY <1>8 DEF CreateInvitation, membershipVars
  <2> HIDE DEF e, new
  <2> QED BY <2>1, <2>4, <2>5, ErrandMoves
<1>9. ASSUME RecordErrand(h) \/ ErrandFails(h) PROVE InvitationInv'
  BY <1>3, <1>9 DEF RecordErrand, ErrandFails, membershipVars
<1> QED BY <1>4, <1>5, <1>6, <1>7, <1>8, <1>9 DEF ErrandStep

LEMMA VisitMoves ==
  ASSUME InvitationInv, NEW h \in Visitor, NEW v \in Visit \cup {NoVisit},
         UNCHANGED <<member, change, account, invitation, overdue, errand>>,
         visit' = [visit EXCEPT ![h] = v],
         v.pc # "idle" => invitation[v.invitation] # Null,
         v.pc \in {"claimed", "join", "register"} =>
           /\ IsPending(v.invitation)
           /\ \A g \in Visitor \ {h} : Holds(g) => visit[g].invitation # v.invitation
  PROVE  InvitationInv'
<1> USE DEF InvitationInv
<1>1. TypeOK' /\ ChangesRefer' /\ ErrandsRefer' /\ AcceptedMeansMember'
  BY DEF TypeOK, MembershipTypeOK, ChangesRefer, ErrandsRefer, AcceptedMeansMember
<1>2. visit'[h] = v /\ \A g \in Visitor \ {h} : visit'[g] = visit[g]
  BY DEF TypeOK
<1>3. VisitsRefer'
  BY <1>2 DEF VisitsRefer
<1>4. ClaimsHold'
  <2> SUFFICES ASSUME NEW f \in Visitor, Holds(f)'
               PROVE  /\ IsPending(visit[f].invitation)'
                      /\ \A g \in Visitor \ {f} :
                           Holds(g)' => visit'[g].invitation # visit'[f].invitation
    BY DEF ClaimsHold
  <2>1. \A i : IsPending(i)' <=> IsPending(i)
    BY DEF IsPending
  <2>2. CASE f = h
    BY <1>2, <2>1, <2>2 DEF Holds
  <2>3. CASE f # h
    BY <1>2, <2>1, <2>3 DEF Holds, ClaimsHold
  <2> QED BY <2>2, <2>3
<1> QED BY <1>1, <1>3, <1>4

LEMMA CommitAcceptKeepsInv ==
  ASSUME InvitationInv, NEW h \in Visitor, CommitAccept(h)
  PROVE  InvitationInv'
<1> DEFINE i == visit[h].invitation
           u == Invited(h).email
           m == [role |-> Invited(h).role, status |-> "ACTIVE"]
           used == [invitation[i] EXCEPT !.status = "ACCEPTED", !.acceptedBy = u]
<1> USE MembershipAssumption, InvitationAssumption DEF InvitationInv
<1>1. Holds(h)
  BY DEF CommitAccept, Holds
<1>2. i \in InvitationId /\ invitation[i] \in Invitation /\ Invited(h) = invitation[i]
  BY <1>1 DEF TypeOK, Visit, NoVisit, Holds, ClaimsHold, IsPending, Invited
<1>3. u \in User /\ m \in Member
  BY <1>2 DEF Invitation, Member, MemberStatus
<1>4. used \in Invitation /\ used.email = u
  BY <1>2, <1>3 DEF Invitation
<1>5. /\ account' = account \cup {u}
      /\ member' = [member EXCEPT ![u] = m]
      /\ invitation' = [invitation EXCEPT ![i] = used]
      /\ visit' = [visit EXCEPT ![h] = NoVisit]
      /\ UNCHANGED <<change, overdue, errand>>
  BY DEF CommitAccept
<1> HIDE DEF i, u, m, used
<1>6. TypeOK'
  BY <1>2, <1>3, <1>4, <1>5 DEF TypeOK, MembershipTypeOK
<1>7. m # Null /\ used # Null
  BY <1>3, <1>4
<1>8. MembersStay
  BY <1>3, <1>5, <1>7 DEF MembersStay, TypeOK, MembershipTypeOK
<1>9. \A j \in InvitationId : invitation[j] # Null => invitation'[j] # Null
  BY <1>5, <1>7 DEF TypeOK
<1>10. ChangesRefer'
  <2> SUFFICES ASSUME NEW g \in Manager, change[g].pc # "idle"
               PROVE  member'[change[g].target] # Null
    BY <1>5 DEF ChangesRefer
  <2>1. change[g].target \in User
    BY DEF TypeOK, MembershipTypeOK, ChangeRequest, NoChange
  <2> QED BY <1>8, <2>1 DEF MembersStay, ChangesRefer
<1>11. ErrandsRefer'
  BY <1>5, <1>9 DEF ErrandsRefer
<1>12. ASSUME NEW g \in Visitor, visit'[g].pc # "idle"
       PROVE  g # h /\ visit'[g] = visit[g] /\ visit[g].invitation \in InvitationId
  BY <1>5, <1>12 DEF TypeOK, Visit, NoVisit
<1>13. VisitsRefer'
  BY <1>9, <1>12 DEF VisitsRefer
<1>14. ClaimsHold'
  <2> SUFFICES ASSUME NEW f \in Visitor, Holds(f)'
               PROVE  /\ IsPending(visit[f].invitation)'
                      /\ \A g \in Visitor \ {f} :
                           Holds(g)' => visit'[g].invitation # visit'[f].invitation
    BY DEF ClaimsHold
  <2>1. \A g \in Visitor : Holds(g)' =>
           /\ Holds(g) /\ g # h /\ visit'[g] = visit[g]
           /\ visit[g].invitation \in InvitationId
    BY <1>12 DEF Holds
  <2>2. visit[f].invitation # i
    BY <1>1, <2>1 DEF ClaimsHold, i
  <2>3. invitation'[visit[f].invitation] = invitation[visit[f].invitation]
    BY <1>5, <2>1, <2>2 DEF TypeOK
  <2> QED BY <2>1, <2>3 DEF ClaimsHold, IsPending
<1>15. AcceptedMeansMember'
  <2> SUFFICES ASSUME NEW j \in InvitationId, invitation'[j] # Null,
                      invitation'[j].status = "ACCEPTED"
               PROVE  member'[invitation'[j].email] # Null /\ invitation'[j].email \in account'
    BY DEF AcceptedMeansMember
  <2>1. CASE j = i
    BY <1>2, <1>3, <1>4, <1>5, <1>7, <2>1 DEF TypeOK, MembershipTypeOK
  <2>2. CASE j # i
    <3>1. invitation'[j] = invitation[j]
      BY <1>5, <2>2 DEF TypeOK
    <3>2. invitation[j].email \in User
      BY <3>1 DEF TypeOK, Invitation
    <3> QED BY <1>5, <1>8, <3>1, <3>2 DEF AcceptedMeansMember, MembersStay
  <2> QED BY <2>1, <2>2
<1> QED BY <1>6, <1>10, <1>11, <1>13, <1>14, <1>15

LEMMA VisitStepKeepsInv ==
  ASSUME InvitationInv, NEW h \in Visitor, VisitStep(h)
  PROVE  InvitationInv'
<1> USE MembershipAssumption, InvitationAssumption
<1>1. /\ visit \in [Visitor -> Visit \cup {NoVisit}]
      /\ invitation \in [InvitationId -> Invitation \cup {Null}]
  BY DEF InvitationInv, TypeOK
<1>2. ASSUME visit[h].pc # "idle"
      PROVE  /\ visit[h] \in Visit /\ visit[h].invitation \in InvitationId
             /\ invitation[visit[h].invitation] # Null
             /\ invitation[visit[h].invitation] \in Invitation
  BY <1>1, <1>2 DEF NoVisit, Visit, InvitationInv, VisitsRefer
<1>3. ASSUME UNCHANGED <<member, change, account, invitation, overdue, errand>>,
             visit' = [visit EXCEPT ![h] = NoVisit]
      PROVE  InvitationInv'
  BY <1>1, <1>3, VisitMoves DEF NoVisit
<1>4. ASSUME NEW i \in InvitationId, NEW own \in BOOLEAN, LookUp(h, i, own)
      PROVE  InvitationInv'
  <2> DEFINE v == IF i \in overdue THEN [pc |-> "expire", invitation |-> i, own |-> FALSE]
                                   ELSE [pc |-> "claim", invitation |-> i, own |-> own]
  <2>1. v \in Visit /\ v.pc \in {"expire", "claim"} /\ v.invitation = i
    BY DEF Visit
  <2>2. invitation[i] # Null
    BY <1>4 DEF LookUp, IsPending
  <2>3. visit' = [visit EXCEPT ![h] = v]
        /\ UNCHANGED <<member, change, account, invitation, overdue, errand>>
    BY <1>4 DEF LookUp, membershipVars
  <2> HIDE DEF v
  <2> QED BY <2>1, <2>2, <2>3, VisitMoves
<1>5. ASSUME WriteExpired(h) PROVE InvitationInv'
  <2> DEFINE i == visit[h].invitation
  <2>1. [invitation[i] EXCEPT !.status = "EXPIRED"] \in Invitation
    BY <1>2, <1>5 DEF WriteExpired, Invitation
  <2>2. /\ invitation' \in [InvitationId -> Invitation \cup {Null}]
        /\ \A j \in InvitationId : invitation'[j] # invitation[j] =>
             ~Locked(j) /\ invitation'[j] # Null /\ invitation'[j].status # "ACCEPTED"
    BY <1>1, <1>2, <1>5, <2>1 DEF WriteExpired, SetStatus, Invitation
  <2>3. /\ visit' \in [Visitor -> Visit \cup {NoVisit}]
        /\ \A g \in Visitor : visit'[g] = visit[g] \/ visit'[g] = NoVisit
    BY <1>1, <1>5 DEF WriteExpired
  <2>4. ErrandsRefer' /\ errand' \in [Inviter -> Errand \cup {NoErrand}]
    BY <1>5, <2>2 DEF WriteExpired, InvitationInv, ErrandsRefer, TypeOK
  <2> QED BY <1>5, <2>2, <2>3, <2>4, TableStepKeepsInv DEF WriteExpired, membershipVars
<1>6. ASSUME NEW pc \in {"claimed", "join", "register"}, visit[h].pc # "idle",
             IsPending(visit[h].invitation),
             \A g \in Visitor \ {h} : Holds(g) => visit[g].invitation # visit[h].invitation,
             UNCHANGED <<member, change, account, invitation, overdue, errand>>,
             visit' = [visit EXCEPT ![h].pc = pc]
      PROVE  InvitationInv'
  <2> DEFINE v == [visit[h] EXCEPT !.pc = pc]
  <2>1. v \in Visit /\ v.pc = pc /\ v.invitation = visit[h].invitation
    BY <1>2, <1>6 DEF Visit
  <2>2. visit' = [visit EXCEPT ![h] = v]
    BY <1>6
  <2> HIDE DEF v
  <2>3. /\ invitation[v.invitation] # Null
        /\ IsPending(v.invitation)
        /\ \A g \in Visitor \ {h} : Holds(g) => visit[g].invitation # v.invitation
    BY <1>2, <1>6, <2>1 DEF IsPending
  <2> QED BY <1>6, <2>1, <2>2, <2>3, VisitMoves
<1>7. ASSUME Claim(h) PROVE InvitationInv'
  <2>1. CASE ~IsPending(visit[h].invitation)
    BY <1>3, <1>7, <2>1 DEF Claim, membershipVars
  <2>2. CASE IsPending(visit[h].invitation)
    <3>1. \A g \in Visitor : Holds(g) => visit[g].invitation # visit[h].invitation
      BY <1>7 DEF Claim, Locked, Holds
    <3> QED BY <1>6, <1>7, <2>2, <3>1 DEF Claim, membershipVars
  <2> QED BY <2>1, <2>2
<1>8. ASSUME FindUser(h) PROVE InvitationInv'
  <2>1. /\ IsPending(visit[h].invitation)
        /\ \A g \in Visitor \ {h} : Holds(g) => visit[g].invitation # visit[h].invitation
    BY <1>8 DEF FindUser, InvitationInv, ClaimsHold, Holds
  <2>2. PICK pc \in {"join", "register"} : visit' = [visit EXCEPT ![h].pc = pc]
    BY <1>8 DEF FindUser
  <2> QED BY <1>6, <1>8, <2>1, <2>2 DEF FindUser, membershipVars
<1>9. ASSUME RefuseVisitor(h) \/ VisitFails(h) PROVE InvitationInv'
  BY <1>3, <1>9 DEF RefuseVisitor, VisitFails, membershipVars
<1>10. ASSUME CommitAccept(h) PROVE InvitationInv'
  BY <1>10, CommitAcceptKeepsInv
<1> QED BY <1>4, <1>5, <1>7, <1>8, <1>9, <1>10 DEF VisitStep

\* Time going by changes nothing the invariant speaks of.
LEMMA OverdueKeepsInv ==
  ASSUME InvitationInv, NEW i \in InvitationId, BecomeOverdue(i)
  PROVE  InvitationInv'
<1> USE DEF BecomeOverdue, membershipVars, InvitationInv
<1>1. TypeOK' /\ ChangesRefer' /\ ErrandsRefer' /\ AcceptedMeansMember'
  BY DEF TypeOK, MembershipTypeOK, ChangesRefer, ErrandsRefer, AcceptedMeansMember
<1>2. VisitsRefer' /\ ClaimsHold'
  BY DEF VisitsRefer, ClaimsHold, Holds, IsPending
<1> QED BY <1>1, <1>2

LEMMA InvitationInvStep ==
  ASSUME InvitationInv, [Next]_vars
  PROVE  InvitationInv'
<1>1. CASE UNCHANGED vars
  <2>1. UNCHANGED <<member, change, account, invitation, overdue, errand, visit>>
    BY <1>1 DEF vars, membershipVars, invitationVars
  <2>2. TypeOK' /\ ChangesRefer' /\ ErrandsRefer' /\ AcceptedMeansMember'
    BY <2>1 DEF InvitationInv, TypeOK, MembershipTypeOK, ChangesRefer, ErrandsRefer,
                AcceptedMeansMember
  <2>3. VisitsRefer' /\ ClaimsHold'
    BY <2>1 DEF InvitationInv, VisitsRefer, ClaimsHold, Holds, IsPending
  <2> QED BY <2>2, <2>3 DEF InvitationInv
<1>2. CASE MembershipNext /\ UNCHANGED invitationVars
  BY <1>2, MembershipStepKeepsInv
<1>3. CASE \E h \in Inviter : ErrandStep(h)
  BY <1>3, ErrandStepKeepsInv
<1>4. CASE \E h \in Visitor : VisitStep(h)
  BY <1>4, VisitStepKeepsInv
<1>5. CASE \E i \in InvitationId : BecomeOverdue(i)
  BY <1>5, OverdueKeepsInv
<1> QED BY <1>1, <1>2, <1>3, <1>4, <1>5 DEF Next

\* The inductive invariant of InvitationsService and OrganizationsService.
THEOREM InvitationInvariant == Spec => []InvitationInv
<1>1. Init => InvitationInv
  BY InitInvitationInv
<1>2. InvitationInv /\ [Next]_vars => InvitationInv'
  BY InvitationInvStep
<1> QED BY <1>1, <1>2, PTL DEF Spec

\* All variables of memberships and invitations keep their types.
THEOREM InvitationTypeCorrect == Spec => []TypeOK
<1>1. InvitationInv => TypeOK
  BY DEF InvitationInv
<1> QED BY <1>1, InvitationInvariant, PTL

\* An invitation counts as used only if its addressee has an account and a
\* membership (InvitationsService.accept).
THEOREM AcceptedMeansMemberEver == Spec => []AcceptedMeansMember
<1>1. InvitationInv => AcceptedMeansMember
  BY DEF InvitationInv
<1> QED BY <1>1, InvitationInvariant, PTL

----------------------------------------------------------------------------
\* What becomes of an invitation

\* The three ways to write to the table of invitations.
LEMMA ErrandWrites ==
  ASSUME NEW h \in Inviter, ErrandStep(h)
  PROVE  \/ UNCHANGED invitation \/ SetStatus(errand[h].invitation, "REVOKED")
         \/ \E j \in InvitationId : CreateInvitation(h, j)
  BY DEF ErrandStep, RequestInvitation, RequestWithdrawal, ReadInvitation, WriteRevoked,
         RecordErrand, ErrandFails

LEMMA VisitWrites ==
  ASSUME NEW h \in Visitor, VisitStep(h)
  PROVE  \/ UNCHANGED invitation \/ SetStatus(visit[h].invitation, "EXPIRED")
         \/ CommitAccept(h)
  BY DEF VisitStep, LookUp, WriteExpired, Claim, FindUser, RefuseVisitor, VisitFails

\* A step leaves an invitation alone, makes it, rejects it, or accepts one that
\* is PENDING.
LEMMA InvitationMoves ==
  ASSUME InvitationInv, [Next]_vars, NEW i \in InvitationId
  PROVE  \/ invitation'[i] = invitation[i]
         \/ invitation[i] = Null
         \/ invitation'[i].status # "ACCEPTED"
         \/ IsPending(i)
<1> DEFINE Moves == \/ invitation'[i] = invitation[i]
                    \/ invitation[i] = Null
                    \/ invitation'[i].status # "ACCEPTED"
                    \/ IsPending(i)
<1>1. invitation \in [InvitationId -> Invitation \cup {Null}]
  BY DEF InvitationInv, TypeOK
<1>2. ASSUME UNCHANGED invitation PROVE Moves
  BY <1>2
<1>3. ASSUME NEW j, NEW newStatus \in {"REVOKED", "EXPIRED"}, SetStatus(j, newStatus)
      PROVE  Moves
  BY <1>1, <1>3 DEF SetStatus, Invitation
<1>4. ASSUME NEW h, NEW j \in InvitationId, CreateInvitation(h, j) PROVE Moves
  BY <1>1, <1>4 DEF CreateInvitation
<1>5. ASSUME NEW h \in Visitor, CommitAccept(h) PROVE Moves
  <2>1. CASE visit[h].invitation = i
    BY <1>5, <2>1 DEF CommitAccept, InvitationInv, ClaimsHold, Holds
  <2>2. CASE visit[h].invitation # i
    BY <1>1, <1>5, <2>2 DEF CommitAccept
  <2> QED BY <2>1, <2>2
<1>6. CASE UNCHANGED vars
  BY <1>2, <1>6 DEF vars, invitationVars
<1>7. CASE MembershipNext /\ UNCHANGED invitationVars
  BY <1>2, <1>7 DEF invitationVars
<1>8. CASE \E h \in Inviter : ErrandStep(h)
  BY <1>2, <1>3, <1>4, <1>8, ErrandWrites
<1>9. CASE \E h \in Visitor : VisitStep(h)
  BY <1>2, <1>3, <1>5, <1>9, VisitWrites
<1>10. CASE \E j \in InvitationId : BecomeOverdue(j)
  BY <1>2, <1>10 DEF BecomeOverdue
<1> QED BY <1>6, <1>7, <1>8, <1>9, <1>10 DEF Next

\* A revoked or expired invitation is never accepted, for any number of
\* requests in flight (claim and writes by id in InvitationsService).
THEOREM RejectedStaysRejectedEver == Spec => RejectedStaysRejected
<1>1. InvitationInv /\ [Next]_vars =>
        [\A i \in InvitationId :
           invitation[i] # Null /\ invitation[i].status \in {"REVOKED", "EXPIRED"}
             => invitation'[i].status # "ACCEPTED"]_vars
  BY InvitationMoves DEF IsPending
<1> QED BY <1>1, InvitationInvariant, PTL DEF Spec, RejectedStaysRejected

----------------------------------------------------------------------------
\* Who comes with a link comes once

\* What may still be accepted has not been accepted.
UsedInv ==
  \A i \in InvitationId :
    /\ joined[i] \in {0, 1}
    /\ invitation[i] = Null \/ IsPending(i) => joined[i] = 0

LEMMA AcceptMoves ==
  ASSUME InvitationInv, NEW h \in Visitor, NEW i \in InvitationId, Accepts(h, i)
  PROVE  IsPending(i) /\ invitation'[i] # Null /\ ~ IsPending(i)'
<1>1. IsPending(i) /\ invitation[i] \in Invitation
  BY DEF Accepts, CommitAccept, InvitationInv, ClaimsHold, Holds, IsPending, TypeOK
<1> DEFINE used == [invitation[i] EXCEPT !.status = "ACCEPTED", !.acceptedBy = Invited(h).email]
<1>2. invitation'[i] = used
  BY DEF Accepts, CommitAccept, InvitationInv, TypeOK
<1>3. used \in Invitation /\ used.status = "ACCEPTED"
  <2>1. Invited(h).email \in User
    BY <1>1 DEF Accepts, Invited, Invitation
  <2> QED BY <1>1, <2>1 DEF Invitation
<1> HIDE DEF used
<1> QED BY <1>1, <1>2, <1>3, InvitationAssumption DEF IsPending

\* No step makes an invitation PENDING again.
LEMMA PendingOnlyOnce ==
  ASSUME InvitationInv, [Next]_vars, NEW i \in InvitationId,
         invitation'[i] = Null \/ IsPending(i)'
  PROVE  invitation[i] = Null \/ IsPending(i)
<1> DEFINE Moves == invitation[i] = Null \/ IsPending(i)
<1>1. invitation \in [InvitationId -> Invitation \cup {Null}]
  BY DEF InvitationInv, TypeOK
<1>2. ASSUME UNCHANGED invitation PROVE Moves
  BY <1>2 DEF IsPending
<1>3. ASSUME NEW j, NEW newStatus \in {"REVOKED", "EXPIRED"}, SetStatus(j, newStatus)
      PROVE  Moves
  <2>1. CASE i = j /\ invitation[i] # Null
    <3>1. [invitation[i] EXCEPT !.status = newStatus] \in Invitation
      BY <1>1, <1>3, <2>1 DEF Invitation
    <3>2. invitation'[i] = [invitation[i] EXCEPT !.status = newStatus]
      BY <1>1, <1>3, <2>1 DEF SetStatus
    <3>3. invitation'[i].status = newStatus
      BY <1>1, <2>1, <3>2 DEF Invitation
    <3> QED BY <3>1, <3>2, <3>3, InvitationAssumption DEF IsPending
  <2>2. CASE i # j \/ invitation[i] = Null
    BY <1>1, <1>3, <2>2 DEF SetStatus, IsPending
  <2> QED BY <2>1, <2>2
<1>4. ASSUME NEW h, NEW j \in InvitationId, CreateInvitation(h, j) PROVE Moves
  BY <1>1, <1>4 DEF CreateInvitation, IsPending
<1>5. ASSUME NEW h \in Visitor, CommitAccept(h) PROVE Moves
  <2>1. CASE visit[h].invitation = i
    BY <1>5, <2>1, AcceptMoves DEF Accepts
  <2>2. CASE visit[h].invitation # i
    BY <1>1, <1>5, <2>2 DEF CommitAccept, IsPending
  <2> QED BY <2>1, <2>2
<1>6. CASE UNCHANGED vars
  BY <1>2, <1>6 DEF vars, invitationVars
<1>7. CASE MembershipNext /\ UNCHANGED invitationVars
  BY <1>2, <1>7 DEF invitationVars
<1>8. CASE \E h \in Inviter : ErrandStep(h)
  BY <1>2, <1>3, <1>4, <1>8, ErrandWrites
<1>9. CASE \E h \in Visitor : VisitStep(h)
  BY <1>2, <1>3, <1>5, <1>9, VisitWrites
<1>10. CASE \E j \in InvitationId : BecomeOverdue(j)
  BY <1>2, <1>10 DEF BecomeOverdue
<1> QED BY <1>6, <1>7, <1>8, <1>9, <1>10 DEF Next

LEMMA UsedStep ==
  ASSUME InvitationInv, UsedInv, Next /\ Recall
  PROVE  UsedInv'
<1> SUFFICES ASSUME NEW i \in InvitationId
             PROVE  /\ joined'[i] \in {0, 1}
                    /\ invitation'[i] = Null \/ IsPending(i)' => joined'[i] = 0
  BY DEF UsedInv
<1>1. CASE \E h \in Visitor : Accepts(h, i)
  <2>1. joined[i] = 0 /\ invitation'[i] # Null /\ ~ IsPending(i)'
    BY <1>1, AcceptMoves DEF UsedInv
  <2>2. joined'[i] = joined[i] + 1
    BY <1>1 DEF Recall
  <2> QED BY <2>1, <2>2
<1>2. CASE ~ \E h \in Visitor : Accepts(h, i)
  <2>1. joined'[i] = joined[i]
    BY <1>2 DEF Recall
  <2> QED BY <2>1, PendingOnlyOnce DEF UsedInv
<1> QED BY <1>1, <1>2

----------------------------------------------------------------------------
\* The last administrator, unless one goes where the protection does not look

ProtectionInv == undermined \/ (WithdrawalSafe /\ AdminRemains)

LEMMA AdminStays ==
  ASSUME UNCHANGED member
  PROVE  /\ AdminRemains => AdminRemains'
         /\ \A u : OtherActiveAdmins(u)' = OtherActiveAdmins(u)
  BY DEF AdminRemains, OtherActiveAdmins, IsActiveAdmin

\* A request that was let through stays safe as long as no administrator goes:
\* if its target has only become one since, there was another before.
LEMMA NobodyGoesKeepsSafe ==
  ASSUME WithdrawalSafe, AdminRemains, ~Demotes, NEW h \in Manager,
         change[h].pc = "write", change'[h] = change[h], AboutToWithdraw(h)'
  PROVE  OtherActiveAdmins(change[h].target)' # {}
<1> DEFINE t == change[h].target
<1>1. PICK x \in User : IsActiveAdmin(x) /\ x # t
  <2>1. CASE Withdraws(member[t], change[h].value)
    BY <2>1 DEF WithdrawalSafe, OtherActiveAdmins
  <2>2. CASE ~Withdraws(member[t], change[h].value)
    <3>1. change[h].value \notin {"ADMINISTRATOR", "ACTIVE"}
      BY DEF AboutToWithdraw, Withdraws
    <3>2. ~IsActiveAdmin(t)
      BY <2>2, <3>1 DEF Withdraws, IsActiveAdmin
    <3> QED BY <3>2 DEF AdminRemains
  <2> QED BY <2>1, <2>2
<1>2. IsActiveAdmin(x)'
  BY <1>1 DEF Demotes
<1>3. x \in OtherActiveAdmins(t)'
  BY <1>1, <1>2 DEF OtherActiveAdmins
<1> QED BY <1>3

\* A manager's step that writes nothing.
LEMMA JudgingKeepsSafe ==
  ASSUME MembershipInv, WithdrawalSafe, NEW h \in Manager, ChangeStep(h), ~ WriteMember(h)
  PROVE  UNCHANGED member /\ WithdrawalSafe'
<1>1. UNCHANGED member
  BY DEF ChangeStep, RequestChange, ReadMember, AssertNotLastActiveAdmin, RecordChange, ChangeFails
<1>2. change \in [Manager -> ChangeRequest \cup {NoChange}]
  BY DEF MembershipInv, MembershipTypeOK
<1>3. ASSUME change'[h].pc = "write", Withdraws(member[change'[h].target], change'[h].value)
      PROVE  OtherActiveAdmins(change'[h].target) # {}
  <2>1. ReadMember(h) \/ AssertNotLastActiveAdmin(h)
    BY <1>2, <1>3 DEF ChangeStep, RequestChange, RecordChange, ChangeFails, NoChange
  <2>2. CASE ReadMember(h)
    BY <1>2, <1>3, <2>2 DEF ReadMember
  <2>3. CASE AssertNotLastActiveAdmin(h)
    BY <1>2, <1>3, <2>3 DEF AssertNotLastActiveAdmin, NoChange
  <2> QED BY <2>1, <2>2, <2>3
<1>4. \A g \in Manager : g # h => change'[g] = change[g]
  BY <1>2 DEF ChangeStep, RequestChange, ReadMember, AssertNotLastActiveAdmin, RecordChange,
              ChangeFails
<1>5. WithdrawalSafe'
  BY <1>1, <1>3, <1>4, AdminStays DEF WithdrawalSafe
<1> QED BY <1>1, <1>5

LEMMA ManagerKeepsProtection ==
  ASSUME InvitationInv, ProtectionInv, NEW h \in Manager, ChangeStep(h), Recall
  PROVE  ProtectionInv'
<1>1. MembershipInv
  BY DEF InvitationInv, TypeOK, MembershipInv
<1> SUFFICES ASSUME ~ undermined' PROVE WithdrawalSafe' /\ AdminRemains'
  BY DEF ProtectionInv
<1>2. ~ undermined /\ ~ Undermines /\ WithdrawalSafe /\ AdminRemains
  BY DEF Recall, ProtectionInv
<1>3. CASE WriteMember(h)
  <2>1. AdminRemains'
    BY <1>1, <1>2, <1>3, WriteKeepsAdmin DEF LastAdminInv
  <2>2. ASSUME NEW g \in Manager, AboutToWithdraw(g)'
        PROVE  OtherActiveAdmins(change[g].target)' # {}
    <3>1. g # h /\ change'[g] = change[g]
      BY <1>1, <1>3, <2>2 DEF AboutToWithdraw, WriteMember, MembershipInv, MembershipTypeOK
    <3>2. change[g].pc = "write"
      BY <2>2, <3>1 DEF AboutToWithdraw
    <3>3. ~Demotes
      BY <1>2, <2>2 DEF Undermines
    <3> QED BY <1>2, <2>2, <3>1, <3>2, <3>3, NobodyGoesKeepsSafe
  <2> QED BY <2>1, <2>2 DEF WithdrawalSafe, AboutToWithdraw
<1>4. CASE ~ WriteMember(h)
  BY <1>1, <1>2, <1>4, JudgingKeepsSafe, AdminStays
<1> QED BY <1>3, <1>4

LEMMA AcceptKeepsProtection ==
  ASSUME InvitationInv, ProtectionInv, NEW h \in Visitor, CommitAccept(h), Recall
  PROVE  ProtectionInv'
<1> SUFFICES ASSUME ~ undermined' PROVE WithdrawalSafe' /\ AdminRemains'
  BY DEF ProtectionInv
<1>1. ~Demotes /\ WithdrawalSafe /\ AdminRemains
  BY DEF Recall, ProtectionInv, Undermines
<1>2. UNCHANGED change
  BY DEF CommitAccept
<1>3. AdminRemains'
  BY <1>1 DEF AdminRemains, Demotes
<1>4. ASSUME NEW g \in Manager, AboutToWithdraw(g)'
      PROVE  OtherActiveAdmins(change[g].target)' # {}
  <2>1. change[g].pc = "write" /\ change'[g] = change[g]
    BY <1>2, <1>4 DEF AboutToWithdraw
  <2> QED BY <1>1, <1>4, <2>1, NobodyGoesKeepsSafe
<1> QED BY <1>3, <1>4 DEF WithdrawalSafe, AboutToWithdraw

LEMMA RestKeepsProtection ==
  ASSUME ProtectionInv, UNCHANGED <<member, change>>, undermined => undermined'
  PROVE  ProtectionInv'
  BY AdminStays DEF ProtectionInv, WithdrawalSafe

LEMMA ProtectionStep ==
  ASSUME InvitationInv, ProtectionInv, Next /\ Recall
  PROVE  ProtectionInv'
<1>1. undermined => undermined'
  BY DEF Recall
<1>2. CASE MembershipNext /\ UNCHANGED invitationVars
  BY <1>2, ManagerKeepsProtection DEF MembershipNext
<1>3. CASE \E h \in Inviter : ErrandStep(h)
  BY <1>1, <1>3, RestKeepsProtection
     DEF ErrandStep, RequestInvitation, RequestWithdrawal, ReadInvitation, WriteRevoked,
         CreateInvitation, RecordErrand, ErrandFails, membershipVars
<1>4. ASSUME NEW h \in Visitor, VisitStep(h) PROVE ProtectionInv'
  <2>1. CASE CommitAccept(h)
    BY <2>1, AcceptKeepsProtection
  <2>2. CASE ~ CommitAccept(h)
    <3>1. UNCHANGED <<member, change>>
      BY <1>4, <2>2 DEF VisitStep, LookUp, WriteExpired, Claim, FindUser, RefuseVisitor, VisitFails,
                        membershipVars
    <3> QED BY <1>1, <3>1, RestKeepsProtection
  <2> QED BY <2>1, <2>2
<1>5. CASE \E i \in InvitationId : BecomeOverdue(i)
  BY <1>1, <1>5, RestKeepsProtection DEF BecomeOverdue, membershipVars
<1> QED BY <1>2, <1>3, <1>4, <1>5 DEF Next

----------------------------------------------------------------------------
\* An invitation is accepted at most once, for any number of requests with its
\* link, and whatever administrators do to it meanwhile (InvitationsService.accept).
THEOREM NoLinkIsUsedTwice == InvitationHistorySpec => []TokenUsedOnce
<1> DEFINE Inv == InvitationInv /\ UsedInv
<1>1. HistoryInit => Inv
  BY InitInvitationInv DEF HistoryInit, Init, UsedInv
<1>2. ASSUME Inv, [Next /\ Recall]_<<vars, historyVars>> PROVE Inv'
  <2>1. InvitationInv'
    BY <1>2, InvitationInvStep
  <2>2. CASE Next /\ Recall
    BY <1>2, <2>1, <2>2, UsedStep
  <2>3. CASE UNCHANGED <<vars, historyVars>>
    BY <1>2, <2>1, <2>3 DEF vars, invitationVars, historyVars, UsedInv, IsPending
  <2> QED BY <1>2, <2>2, <2>3
<1>3. Inv => TokenUsedOnce
  BY DEF UsedInv, TokenUsedOnce
<1> QED BY <1>1, <1>2, <1>3, PTL DEF InvitationHistorySpec

\* For any number of requests and invitations at once, an organization that was
\* founded by somebody loses its last active administrator only if one went
\* between the count and the write of a request that takes another away, or by an
\* invitation that overwrote his membership
\* (OrganizationsService.assertNotLastActiveAdmin).
THEOREM LastAdminGoesOnlyBehindBacks ==
  ASSUME Founder # {}
  PROVE  InvitationHistorySpec => []LastAdminProtected
<1> DEFINE Inv == InvitationInv /\ ProtectionInv
<1>1. HistoryInit => Inv
  <2> SUFFICES ASSUME HistoryInit PROVE Inv
    OBVIOUS
  <2>1. LastAdminInv
    BY FoundedWithAdmin DEF HistoryInit, Init
  <2> QED BY <2>1, InitInvitationInv DEF HistoryInit, ProtectionInv, LastAdminInv
<1>2. ASSUME Inv, [Next /\ Recall]_<<vars, historyVars>> PROVE Inv'
  <2>1. InvitationInv'
    BY <1>2, InvitationInvStep
  <2>2. CASE Next /\ Recall
    BY <1>2, <2>1, <2>2, ProtectionStep
  <2>3. CASE UNCHANGED <<vars, historyVars>>
    BY <1>2, <2>1, <2>3, RestKeepsProtection DEF vars, membershipVars, historyVars
  <2> QED BY <1>2, <2>2, <2>3
<1>3. Inv => LastAdminProtected
  BY DEF ProtectionInv, LastAdminProtected
<1> QED BY <1>1, <1>2, <1>3, PTL DEF InvitationHistorySpec
=============================================================================
