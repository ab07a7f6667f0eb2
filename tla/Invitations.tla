---------------------------- MODULE Invitations ----------------------------
(***************************************************************************)
(* Invitations to an organization (InvitationsService), composed with the  *)
(* memberships they lead to.  Administrators create, resend and revoke;    *)
(* whoever holds the link looks it up and accepts.                         *)
(*                                                                         *)
(* Accepting is a READ COMMITTED transaction whose first query claims the  *)
(* invitation: it updates the row if it is still PENDING and so holds the  *)
(* lock of the row to the end.  Every other write to that row waits for    *)
(* the lock, then goes ahead on what was committed.                        *)
(***************************************************************************)
EXTENDS Memberships

CONSTANTS
  InvitationId,   \* invitations that may be made: bounds their number
  Inviter,        \* handlers of administrators' requests in flight
  Visitor         \* handlers of requests that come with a link, in flight

Invitation ==
  [email : User, role : Role, status : {"PENDING", "ACCEPTED", "REVOKED", "EXPIRED"},
   acceptedBy : User \cup {Null}]

ASSUME InvitationAssumption == Null \notin InvitationId \cup Invitation

VARIABLES
  account,      \* the users who have an account, with or without a membership
  invitation,   \* the invitations table
  overdue,      \* invitations whose time is over
  errand,       \* per inviter: the request it is working on
  visit         \* per visitor: the request it is working on

invitationVars == <<account, invitation, overdue, errand, visit>>
vars == <<membershipVars, invitationVars>>

NoErrand == [pc |-> "idle", action |-> Null, invitation |-> Null, email |-> Null, role |-> Null]

\* pc: guarded (the guards have passed), revoke (has read a PENDING invitation),
\* create, audit (has written)
Errand ==
  [pc : {"guarded", "revoke", "create", "audit"},
   action : {"CREATE", "RESEND", "REVOKE"}, invitation : InvitationId \cup {Null},
   email : User \cup {Null}, role : Role \cup {Null}]

NoVisit == [pc |-> "idle", invitation |-> Null, own |-> FALSE]

\* pc: expire (has read an overdue invitation), claim (has read a good one),
\* claimed (the transaction holds the row), join or register (it knows the user)
Visit ==
  [pc : {"expire", "claim", "claimed", "join", "register"},
   invitation : InvitationId, own : BOOLEAN]

TypeOK ==
  /\ MembershipTypeOK
  /\ account \subseteq User
  /\ invitation \in [InvitationId -> Invitation \cup {Null}]
  /\ overdue \subseteq InvitationId
  /\ errand \in [Inviter -> Errand \cup {NoErrand}]
  /\ visit \in [Visitor -> Visit \cup {NoVisit}]

Init ==
  /\ MembershipInit
  /\ account \in {known \in SUBSET User : Founder \subseteq known}
  /\ invitation = [i \in InvitationId |-> Null]
  /\ overdue = {}
  /\ errand = [h \in Inviter |-> NoErrand]
  /\ visit = [h \in Visitor |-> NoVisit]

----------------------------------------------------------------------------
\* The invitations table

IsPending(i) == invitation[i] # Null /\ invitation[i].status = "PENDING"

\* Mutant: the claim is a read and a write with no lock on the row.
NeverLocked(i) == FALSE

Locked(i) ==
  \E h \in Visitor :
    visit[h].pc \in {"claimed", "join", "register"} /\ visit[h].invitation = i

SetStatus(i, newStatus) ==
  /\ ~Locked(i)
  /\ invitation' = [invitation EXCEPT ![i].status = newStatus]

----------------------------------------------------------------------------
\* Create, resend, revoke

RequestInvitation(h, actor, email, role) ==
  /\ errand[h].pc = "idle"
  /\ IsActiveAdmin(actor)
  /\ errand' = [errand EXCEPT ![h] =
       [pc |-> "create", action |-> "CREATE", invitation |-> Null,
        email |-> email, role |-> role]]
  /\ UNCHANGED <<membershipVars, account, invitation, overdue, visit>>

RequestWithdrawal(h, actor, i, action) ==
  /\ errand[h].pc = "idle"
  /\ IsActiveAdmin(actor)
  /\ invitation[i] # Null
  /\ errand' = [errand EXCEPT ![h] =
       [pc |-> "guarded", action |-> action, invitation |-> i,
        email |-> invitation[i].email, role |-> invitation[i].role]]
  /\ UNCHANGED <<membershipVars, account, invitation, overdue, visit>>

ReadInvitation(h) ==
  /\ errand[h].pc = "guarded"
  /\ errand' = [errand EXCEPT ![h] =
       IF IsPending(errand[h].invitation) THEN [@ EXCEPT !.pc = "revoke"] ELSE NoErrand]
  /\ UNCHANGED <<membershipVars, account, invitation, overdue, visit>>

\* An update by id: whatever the status has become meanwhile is overwritten.
\* Resend goes on like create, and leaves no event of its own.
WriteRevoked(h) ==
  /\ errand[h].pc = "revoke"
  /\ SetStatus(errand[h].invitation, "REVOKED")
  /\ errand' = [errand EXCEPT ![h] =
       IF @.action = "RESEND" THEN [@ EXCEPT !.pc = "create", !.action = "CREATE"]
                              ELSE [@ EXCEPT !.pc = "audit"]]
  /\ UNCHANGED <<membershipVars, account, overdue, visit>>

CreateInvitation(h, i) ==
  /\ errand[h].pc = "create"
  /\ invitation[i] = Null
  /\ invitation' = [invitation EXCEPT ![i] =
       [email |-> errand[h].email, role |-> errand[h].role, status |-> "PENDING",
        acceptedBy |-> Null]]
  /\ errand' = [errand EXCEPT ![h].pc = "audit", ![h].invitation = i]
  /\ UNCHANGED <<membershipVars, account, overdue, visit>>

\* Mutant: the handler comes to rest with its last request still in hand.
RecordErrandKeepsRequest(h) ==
  /\ errand[h].pc = "audit"
  /\ audit' = audit \cup {<<errand[h].action, errand[h].invitation>>}
  /\ errand' = [errand EXCEPT ![h].pc = "idle"]
  /\ UNCHANGED <<member, change, account, invitation, overdue, visit>>

RecordErrand(h) ==
  /\ errand[h].pc = "audit"
  /\ audit' = audit \cup {<<errand[h].action, errand[h].invitation>>}
  /\ errand' = [errand EXCEPT ![h] = NoErrand]
  /\ UNCHANGED <<member, change, account, invitation, overdue, visit>>

ErrandFails(h) ==
  /\ Crashes
  /\ errand[h].pc # "idle"
  /\ errand' = [errand EXCEPT ![h] = NoErrand]
  /\ UNCHANGED <<membershipVars, account, invitation, overdue, visit>>

ErrandStep(h) ==
  \/ \E actor, email \in User, role \in Role : RequestInvitation(h, actor, email, role)
  \/ \E actor \in User, i \in InvitationId, action \in {"RESEND", "REVOKE"} :
       RequestWithdrawal(h, actor, i, action)
  \/ ReadInvitation(h)
  \/ WriteRevoked(h)
  \/ \E i \in InvitationId : CreateInvitation(h, i)
  \/ RecordErrand(h)
  \/ ErrandFails(h)

----------------------------------------------------------------------------
\* Look up and accept

\* A look-up that ends in an error, or only shows a good invitation, changes
\* nothing.
LookUp(h, i, own) ==
  /\ visit[h].pc = "idle"
  /\ IsPending(i)
  /\ own => invitation[i].email \in account
  /\ visit' = [visit EXCEPT ![h] =
       IF i \in overdue THEN [pc |-> "expire", invitation |-> i, own |-> FALSE]
                        ELSE [pc |-> "claim", invitation |-> i, own |-> own]]
  /\ UNCHANGED <<membershipVars, account, invitation, overdue, errand>>

\* An update by id, as in WriteRevoked.
WriteExpired(h) ==
  /\ visit[h].pc = "expire"
  /\ SetStatus(visit[h].invitation, "EXPIRED")
  /\ visit' = [visit EXCEPT ![h] = NoVisit]
  /\ UNCHANGED <<membershipVars, account, overdue, errand>>

\* Mutants: the row is claimed whatever its status; the claim is committed
\* ahead of the rest.
ClaimAny(h) ==
  /\ visit[h].pc = "claim"
  /\ ~Locked(visit[h].invitation)
  /\ visit' = [visit EXCEPT ![h].pc = "claimed"]
  /\ UNCHANGED <<membershipVars, account, invitation, overdue, errand>>

ClaimAndCommit(h) ==
  LET i == visit[h].invitation
  IN /\ visit[h].pc = "claim"
     /\ ~Locked(i)
     /\ visit' = [visit EXCEPT ![h] =
          IF IsPending(i) THEN [@ EXCEPT !.pc = "claimed"] ELSE NoVisit]
     /\ invitation' =
          IF IsPending(i) THEN [invitation EXCEPT ![i].status = "ACCEPTED"] ELSE invitation
     /\ UNCHANGED <<membershipVars, account, overdue, errand>>

Claim(h) ==
  /\ visit[h].pc = "claim"
  /\ ~Locked(visit[h].invitation)
  /\ visit' = [visit EXCEPT ![h] =
       IF IsPending(visit[h].invitation) THEN [@ EXCEPT !.pc = "claimed"] ELSE NoVisit]
  /\ UNCHANGED <<membershipVars, account, invitation, overdue, errand>>

Invited(h) == invitation[visit[h].invitation]

\* Who has an account must be logged in to it; who has none registers.
FindUser(h) ==
  /\ visit[h].pc = "claimed"
  /\ Invited(h).email \in account => visit[h].own
  /\ visit' = [visit EXCEPT ![h].pc =
       IF Invited(h).email \in account THEN "join" ELSE "register"]
  /\ UNCHANGED <<membershipVars, account, invitation, overdue, errand>>

\* Rolled back: not logged in, logged in as someone else, no name or password
\* to register with, or an account that was made meanwhile.
RefuseVisitor(h) ==
  /\ \/ visit[h].pc = "claimed"
        /\ ~(Invited(h).email \in account /\ visit[h].own)
     \/ visit[h].pc = "register" /\ Invited(h).email \in account
  /\ visit' = [visit EXCEPT ![h] = NoVisit]
  /\ UNCHANGED <<membershipVars, account, invitation, overdue, errand>>

\* The transaction takes effect.  A membership that exists is overwritten.
CommitAccept(h) ==
  LET i == visit[h].invitation
      u == Invited(h).email
  IN /\ visit[h].pc \in {"join", "register"}
     /\ visit[h].pc = "register" => u \notin account
     /\ account' = account \cup {u}
     /\ member' = [member EXCEPT ![u] = [role |-> Invited(h).role, status |-> "ACTIVE"]]
     /\ invitation' = [invitation EXCEPT ![i].status = "ACCEPTED", ![i].acceptedBy = u]
     /\ visit' = [visit EXCEPT ![h] = NoVisit]
     /\ UNCHANGED <<change, audit, overdue, errand>>

VisitFails(h) ==
  /\ Crashes
  /\ visit[h].pc # "idle"
  /\ visit' = [visit EXCEPT ![h] = NoVisit]
  /\ UNCHANGED <<membershipVars, account, invitation, overdue, errand>>

VisitStep(h) ==
  \/ \E i \in InvitationId, own \in BOOLEAN : LookUp(h, i, own)
  \/ WriteExpired(h)
  \/ Claim(h)
  \/ FindUser(h)
  \/ RefuseVisitor(h)
  \/ CommitAccept(h)
  \/ VisitFails(h)

----------------------------------------------------------------------------
\* Seven days go by; it makes no difference to an invitation that is not PENDING.
BecomeOverdue(i) ==
  /\ IsPending(i) /\ i \notin overdue
  /\ overdue' = overdue \cup {i}
  /\ UNCHANGED <<membershipVars, account, invitation, errand, visit>>

Next ==
  \/ MembershipNext /\ UNCHANGED invitationVars
  \/ \E h \in Inviter : ErrandStep(h)
  \/ \E h \in Visitor : VisitStep(h)
  \/ \E i \in InvitationId : BecomeOverdue(i)

Spec == Init /\ [][Next]_vars

----------------------------------------------------------------------------
\* Properties

\* An invitation that was revoked or has expired is never accepted any more,
\* however its writers race (docs/security.md:147-148).
RejectedStaysRejected ==
  [][\A i \in InvitationId :
       invitation[i] # Null /\ invitation[i].status \in {"REVOKED", "EXPIRED"}
         => invitation'[i].status # "ACCEPTED"]_vars

\* An invitation that counts as used has made its addressee a member: the claim
\* and the membership stand or fall together (invitations.service.ts:117-165).
AcceptedMeansMember ==
  \A i \in InvitationId :
    invitation[i] # Null /\ invitation[i].status = "ACCEPTED"
      => member[invitation[i].email] # Null /\ invitation[i].email \in account
=============================================================================
