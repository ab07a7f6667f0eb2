------------------------- MODULE InvitationHistory -------------------------
(***************************************************************************)
(* Invitations with a history: how often each invitation was accepted, and *)
(* whether a membership was written where the protection of the last       *)
(* administrator does not look.                                            *)
(***************************************************************************)
EXTENDS Invitations, Naturals

VARIABLES
  joined,        \* per invitation: how often it was accepted
  undermined     \* whether an administrator went in one of the two ways the
                 \* protection of the last administrator does not look at

historyVars == <<joined, undermined>>

Accepts(h, i) == CommitAccept(h) /\ visit[h].invitation = i

\* Somebody is an active administrator no more.
Demotes == \E u \in User : IsActiveAdmin(u) /\ ~IsActiveAdmin(u)'

\* The request has been let through and will take an administrator away.
AboutToWithdraw(h) ==
  change[h].pc = "write" /\ Withdraws(member[change[h].target], change[h].value)

\* An administrator goes while another request to take one away has been let
\* through, or by an invitation that overwrites his membership.
Undermines ==
  Demotes /\ \/ \E h \in Manager : AboutToWithdraw(h)'
             \/ \E h \in Visitor : CommitAccept(h)

HistoryInit ==
  /\ Init
  /\ joined = [i \in InvitationId |-> 0]
  /\ undermined = FALSE

Recall ==
  /\ joined' = [i \in InvitationId |->
       IF \E h \in Visitor : Accepts(h, i) THEN joined[i] + 1 ELSE joined[i]]
  /\ undermined' = (undermined \/ Undermines)

InvitationHistorySpec == HistoryInit /\ [][Next /\ Recall]_<<vars, historyVars>>

----------------------------------------------------------------------------
\* An invitation is accepted at most once, however many requests come with its
\* link at the same time (invitations.service.ts:118-126, docs/security.md:142-146).
TokenUsedOnce == \A i \in InvitationId : joined[i] <= 1

\* The organization keeps an active administrator unless one goes between the
\* count and the write of a request that takes another, or by an invitation:
\* promotions, other changes and failures of any number of requests at any
\* moment do no harm (organizations.service.ts:86-91, 128-130, 155-167).
LastAdminProtected == undermined \/ AdminRemains
============================================================================
