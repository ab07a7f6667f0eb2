--------------------------- MODULE MCInvitations ---------------------------
(***************************************************************************)
(* Instances of Invitations for TLC.                                       *)
(***************************************************************************)
EXTENDS InvitationHistory, FiniteSets, TLC

VARIABLE focus   \* what the behaviour is about: the links, or the members

mcVars == <<vars, historyVars, focus>>

MCInit == HistoryInit /\ focus \in {"links", "members"}

\* Two people with the links of two invitations while nobody changes a member, or
\* two requests that change members while one person comes with one invitation.
InFocus ==
  CASE focus = "links"   -> change' = change
    [] focus = "members" -> /\ Cardinality({i \in InvitationId : invitation'[i] # Null}) <= 1
                            /\ Cardinality({h \in Visitor : visit'[h] # NoVisit}) <= 1

MCNext == Next /\ InFocus /\ focus' = focus /\ Recall

MCSpec == MCInit /\ [][MCNext]_mcVars

\* No action looks at the audit trail, nor do the properties checked under this view.
WithoutAudit == <<member, change, invitationVars, historyVars, focus>>

Symmetry == Permutations(InvitationId) \cup Permutations(Visitor)
    \cup Permutations(Manager) \cup Permutations(Inviter)
============================================================================
