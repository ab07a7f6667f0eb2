---------------------------- MODULE AccessHistory ----------------------------
(***************************************************************************)
(* Sessions with a history.  Of every tenant's write: what it had a right  *)
(* to since it was sent, for the guards look at the account, the member    *)
(* and the tenant one after the other and never again.  Of every tab:      *)
(* whether another one has stored a selection since it last did itself,    *)
(* for nothing tells a tab of that, and its writes go where the other tab  *)
(* is from then on.                                                        *)
(***************************************************************************)
EXTENDS Sessions

VARIABLES
  seen,    \* per handler: what its request had at some time since it was sent
  behind   \* tabs under which the stored selection changed since they were loaded
           \* or stored one

historyVars == <<seen, behind>>
accessVars == <<vars, historyVars>>

Access == {"account", "member", "tenant"}

Held(q) ==
  {c \in Access :
     \/ c = "account" /\ account'[q.user] = "ACTIVE"
     \/ c = "member" /\ q.org # Null /\ member'[q.user][q.org] = "ACTIVE"
     \/ c = "tenant" /\ q.org # Null /\ tenant'[q.org] \in {"TRIAL", "ACTIVE"}}

\* A tab is loaded with the stored selection, or stores one itself.
Renews(t) ==
  \/ Reload(t)
  \/ \E k \in Task : task[k].tab = t /\ \/ Restored(k) \/ RestoreFailed(k)
                                        \/ FirstSelected(k) \/ Refreshed(k)
  \/ Logout(t)
  \/ \E o \in Org : SwitchOrganization(t, o)

Witness ==
  /\ seen' = [h \in Handler |->
       IF request'[h].kind \in TenantWrite THEN seen[h] \cup Held(request'[h]) ELSE {}]
  /\ behind' = {t \in Tab : ~Renews(t) /\ (t \in behind \/ stored'.org # stored.org)}

AccessInit == PortalInit /\ seen = [h \in Handler |-> {}] /\ behind = {}

AccessNext == PortalNext /\ Witness

AccessSpec == AccessInit /\ [][AccessNext]_accessVars

----------------------------------------------------------------------------
\* Who has a tenant's write admitted was ACTIVE, and a member, and the tenant
\* was open, at some time since it was sent: a suspension takes effect at once,
\* whatever token was issued (docs/platform-administration.md, jwt.strategy.ts:22-26).
WritesHadAccess ==
  \A h \in Handler :
    request[h].kind \in TenantWrite /\ request[h].pc \in {"handle", "record"}
      => seen[h] = Access

Writes(t, h) ==
  \E u \in User :
    SubmitInvitation(t, h, u) \/ \E value \in AccountStatus : ToggleMember(t, h, u, value)

\* A page's write goes to the organization its tab shows, however the answers
\* that change the selection interleave in all tabs, unless another tab has
\* stored another one since this tab was loaded or stored its own
\* (auth-store.ts, api-client.ts:62-67).
WritesWhereShown ==
  [][\A h \in Handler : request'[h].pc = "sent" =>
       \A t \in Tab \ behind : Writes(t, h) => request'[h].org = tab[t].org]_accessVars
=============================================================================
