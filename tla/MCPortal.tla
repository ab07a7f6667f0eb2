------------------------------ MODULE MCPortal ------------------------------
(***************************************************************************)
(* Instances of Sessions for TLC.  A behaviour looks at the API, with      *)
(* requests of an operator's tab and of another client in flight, at the   *)
(* session of one tab that is opened with whatever is stored, or at two    *)
(* tabs of one browser.                                                    *)
(***************************************************************************)
EXTENDS AccessHistory, TLC

CONSTANTS ada, ben, o1, o2, t1, t2

VARIABLE focus   \* "api", "tab" or "tabs"

mcVars == <<accessVars, focus>>

ASSUME MCAssumption == {ada, ben} \subseteq User /\ {o1, o2} \subseteq Org /\ {t1, t2} \subseteq Tab

Tables ==
  /\ platformAdmin = {ada}
  /\ request = [h \in Handler |-> NoRequest]
  /\ trail = {}
  /\ task = [k \in Task |-> NoTask]

InitApi ==
  /\ focus = "api"
  /\ Tables
  /\ account = [u \in User |-> "ACTIVE"]
  /\ tenant = [o \in Org |-> IF o = o1 THEN "ACTIVE" ELSE Null]
  /\ member = [u \in User |-> [o \in Org |-> IF o = o1 THEN "ACTIVE" ELSE Null]]
  /\ invited = {}
  /\ stored = [token |-> ada, org |-> o1]
  /\ tab = [t \in Tab |-> [Loaded("app") EXCEPT
       !.status = "authenticated", !.user = ada, !.orgs = {o1}]]

\* The browser is ben's, a newcomer who founds o2; or it holds the session of ada
\* when ben is invited to o2; or that of ben, a member of o1 who is invited to o2
\* as well, or has been suspended.
InitTab ==
  /\ focus = "tab"
  /\ Tables
  /\ \E case \in {"founds", "invited", "known", "suspended"} :
       /\ account = [u \in User |->
            IF u = ada \/ case = "known" THEN "ACTIVE"
            ELSE IF case = "suspended" THEN "SUSPENDED" ELSE Null]
       /\ tenant = [o \in Org |-> IF o = o2 /\ case = "founds" THEN Null ELSE "ACTIVE"]
       /\ member = [u \in User |-> [o \in Org |->
            IF account[u] # Null /\ tenant[o] # Null /\ (u = ada \/ o = o1)
              THEN "ACTIVE" ELSE Null]]
       /\ invited = IF case \in {"invited", "known"} THEN {<<ben, o2>>} ELSE {}
       /\ stored = CASE case = "founds"  -> [token |-> Null, org |-> Null]
                     [] case = "invited" -> [token |-> ada, org |-> o1]
                     [] OTHER            -> [token |-> ben, org |-> o1]
       /\ tab = [t \in Tab |-> Loaded(IF case = "founds" THEN "register" ELSE "invite")]

\* Ada, a member of both organizations, opens the app in both tabs.
InitTabs ==
  /\ focus = "tabs"
  /\ Tables
  /\ account = [u \in User |-> IF u = ada THEN "ACTIVE" ELSE Null]
  /\ tenant = [o \in Org |-> "ACTIVE"]
  /\ member = [u \in User |-> [o \in Org |-> IF u = ada THEN "ACTIVE" ELSE Null]]
  /\ invited = {}
  /\ stored = [token |-> ada, org |-> o1]
  /\ tab = [t \in Tab |-> Loaded("app")]

MCInit == (InitApi \/ InitTab \/ InitTabs) /\ seen = [h \in Handler |-> {}] /\ behind = {}

\* In a tab what matters is what it sends, not whom a request is about.
AboutAda == \A h \in Handler : request[h].pc # "idle" => request[h].target = ada

\* The members' page is opened when nothing else is in flight, invitations included.
Calm == invited = {} /\ \A k \in Task : task[k].op \in {Null, "members"}

\* New tenants are ben's.  Two operators are at work at once only to suspend and reactivate users.
TwoOperators ==
  \A g, h \in Handler :
    /\ request[h].kind = "found" => request[h].target = ben
    /\ g # h /\ {request[g].kind, request[h].kind} \subseteq PlatformWrite
         => request[g].kind = "user"

ApiNext ==
  \/ Operate(t1)
  \/ \E h \in Handler :
       \/ \E u \in User, value \in AccountStatus :
            OtherClient(h, "member", ben, o1, o1, u, value)
       \/ \E u \in User, value \in AccountStatus :
            OtherClient(h, "user", ben, Null, Null, u, value)
       \/ Step(h)
  \/ BootstrapPlatformAdmin(ben) /\ UNCHANGED sessionVars

TabNext ==
  \/ OpenSession(t1) /\ (tab'[t1].page = "register" => tenant[o2] = Null)
  \/ UseApp(t1) /\ AboutAda' /\ (Calm \/ UNCHANGED task)
  \/ \E k \in Task : TaskStep(k)

\* Whoever has logged out logs in again as ada.  An invitation stands for every
\* write: all carry the same header.
TabsNext ==
  \/ \E t \in Tab :
       \/ Reload(t) \/ \E k \in Task : Bootstrap(t, k) \/ SubmitLogin(t, k, ada)
       \/ Logout(t) \/ \E o \in Org : SwitchOrganization(t, o)
       \/ \E h \in Handler : SubmitInvitation(t, h, ada)
  \/ \E k \in Task : TaskStep(k)

MCNext ==
  /\ \/ focus = "api" /\ ApiNext /\ TwoOperators'
     \/ focus = "tab" /\ TabNext
     \/ focus = "tabs" /\ TabsNext
  /\ focus' = focus
  /\ Witness

MCSpec == MCInit /\ [][MCNext]_mcVars

\* No action looks at the audit trail, nor does a property.  What a tab's write
\* says matters in the step that sends it: outside the focus on the API nothing
\* becomes of it.
WithoutAudit ==
  <<tables, sessionVars, behind, focus, IF focus = "api" THEN <<request, seen>> ELSE <<>> >>

Symmetry == Permutations(Handler) \cup Permutations(Task)
=============================================================================
