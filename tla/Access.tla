------------------------------- MODULE Access -------------------------------
(***************************************************************************)
(* Who may ask for what: accounts are provisioned (provisioning.py), a     *)
(* login signs the role of an account in a tenant into a token             *)
(* (api/auth_service.py, api/identity_token.py), requests are served by    *)
(* what their token says (api/auth.py, api/routes.py), and the web client  *)
(* drops a token that it is told is no good (web/lib/api/client.ts).       *)
(*                                                                         *)
(* What a token says may no longer be so when it is used: that is what     *)
(* this model is about, and not how it is signed.  A login takes no time.  *)
(***************************************************************************)
EXTENDS Settings, FiniteSets

CONSTANTS
  Users,   \* the accounts' addresses
  Roles    \* bound: the roles that are given

VARIABLES
  accounts, \* the accounts there are
  members,  \* members[u][t]: the role of u in tenant t, or None
  token,    \* token[u]: what the client of u keeps in its session storage
  clock,
  held,     \* held[u][t][r]: when u last had role r in tenant t (history)
  tasks,    \* the tenants that tasks belong to
  served,   \* a request that was just served, and whose tasks it was shown
  answer    \* answer[u]: the refusal that is on its way to the client of u

vars == <<accounts, members, token, clock, held, tasks, served, answer>>

\* ROLE_RANK
Rank == [viewer |-> 0, member |-> 1, admin |-> 2, owner |-> 3]

Init ==
  /\ accounts = {}
  /\ members  = [u \in Users |-> [t \in Tenants |-> None]]
  /\ token    = [u \in Users |-> None]
  /\ clock    = 0
  /\ held     = [u \in Users |-> [t \in Tenants |-> [r \in Roles |-> None]]]
  /\ tasks    = {}
  /\ served   = None
  /\ answer   = [u \in Users |-> None]

-----------------------------------------------------------------------------
(* provisioning.py *)

\* _ensure_membership(): a new one, or another role in the one there is.
Member(u, t, r) == members' = [members EXCEPT ![u][t] = r]

\* provision_user(): an account that exists is changed only when its password
\* is to be reset; else the transaction is rolled back, tenant and all.
Provision(u, t, r, reset) ==
  /\ u \in accounts => reset
  /\ accounts' = accounts \cup {u}
  /\ Member(u, t, r)
  /\ held' = [held EXCEPT ![u][t][r] = clock]
  /\ served' = None
  /\ UNCHANGED <<token, clock, tasks, answer>>

-----------------------------------------------------------------------------
(* auth_service.py, identity_token.py *)

\* _pick_membership(): the one that is asked for, else the oldest; which that is,
\* is not said.
Pick(u, wanted) == {t \in Tenants : members[u][t] # None /\ wanted \in {None, t}}

\* AuthService.login(), with the right password: the token says the role and
\* when it ends, and replaces what the client had.
Login(u, wanted) ==
  /\ u \in accounts
  /\ \E t \in Pick(u, wanted) :
       token' = [token EXCEPT ![u] = [tenant |-> t, role |-> members[u][t],
                                      exp |-> clock + Ttl]]
  /\ served' = None
  /\ UNCHANGED <<accounts, members, clock, held, tasks, answer>>

\* Mutant: a token is good in the second it ends.
LastingLonger(t) == t # None /\ t.exp >= clock

\* verify_token()
Valid(t) == t # None /\ t.exp > clock

-----------------------------------------------------------------------------
(* auth.py, routes.py: u is an account's client, or None one that has no token but
   the static one, or needs none because none is configured *)

\* require_auth()
Admitted(u) == u # None => Valid(token[u])

\* resolve_principal()
Principal(u) ==
  [user   |-> u,
   tenant |-> IF u = None THEN None ELSE token[u].tenant,
   role   |-> IF u = None THEN None ELSE token[u].role]

\* effective_rank(): who has no role counts as a member.
EffectiveRank(role) == IF role = None THEN Rank["member"] ELSE Rank[role]

\* require_role()
MayUse(u, needed) == Admitted(u) /\ EffectiveRank(Principal(u).role) >= Rank[needed]

\* _assert_tenant_access()
MaySee(u, owner) == Principal(u).tenant = None \/ owner \in {None, Principal(u).tenant}

Serve(u, shown) ==
  /\ served' = [by |-> Principal(u), shown |-> shown]
  /\ UNCHANGED <<accounts, members, token, clock, held, answer>>

\* create_research(): the task belongs to the tenant of the token.
CreateTask(u) ==
  /\ MayUse(u, "member")
  /\ tasks' = tasks \cup {Principal(u).tenant}
  /\ Serve(u, {})

\* get_task(), stream_task()
ReadTask(u, owner) ==
  /\ MayUse(u, "viewer") /\ owner \in tasks /\ MaySee(u, owner)
  /\ Serve(u, {owner})
  /\ UNCHANGED tasks

\* abort_task()
AbortTask(u, owner) ==
  /\ MayUse(u, "member") /\ owner \in tasks /\ MaySee(u, owner)
  /\ Serve(u, {owner})
  /\ UNCHANGED tasks

\* Who has a tenant is listed what is of that tenant, and of no other.
MayList(u, owner) == Principal(u).tenant \in {None, owner}

\* list_tasks()
ListTasks(u) ==
  /\ MayUse(u, "viewer")
  /\ Serve(u, {owner \in tasks : MayList(u, owner)})
  /\ UNCHANGED tasks

\* require_auth() tells a client without a token 401, and one whose token it does
\* not take 403.
Refuse(u) ==
  /\ ~Admitted(u) /\ answer[u] = None
  /\ answer' = [answer EXCEPT ![u] = IF token[u] = None THEN 401 ELSE 403]
  /\ served' = None
  /\ UNCHANGED <<accounts, members, token, clock, held, tasks>>

\* ApiClient.request(): a 401 ends the session, whatever token it answers to.
Refused(u) ==
  /\ answer[u] # None
  /\ token'  = IF answer[u] = 401 THEN [token EXCEPT ![u] = None] ELSE token
  /\ answer' = [answer EXCEPT ![u] = None]
  /\ served' = None
  /\ UNCHANGED <<accounts, members, clock, held, tasks>>

-----------------------------------------------------------------------------
(* Time *)

\* What an account has, it has until the clock goes on.
Tick ==
  /\ clock < MaxClock
  /\ clock' = clock + 1
  /\ held' = [u \in Users |-> [t \in Tenants |-> [r \in Roles |->
                IF members[u][t] = r THEN clock + 1 ELSE held[u][t][r]]]]
  /\ served' = None
  /\ UNCHANGED <<accounts, members, token, tasks, answer>>

Next ==
  \/ \E u \in Users, t \in Tenants, r \in Roles, reset \in BOOLEAN : Provision(u, t, r, reset)
  \/ \E u \in Users, wanted \in Tenants \cup {None} : Login(u, wanted)
  \/ \E u \in Users \cup {None} :
       \/ CreateTask(u) \/ ListTasks(u)
       \/ \E owner \in tasks : ReadTask(u, owner) \/ AbortTask(u, owner)
  \/ \E u \in Users : Refuse(u) \/ Refused(u)
  \/ Tick

Spec == Init /\ [][Next]_vars

-----------------------------------------------------------------------------
(* Properties *)

\* A request is served in a role that the account had in that tenant less than
\* the token's life ago, whatever became of its roles and passwords meanwhile, and
\* is shown nothing of another tenant (authenticate, sign_token, verify_token,
\* require_role, _assert_tenant_access, list_tasks).
RightsAreRecent ==
  served # None /\ served.by.user # None =>
    LET last == held[served.by.user][served.by.tenant][served.by.role]
    IN  /\ last # None /\ clock - last < Ttl
        /\ served.shown \subseteq {served.by.tenant, None}

\* A token that the server does not take any more is not kept: when the client has
\* read the refusal of a request, what it sends with the next one is not the token
\* that was refused (clearToken, and "401 means that the session is over" in
\* ApiClient.request).
DeadTokenIsDropped ==
  [][\A u \in Users :
       answer[u] # None /\ answer'[u] = None /\ ~Valid(token[u]) => token'[u] = None]_vars
=============================================================================
