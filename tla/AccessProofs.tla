---------------------------- MODULE AccessProofs ----------------------------
(***************************************************************************)
(* A role is used for less than a token's life after it was taken away,    *)
(* for any accounts, tenants, roles and life of a token.                   *)
(***************************************************************************)
EXTENDS Service, TLAPS

\* This part of the service is an instance of its module.
LEMMA PartSteps ==
  /\ Init => Doors!Init
  /\ [Next]_vars => [Doors!Next]_(Doors!vars)
  /\ Doors!RightsAreRecent => RightsAreRecent
BY DEF RightsAreRecent, Init, Next, vars, accessVars, Doors!vars

Tokens == [tenant : Tenants, role : Roles, exp : Int]

Instants == Nat \cup {None}

TypeOK ==
  /\ members \in [Users -> [Tenants -> Roles \cup {None}]]
  /\ token \in [Users -> Tokens \cup {None}]
  /\ clock \in Nat
  /\ held \in [Users -> [Tenants -> [Roles -> Instants]]]
  /\ tasks \subseteq Tenants \cup {None}

\* What an account has, it has now.
HeldNow ==
  \A u \in Users, t \in Tenants :
    members[u][t] # None => held[u][t][members[u][t]] = clock

\* Token k of u says a role that u had when it was signed, or later.
TokenWasTrue(u, k) ==
  /\ k.exp <= clock + Ttl
  /\ held[u][k.tenant][k.role] \in Nat
  /\ held[u][k.tenant][k.role] >= k.exp - Ttl

TokensWereTrue == \A u \in Users : token[u] # None => TokenWasTrue(u, token[u])

Inv == TypeOK /\ HeldNow /\ TokensWereTrue

-----------------------------------------------------------------------------
(* The invariant *)

LEMMA InitInv == Doors!Init => Inv /\ Doors!RightsAreRecent
BY SettingsAssumption DEF Doors!Init, Inv, TypeOK, HeldNow, TokensWereTrue, Instants, Doors!RightsAreRecent

\* The instants at which roles were had only grow.
LEMMA ProvisionInv ==
  ASSUME Inv, NEW u \in Users, NEW t \in Tenants, NEW r \in Roles, NEW reset \in BOOLEAN,
         Doors!Provision(u, t, r, reset)
  PROVE  Inv'
<1>1. /\ members' = [members EXCEPT ![u][t] = r] /\ held' = [held EXCEPT ![u][t][r] = clock]
      /\ UNCHANGED <<token, clock, tasks>>
  BY DEF Doors!Provision, Doors!Member
<1>2. /\ members' \in [Users -> [Tenants -> Roles \cup {None}]]
      /\ held' \in [Users -> [Tenants -> [Roles -> Instants]]]
  BY <1>1 DEF Inv, TypeOK, Instants
<1>3. TypeOK'
  BY <1>1, <1>2 DEF Inv, TypeOK
<1>4. HeldNow'
  <2> SUFFICES ASSUME NEW v \in Users, NEW s \in Tenants, members'[v][s] # None
               PROVE  held'[v][s][members'[v][s]] = clock
    BY <1>1 DEF HeldNow
  <2>1. CASE v = u /\ s = t
    BY <1>1, <2>1 DEF Inv, TypeOK
  <2>2. CASE ~(v = u /\ s = t)
    <3>1. members'[v][s] = members[v][s] /\ held'[v][s] = held[v][s]
      BY <1>1, <2>2 DEF Inv, TypeOK
    <3> QED BY <3>1 DEF Inv, HeldNow
  <2> QED BY <2>1, <2>2
<1>5. TokensWereTrue'
  <2> SUFFICES ASSUME NEW v \in Users, token[v] # None
               PROVE  TokenWasTrue(v, token[v])'
    BY <1>1 DEF TokensWereTrue
  <2> DEFINE k == token[v]
  <2>1. k \in Tokens /\ TokenWasTrue(v, k)
    BY DEF Inv, TypeOK, TokensWereTrue
  <2>2. held'[v][k.tenant][k.role] \in {held[v][k.tenant][k.role], clock}
    BY <1>1, <2>1 DEF Inv, TypeOK, Tokens
  <2>3. clock \in Nat /\ clock >= k.exp - Ttl
    BY <2>1, SettingsAssumption DEF Inv, TypeOK, TokenWasTrue, Tokens
  <2> QED BY <1>1, <2>1, <2>2, <2>3 DEF TokenWasTrue
<1> QED BY <1>3, <1>4, <1>5 DEF Inv

LEMMA LoginInv ==
  ASSUME Inv, NEW u \in Users, NEW wanted \in Tenants \cup {None}, Doors!Login(u, wanted)
  PROVE  Inv'
<1>1. PICK t \in Doors!Pick(u, wanted) :
        token' = [token EXCEPT ![u] = [tenant |-> t, role |-> members[u][t], exp |-> clock + Ttl]]
  BY DEF Doors!Login
<1>2. UNCHANGED <<members, clock, held, tasks>>
  BY DEF Doors!Login
<1>3. t \in Tenants /\ members[u][t] # None
  BY <1>1 DEF Doors!Pick
<1> DEFINE k == [tenant |-> t, role |-> members[u][t], exp |-> clock + Ttl]
<1>4. members[u][t] \in Roles /\ clock \in Nat
  BY <1>3 DEF Inv, TypeOK
<1>5. k \in Tokens
  BY <1>3, <1>4, SettingsAssumption DEF Tokens
<1>6. TokenWasTrue(u, k)
  <2>1. held[u][k.tenant][k.role] = clock
    BY <1>3 DEF Inv, HeldNow
  <2> QED BY <2>1, <1>4, SettingsAssumption DEF TokenWasTrue
<1>7. TypeOK'
  BY <1>1, <1>2, <1>5 DEF Inv, TypeOK
<1>8. TokensWereTrue'
  <2> SUFFICES ASSUME NEW v \in Users, token'[v] # None
               PROVE  TokenWasTrue(v, token'[v])
    BY <1>2 DEF TokensWereTrue, TokenWasTrue
  <2>1. CASE v = u
    BY <1>1, <1>6, <2>1 DEF Inv, TypeOK
  <2>2. CASE v # u
    BY <1>1, <2>2 DEF Inv, TypeOK, TokensWereTrue
  <2> QED BY <2>1, <2>2
<1> QED BY <1>2, <1>7, <1>8 DEF Inv, HeldNow

LEMMA TickInv == ASSUME Inv, Doors!Tick PROVE Inv'
<1>1. clock \in Nat /\ clock' = clock + 1 /\ UNCHANGED <<members, token, tasks>>
  BY DEF Doors!Tick, Inv, TypeOK
<1>2. \A u \in Users, t \in Tenants, r \in Roles :
        held'[u][t][r] = IF members[u][t] = r THEN clock + 1 ELSE held[u][t][r]
  BY DEF Doors!Tick
<1>3. TypeOK'
  <2>1. held' \in [Users -> [Tenants -> [Roles -> Instants]]]
    BY <1>1 DEF Doors!Tick, Inv, TypeOK, Instants
  <2> QED BY <1>1, <2>1 DEF Inv, TypeOK
<1>4. HeldNow'
  <2> SUFFICES ASSUME NEW u \in Users, NEW t \in Tenants, members[u][t] # None
               PROVE  held'[u][t][members[u][t]] = clock'
    BY <1>1 DEF HeldNow
  <2>1. members[u][t] \in Roles
    BY DEF Inv, TypeOK
  <2> QED BY <1>1, <1>2, <2>1
<1>5. TokensWereTrue'
  <2> SUFFICES ASSUME NEW u \in Users, token[u] # None
               PROVE  TokenWasTrue(u, token[u])'
    BY <1>1 DEF TokensWereTrue
  <2> DEFINE k == token[u]
  <2>1. k \in Tokens /\ TokenWasTrue(u, k)
    BY DEF Inv, TypeOK, TokensWereTrue
  <2>2. held'[u][k.tenant][k.role] \in {held[u][k.tenant][k.role], clock + 1}
    BY <1>2, <2>1 DEF Tokens
  <2>3. clock + 1 >= k.exp - Ttl /\ k.exp <= clock + 1 + Ttl
    BY <1>1, <2>1, SettingsAssumption DEF TokenWasTrue, Tokens
  <2> QED BY <1>1, <2>1, <2>2, <2>3 DEF TokenWasTrue
<1> QED BY <1>3, <1>4, <1>5 DEF Inv

LEMMA RefusedInv == ASSUME Inv, NEW u \in Users, Doors!Refused(u) PROVE Inv'
<1>1. token' = [token EXCEPT ![u] = None] \/ token' = token
  BY DEF Doors!Refused
<1>2. UNCHANGED <<members, clock, held, tasks>>
  BY DEF Doors!Refused
<1>3. TypeOK'
  BY <1>1, <1>2 DEF Inv, TypeOK
<1>4. \A v \in Users : token'[v] \in {token[v], None}
  BY <1>1 DEF Inv, TypeOK
<1> QED BY <1>2, <1>3, <1>4 DEF Inv, HeldNow, TokensWereTrue, TokenWasTrue

-----------------------------------------------------------------------------
(* Requests *)

\* A request of an account that is served with what its token's tenant has.
LEMMA ServeIsRecent ==
  ASSUME Inv, NEW u \in Users \cup {None}, NEW shown, Doors!Admitted(u), Doors!Serve(u, shown),
         u # None => shown \subseteq {Doors!Principal(u).tenant, None}
  PROVE  Doors!RightsAreRecent'
<1> SUFFICES ASSUME u # None
             PROVE  Doors!RightsAreRecent'
  BY DEF Doors!Serve, Doors!Principal, Doors!RightsAreRecent
<1> DEFINE k == token[u]
<1>1. u \in Users /\ k # None /\ k.exp > clock
  BY DEF Doors!Admitted, Doors!Valid
<1>2. k \in Tokens /\ TokenWasTrue(u, k)
  BY <1>1 DEF Inv, TypeOK, TokensWereTrue
<1>3. /\ served' = [by |-> [user |-> u, tenant |-> k.tenant, role |-> k.role], shown |-> shown]
      /\ UNCHANGED <<clock, held>>
  BY DEF Doors!Serve, Doors!Principal
<1> DEFINE h == held[u][k.tenant][k.role]
<1>4. h \in Nat /\ h >= k.exp - Ttl
  BY <1>2 DEF TokenWasTrue
<1>5. h # None /\ clock - h < Ttl
  BY <1>1, <1>2, <1>4, SettingsAssumption DEF Inv, TypeOK, Tokens
<1>6. shown \subseteq {k.tenant, None}
  BY DEF Doors!Principal
<1> QED BY <1>3, <1>5, <1>6 DEF Doors!RightsAreRecent

\* Whoever has a tenant sees tasks of that tenant, or of none.
LEMMA SeesItsOwn ==
  ASSUME Inv, NEW u \in Users, Doors!Admitted(u), u # None, NEW owner
  PROVE  /\ Doors!MaySee(u, owner) => owner \in {Doors!Principal(u).tenant, None}
         /\ Doors!MayList(u, owner) => owner = Doors!Principal(u).tenant
<1>1. token[u] \in Tokens
  BY DEF Doors!Admitted, Doors!Valid, Inv, TypeOK
<1>2. Doors!Principal(u).tenant # None
  BY <1>1, SettingsAssumption DEF Doors!Principal, Tokens
<1> QED BY <1>2 DEF Doors!MaySee, Doors!MayList

LEMMA CreateTaskStep ==
  ASSUME Inv, NEW u \in Users \cup {None}, Doors!CreateTask(u)
  PROVE  Inv' /\ Doors!RightsAreRecent'
<1>1. Doors!RightsAreRecent'
  BY ServeIsRecent DEF Doors!CreateTask, Doors!MayUse
<1>2. Doors!Principal(u).tenant \in Tenants \cup {None}
  BY DEF Doors!CreateTask, Doors!MayUse, Doors!Admitted, Doors!Valid, Doors!Principal, Inv, TypeOK, Tokens
<1>3. tasks' \subseteq Tenants \cup {None} /\ UNCHANGED <<members, token, clock, held>>
  BY <1>2 DEF Doors!CreateTask, Doors!Serve, Inv, TypeOK
<1> QED BY <1>1, <1>3 DEF Inv, TypeOK, HeldNow, TokensWereTrue, TokenWasTrue

LEMMA ReadStep ==
  ASSUME Inv, NEW u \in Users \cup {None}, NEW owner \in tasks,
         Doors!ReadTask(u, owner) \/ Doors!AbortTask(u, owner)
  PROVE  Inv' /\ Doors!RightsAreRecent'
<1>1. Doors!Admitted(u) /\ Doors!MaySee(u, owner) /\ Doors!Serve(u, {owner})
  BY DEF Doors!ReadTask, Doors!AbortTask, Doors!MayUse
<1>2. u # None => owner \in {Doors!Principal(u).tenant, None}
  BY <1>1, SeesItsOwn
<1>3. Doors!RightsAreRecent'
  BY <1>1, <1>2, ServeIsRecent
<1>4. UNCHANGED <<members, token, clock, held, tasks>>
  BY DEF Doors!ReadTask, Doors!AbortTask, Doors!Serve
<1> QED BY <1>3, <1>4 DEF Inv, TypeOK, HeldNow, TokensWereTrue, TokenWasTrue

LEMMA ListStep ==
  ASSUME Inv, NEW u \in Users \cup {None}, Doors!ListTasks(u)
  PROVE  Inv' /\ Doors!RightsAreRecent'
<1> DEFINE shown == {owner \in tasks : Doors!MayList(u, owner)}
<1>1. Doors!Admitted(u) /\ Doors!Serve(u, shown)
  BY DEF Doors!ListTasks, Doors!MayUse
<1>2. u # None => shown \subseteq {Doors!Principal(u).tenant, None}
  BY <1>1, SeesItsOwn
<1>3. Doors!RightsAreRecent'
  <2> HIDE DEF shown
  <2> QED BY <1>1, <1>2, ServeIsRecent
<1>4. UNCHANGED <<members, token, clock, held, tasks>>
  BY DEF Doors!ListTasks, Doors!Serve
<1> QED BY <1>3, <1>4 DEF Inv, TypeOK, HeldNow, TokensWereTrue, TokenWasTrue

-----------------------------------------------------------------------------

LEMMA StepInv == Inv /\ Doors!RightsAreRecent /\ [Doors!Next]_(Doors!vars) => Inv' /\ Doors!RightsAreRecent'
<1> SUFFICES ASSUME Inv, Doors!RightsAreRecent, [Doors!Next]_(Doors!vars) PROVE Inv' /\ Doors!RightsAreRecent'
  OBVIOUS
<1>0. served' = None => Doors!RightsAreRecent'
  BY DEF Doors!RightsAreRecent
<1>1. ASSUME NEW u \in Users, NEW t \in Tenants, NEW r \in Roles, NEW reset \in BOOLEAN,
             Doors!Provision(u, t, r, reset)
      PROVE  Inv' /\ Doors!RightsAreRecent'
  BY <1>0, <1>1, ProvisionInv DEF Doors!Provision
<1>2. ASSUME NEW u \in Users, NEW wanted \in Tenants \cup {None}, Doors!Login(u, wanted)
      PROVE  Inv' /\ Doors!RightsAreRecent'
  BY <1>0, <1>2, LoginInv DEF Doors!Login
<1>3. ASSUME NEW u \in Users \cup {None},
             Doors!CreateTask(u) \/ Doors!ListTasks(u) \/
             \E owner \in tasks : Doors!ReadTask(u, owner) \/ Doors!AbortTask(u, owner)
      PROVE  Inv' /\ Doors!RightsAreRecent'
  BY <1>3, CreateTaskStep, ReadStep, ListStep
<1>4. ASSUME NEW u \in Users, Doors!Refuse(u) PROVE Inv' /\ Doors!RightsAreRecent'
  <2>1. served' = None /\ UNCHANGED <<members, token, clock, held, tasks>>
    BY <1>4 DEF Doors!Refuse
  <2> QED BY <1>0, <2>1 DEF Inv, TypeOK, HeldNow, TokensWereTrue, TokenWasTrue
<1>5. ASSUME NEW u \in Users, Doors!Refused(u) PROVE Inv' /\ Doors!RightsAreRecent'
  BY <1>0, <1>5, RefusedInv DEF Doors!Refused
<1>6. CASE Doors!Tick
  BY <1>0, <1>6, TickInv DEF Doors!Tick
<1>7. CASE UNCHANGED Doors!vars
  BY <1>7 DEF Doors!vars, Inv, TypeOK, HeldNow, TokensWereTrue, TokenWasTrue, Doors!RightsAreRecent
<1> QED BY <1>1, <1>2, <1>3, <1>4, <1>5, <1>6, <1>7 DEF Doors!Next

\* Whatever becomes of roles, tokens and clients meanwhile, a request is served in
\* a role its account had less than Ttl ago, and is shown nothing of another tenant
\* (authenticate, sign_token, verify_token, require_role, _assert_tenant_access).
THEOREM RightsEnd == Spec => []RightsAreRecent
BY InitInv, StepInv, PartSteps, PTL DEF Spec
=============================================================================
