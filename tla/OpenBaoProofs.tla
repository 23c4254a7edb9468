--------------------------- MODULE OpenBaoProofs ---------------------------
(***************************************************************************)
(* Proofs about OpenBao, for any set of tenant ids, however their names    *)
(* overlap, and any number of failures, rebuilt clusters and SecretIDs.    *)
(***************************************************************************)
EXTENDS OpenBao, SequenceTheorems, TLAPS

USE DEF outer, local

----------------------------------------------------------------------------
(***************************************************************************)
(* The inductive invariant.                                                *)
(***************************************************************************)

\* The phases of the three commands, and of a tenant's turn in tenant apply from
\* the step that sees to its policies, its AppRole, its ids and so on.
Bootstrapping == {"status", "init", "keys", "putRoot", "getRoot", "converge", "engines", "record"}
HasOIDC       == {"mirror"}
HasSvc        == {"svcRoleID", "oidc"} \cup HasOIDC
HasSecret     == {"svcRole"} \cup HasSvc
HasRoleID     == {"getSecretID", "mint", "putSecretID"} \cup HasSecret
HasRole       == {"roleID"} \cup HasRoleID
HasPolicies   == {"legacy", "approle"} \cup HasRole
Loop          == {"policies"} \cup HasPolicies
Issuing       == {"login", "setupRoot", "setupPolicy", "setupRole", "setupRoleID", "setupSecretID", "act"}

\* What a command knows in its phases; a success is reported between commands.
PhaseInv ==
    /\ pc # "idle" => done = None
    /\ pc \in Bootstrapping => cmd = "bootstrap"
    /\ pc \in {"operator"} \cup Loop => cmd = "apply" /\ cur \in todo /\ todo \subseteq sel
    /\ pc = "operator" => todo = sel
    /\ pc \in Issuing => cmd = "secret-id" /\ cur \in Tenant /\ req \in Request

\* Clusters are numbered, and SSM has a root token of this one only if it was initialised.
TokenInv ==
    /\ gen \in 1..(events + 1)
    /\ Storing => held = gen /\ ~cutInit
    /\ ssm.root = gen => bao.inited
    /\ ssm.root # None => ssm.root \in 1..gen

\* The ids in SSM belong to their tenant and come from this cluster or an earlier
\* one, and the mirrored hosts are no newer than the database's.
StoredInv ==
    /\ \A t \in Tenant :
          /\ ssm.roleID[t] # None => ssm.roleID[t].role = Role(t) /\ ssm.roleID[t].gen <= gen
          /\ ssm.secretID[t] # None =>
                /\ ssm.secretID[t].tenant = t /\ ssm.secretID[t].gen <= gen
                /\ ssm.secretID[t].gen = gen => ssm.secretID[t].n <= bao.minted[t]
          /\ bao.kv[t] # None => bao.kv[t] <= hosts
    /\ pc = "putSecretID" =>
          new # None /\ new.gen = gen /\ new.tenant = cur /\ new.n <= bao.minted[cur]

\* What a tenant's turn leaves behind, whoever comes after it.
Provisioned(t) ==
    /\ bao.role[Role(t)] = Tiered(t, "dev")
    /\ bao.policy[Tiered(t, "dev")] = "dev" \/ Shadowed(t, "dev")
    /\ bao.policy[Tiered(t, "admin")] = "admin" \/ Shadowed(t, "admin")
    /\ bao.role[Svc(t)] = Svc(t) /\ bao.policy[Svc(t)] = "svc"
    /\ t \in bao.oidc /\ t \in bao.transit /\ bao.kv[t] # None
    /\ ssm.roleID[t] # None /\ ssm.secretID[t] # None

\* What a success says of the tenants it was reported for.
Reported ==
    (done # None /\ done.cmd = "apply") =>
        \A t \in done.sel : Provisioned(t) /\ roster \subseteq bao.operator

\* What is in place in each phase of a tenant's turn, for it and for those before it.
LoopInv ==
    /\ pc \in Loop => roster \subseteq bao.operator /\ \A t \in sel \ todo : Provisioned(t)
    /\ pc \in HasPolicies => \A s \in {"admin", "dev"} : bao.policy[Tiered(cur, s)] = s \/ Shadowed(cur, s)
    /\ pc \in HasRole => bao.role[Role(cur)] = Tiered(cur, "dev") /\ cur \in bao.transit
    /\ pc \in HasRoleID => ssm.roleID[cur] # None
    /\ pc \in HasSecret => ssm.secretID[cur] # None
    /\ pc \in HasSvc => bao.role[Svc(cur)] = Svc(cur) /\ bao.policy[Svc(cur)] = "svc"
    /\ pc \in HasOIDC => cur \in bao.oidc
    /\ Reported

IInv == TypeOK /\ PhaseInv /\ TokenInv /\ StoredInv /\ LoopInv /\ TokenLostOnlyByCut

----------------------------------------------------------------------------
(***************************************************************************)
(* Facts about the operators.                                              *)
(***************************************************************************)

\* The names of AppRoles and policies are told apart by their prefix and, but for
\* a tenant whose id is another's with a tier's name at its end, by their tenant.
LEMMA Names ==
    ASSUME NEW t \in Tenant, NEW u \in Tenant, NEW r \in Tier, NEW s \in Tier
    PROVE  /\ Role(t) = Role(u) => t = u
           /\ Svc(t) = Svc(u) => t = u
           /\ Role(t) # Svc(u)
           /\ Tiered(t, r) # Svc(u)
           /\ Tiered(t, r) = Tiered(u, s) => t = u /\ r = s
           /\ Tiered(t, r) = Role(u) => u = Append(t, r)
<1> DEFINE Part == STRING \cup {"tenant"} \cup Tier
<1>1. t \in Seq(Part) /\ u \in Seq(Part)
  <2> SUFFICES ASSUME NEW x \in Seq(STRING) PROVE x \in Seq(Part)
    BY TenantAssumption
  <2> QED OBVIOUS
<1>0. "tenant" \in Part /\ "svc" \in Part /\ r \in Part /\ s \in Part
  BY DEF Tier
<1> HIDE DEF Part
<1>2. ASSUME NEW x \in Seq(Part)
      PROVE  /\ <<"tenant">> \o x \in Seq(Part) /\ <<"svc">> \o x \in Seq(Part)
             /\ Len(<<"tenant">> \o x) = Len(x) + 1 /\ Len(<<"svc">> \o x) = Len(x) + 1
             /\ (<<"tenant">> \o x)[1] = "tenant" /\ (<<"svc">> \o x)[1] = "svc"
             /\ \A i \in 1..Len(x) : (<<"tenant">> \o x)[i + 1] = x[i] /\ (<<"svc">> \o x)[i + 1] = x[i]
  <2>1. <<"tenant">> \in Seq(Part) /\ <<"svc">> \in Seq(Part)
        /\ Len(<<"tenant">>) = 1 /\ Len(<<"svc">>) = 1
    BY <1>0
  <2> QED BY <1>2, <2>1, ConcatProperties
<1>3. ASSUME NEW x \in Seq(Part), NEW y \in Seq(Part), Len(x) = Len(y),
             \A i \in 1..Len(x) : x[i] = y[i]
      PROVE  x = y
  BY <1>3
<1>4. Role(t) = Role(u) => t = u
  BY <1>1, <1>2, <1>3 DEF Role
<1>5. Svc(t) = Svc(u) => t = u
  BY <1>1, <1>2, <1>3 DEF Svc
<1>6. Role(t) # Svc(u)
  BY <1>1, <1>2 DEF Role, Svc
<1>7. /\ Tiered(t, r) \in Seq(Part) /\ Len(Tiered(t, r)) = Len(t) + 2
      /\ Tiered(t, r)[1] = "tenant" /\ Tiered(t, r)[Len(t) + 2] = r
      /\ \A i \in 1..Len(t) : Tiered(t, r)[i + 1] = t[i]
  BY <1>0, <1>1, <1>2 DEF Tiered, Role
<1>8. /\ Tiered(u, s) \in Seq(Part) /\ Len(Tiered(u, s)) = Len(u) + 2
      /\ Tiered(u, s)[Len(u) + 2] = s
      /\ \A i \in 1..Len(u) : Tiered(u, s)[i + 1] = u[i]
  BY <1>0, <1>1, <1>2 DEF Tiered, Role
<1>9. Tiered(t, r) # Svc(u)
  BY <1>1, <1>2, <1>7 DEF Svc
<1>10. Tiered(t, r) = Tiered(u, s) => t = u /\ r = s
  BY <1>1, <1>3, <1>7, <1>8
<1>11. ASSUME Tiered(t, r) = Role(u) PROVE u = Append(t, r)
  <2>1. Len(u) = Len(t) + 1 /\ \A i \in 1..Len(u) : u[i] = Tiered(t, r)[i + 1]
    BY <1>1, <1>2, <1>7, <1>11 DEF Role
  <2>2. u[Len(t) + 1] = r /\ \A i \in 1..Len(t) : u[i] = t[i]
    BY <1>1, <1>7, <2>1
  <2>3. Append(t, r) \in Seq(Part) /\ Len(Append(t, r)) = Len(u)
    BY <1>0, <1>1, <2>1, AppendProperties
  <2>4. ASSUME NEW i \in 1..Len(u) PROVE u[i] = Append(t, r)[i]
    <3>1. CASE i = Len(t) + 1
      BY <1>0, <1>1, <2>2, <3>1, AppendProperties
    <3>2. CASE i # Len(t) + 1
      <4>1. i \in 1..Len(t)
        BY <1>1, <2>1, <3>2
      <4> QED BY <1>0, <1>1, <2>2, <4>1, AppendProperties
    <3> QED BY <3>1, <3>2
  <2> QED BY <1>1, <1>3, <2>3, <2>4
<1> QED BY <1>4, <1>5, <1>6, <1>9, <1>10, <1>11

\* What is in a cluster, and what SSM has of it.
BaoState ==
    [inited : BOOLEAN, whole : BOOLEAN, engines : SUBSET Engine,
     policy : [PolicyName -> Tier \cup {None}], role : [RoleName -> PolicyName \cup {None}],
     minted : [Tenant -> Nat], revoked : SUBSET (Tenant \X Nat),
     operator : SUBSET Tenant, operatorRole : BOOLEAN,
     transit : SUBSET Tenant, oidc : SUBSET Tenant, kv : [Tenant -> Nat \cup {None}]]

SSMState ==
    [keys : Cluster \cup {None}, root : Cluster \cup {None},
     roleID : [Tenant -> ID \cup {None}], secretID : [Tenant -> SecretID \cup {None}],
     svcRoleID : [Tenant -> ID \cup {None}],
     opRoleID : Cluster \cup {None}, opSecretID : Cluster \cup {None}]

\* The fields of the two that the invariant is about, but for those of F, stay.
Kept(F) ==
    \A f \in {"inited", "policy", "role", "minted", "operator", "transit", "oidc", "kv"} \ F :
        bao'[f] = bao[f]

KeptSSM(F) == \A f \in {"root", "roleID", "secretID"} \ F : ssm'[f] = ssm[f]

\* The policies of some tiers of a tenant, and nobody else's.
LEMMA WithPoliciesFields ==
    ASSUME bao \in BaoState, NEW t \in Tenant, NEW S \in SUBSET {"admin", "dev"},
           bao' = WithPolicies(t, S)
    PROVE  /\ bao' \in BaoState /\ Kept({"policy"})
           /\ \A s \in S : bao'.policy[Tiered(t, s)] = s
           /\ \A p \in PolicyName : (\A s \in S : p # Tiered(t, s)) => bao'.policy[p] = bao.policy[p]
<1> DEFINE f == [p \in PolicyName |->
        IF \E s \in S : p = Tiered(t, s) THEN CHOOSE s \in S : p = Tiered(t, s) ELSE bao.policy[p]]
<1>1. bao' = [bao EXCEPT !.policy = f]
  BY DEF WithPolicies
<1>2. f \in [PolicyName -> Tier \cup {None}]
  <2> SUFFICES ASSUME NEW p \in PolicyName PROVE f[p] \in Tier \cup {None}
    OBVIOUS
  <2>1. CASE \E s \in S : p = Tiered(t, s)
    <3>1. (CHOOSE s \in S : p = Tiered(t, s)) \in S
      BY <2>1
    <3> QED BY <2>1, <3>1 DEF Tier
  <2>2. CASE ~\E s \in S : p = Tiered(t, s)
    BY <2>2 DEF BaoState
  <2> QED BY <2>1, <2>2
<1>3. \A s \in S : f[Tiered(t, s)] = s
  <2> SUFFICES ASSUME NEW s \in S PROVE f[Tiered(t, s)] = s
    OBVIOUS
  <2>1. Tiered(t, s) \in PolicyName
    BY DEF PolicyName
  <2>2. (CHOOSE r \in S : Tiered(t, s) = Tiered(t, r)) = s
    <3>1. S \subseteq Tier
      BY DEF Tier
    <3>2. \A r \in S : Tiered(t, s) = Tiered(t, r) <=> r = s
      BY <3>1, Names
    <3> QED BY <3>2
  <2> QED BY <2>1, <2>2
<1>4. \A p \in PolicyName : (\A s \in S : p # Tiered(t, s)) => f[p] = bao.policy[p]
  OBVIOUS
<1> HIDE DEF f
<1>5. bao'.policy = f /\ bao' \in BaoState /\ Kept({"policy"})
  BY <1>1, <1>2 DEF BaoState, Kept
<1> QED BY <1>3, <1>4, <1>5

\* The names are names.
LEMMA NameTypes ==
    ASSUME NEW t \in Tenant
    PROVE  /\ Role(t) \in RoleName /\ Svc(t) \in RoleName
           /\ Role(t) \in PolicyName /\ Svc(t) \in PolicyName
           /\ Tiered(t, "admin") \in PolicyName /\ Tiered(t, "dev") \in PolicyName
BY DEF RoleName, PolicyName

LEMMA StateTypes == TypeOK => bao \in BaoState /\ ssm \in SSMState
BY DEF TypeOK, BaoState, SSMState

----------------------------------------------------------------------------
(***************************************************************************)
(* What each action does to the cluster and to SSM.                        *)
(***************************************************************************)

\* What a step does to the fields of the cluster and of SSM the invariant is about.
LEMMA OperatorInitFields ==
    ASSUME bao \in BaoState, OperatorInit
    PROVE  bao' \in BaoState /\ Kept({"inited"}) /\ bao'.inited
BY DEF OperatorInit, BaoState, Kept

\* What is not told apart by the invariant: engines, membership, mksrv-operator's AppRole.
LEMMA OtherFields ==
    ASSUME bao \in BaoState, Converged \/ EnsureBaoEngines \/ SetupRole \/ MembersJoin
    PROVE  bao' \in BaoState /\ Kept({})
<1>1. CASE Converged
  BY <1>1 DEF Converged, Bao, Kept
<1>2. CASE EnsureBaoEngines
  <2>1. CASE bao' = bao
    BY <2>1 DEF Kept
  <2>2. CASE bao' = [bao EXCEPT !.engines = @ \cup {MissingEngine}]
    BY <2>2 DEF BaoState, Kept, MissingEngine, Engine
  <2> QED BY <1>2, <2>1, <2>2 DEF EnsureBaoEngines, Bao
<1>3. CASE SetupRole
  BY <1>3 DEF SetupRole, Bao, BaoState, Kept
<1>4. CASE MembersJoin
  BY <1>4 DEF MembersJoin, BaoState, Kept
<1> QED BY <1>1, <1>2, <1>3, <1>4

LEMMA OperatorPolicyFields ==
    ASSUME TypeOK, RefreshOperatorPolicy \/ SetupPolicy
    PROVE  bao' \in BaoState /\ Kept({"operator"}) /\ bao'.operator = roster
<1>1. bao' = [bao EXCEPT !.operator = roster] /\ roster \subseteq Tenant /\ bao \in BaoState
  BY StateTypes DEF RefreshOperatorPolicy, SetupPolicy, Bao, OperatorPolicy, TypeOK
<1> QED BY <1>1 DEF BaoState, Kept

LEMMA LegacyFields ==
    ASSUME bao \in BaoState, cur \in Tenant, DeleteLegacyPolicy
    PROVE  /\ bao' \in BaoState /\ Kept({"policy"})
           /\ bao'.policy = [bao.policy EXCEPT ![Role(cur)] = None]
BY DEF DeleteLegacyPolicy, Bao, BaoState, Kept

LEMMA AppRoleFields ==
    ASSUME bao \in BaoState, cur \in Tenant, WriteAppRole
    PROVE  /\ bao' \in BaoState /\ Kept({"role", "transit"})
           /\ bao'.role = [bao.role EXCEPT ![Role(cur)] = Tiered(cur, "dev")]
           /\ bao'.transit = bao.transit \cup {cur}
BY NameTypes DEF WriteAppRole, WithRole, Bao, BaoState, Kept

LEMMA RefusedFields ==
    ASSUME bao \in BaoState, pc = "approle" => cur \in Tenant, Refused
    PROVE  /\ bao' \in BaoState /\ Kept({"role"})
           /\ \/ bao'.role = bao.role
              \/ pc = "approle" /\ bao'.role = [bao.role EXCEPT ![Role(cur)] = Tiered(cur, "dev")]
<1>1. CASE bao' = bao
  BY <1>1 DEF Kept
<1>2. CASE pc = "approle" /\ bao' = WithRole(Role(cur), Tiered(cur, "dev"))
  BY <1>2, NameTypes DEF WithRole, BaoState, Kept
<1> QED BY <1>1, <1>2 DEF Refused

LEMMA MintFields ==
    ASSUME bao \in BaoState, NEW t \in Tenant, bao' = WithMinted(t)
    PROVE  /\ bao' \in BaoState /\ Kept({"minted"})
           /\ bao'.minted = [bao.minted EXCEPT ![t] = bao.minted[t] + 1]
BY DEF WithMinted, BaoState, Kept

LEMMA MintOrRevokeFields ==
    ASSUME bao \in BaoState, cur \in Tenant, req \in Request, MintOrRevoke
    PROVE  /\ bao' \in BaoState /\ Kept({"minted"})
           /\ bao'.minted = bao.minted \/ bao'.minted = [bao.minted EXCEPT ![cur] = bao.minted[cur] + 1]
<1>1. CASE bao' = bao
  BY <1>1 DEF Kept
<1>2. CASE bao' = WithMinted(cur)
  BY <1>2, MintFields
<1>3. CASE bao' = [bao EXCEPT !.revoked = @ \cup {<<cur, req.n>>}]
  BY <1>3 DEF BaoState, Kept, Request
<1> QED BY <1>1, <1>2, <1>3 DEF MintOrRevoke

LEMMA SvcRoleFields ==
    ASSUME bao \in BaoState, cur \in Tenant, WriteSvcRole
    PROVE  /\ bao' \in BaoState /\ Kept({"role", "policy"})
           /\ bao'.role = [bao.role EXCEPT ![Svc(cur)] = Svc(cur)]
           /\ bao'.policy = [bao.policy EXCEPT ![Svc(cur)] = "svc"]
BY NameTypes DEF WriteSvcRole, WithRole, Bao, BaoState, Kept, Tier

LEMMA OIDCFields ==
    ASSUME bao \in BaoState, cur \in Tenant, WriteOIDC
    PROVE  bao' \in BaoState /\ Kept({"oidc"}) /\ bao'.oidc = bao.oidc \cup {cur}
BY DEF WriteOIDC, Bao, BaoState, Kept

LEMMA MirrorFields ==
    ASSUME bao \in BaoState, cur \in Tenant, hosts \in Nat, MirrorTenantSecret
    PROVE  /\ bao' \in BaoState /\ Kept({"kv"})
           /\ \A t \in Tenant : bao'.kv[t] = IF t = cur /\ bao.kv[t] = None THEN hosts ELSE bao.kv[t]
BY DEF MirrorTenantSecret, BaoState, Kept

LEMMA EmptyFields == Empty \in BaoState
BY DEF Empty, BaoState

\* What is kept of a cluster's initialisation comes from it, and the tenants' ids are
\* touched only where they are stored.
LEMMA OtherParameters ==
    ASSUME ssm \in SSMState, held \in Cluster \cup {None}, gen \in Cluster, cur \in Tenant \cup {None},
           PutRecoveryKeys \/ SetupRoleID \/ SetupSecretID \/ (StoreSvcRoleID /\ cur \in Tenant)
    PROVE  ssm' \in SSMState /\ KeptSSM({})
<1>1. CASE PutRecoveryKeys
  BY <1>1 DEF PutRecoveryKeys, Put, SSMState, KeptSSM
<1>2. CASE SetupRoleID
  <2>1. ssm' = ssm \/ ssm' = [ssm EXCEPT !.opRoleID = held]
    BY <1>2 DEF SetupRoleID, EnsureString
  <2> QED BY <2>1 DEF SSMState, KeptSSM
<1>3. CASE SetupSecretID
  BY <1>3 DEF SetupSecretID, Put, SSMState, KeptSSM
<1>4. CASE StoreSvcRoleID /\ cur \in Tenant
  <2>1. ssm' = ssm \/ ssm' = [ssm EXCEPT !.svcRoleID[cur] = [gen |-> gen, role |-> Svc(cur)]]
    BY <1>4 DEF StoreSvcRoleID, EnsureString
  <2>2. [gen |-> gen, role |-> Svc(cur)] \in ID
    BY <1>4, NameTypes DEF ID
  <2> QED BY <1>4, <2>1, <2>2 DEF SSMState, KeptSSM
<1> QED BY <1>1, <1>2, <1>3, <1>4

LEMMA RootParameter ==
    ASSUME ssm \in SSMState, held \in Cluster, PutRootToken
    PROVE  ssm' \in SSMState /\ KeptSSM({"root"}) /\ ssm'.root = held
BY DEF PutRootToken, Put, SSMState, KeptSSM

LEMMA RoleIDParameter ==
    ASSUME ssm \in SSMState, gen \in Cluster, cur \in Tenant, StoreRoleID
    PROVE  /\ ssm' \in SSMState /\ KeptSSM({"roleID"})
           /\ \A t \in Tenant : ssm'.roleID[t] = ssm.roleID[t] \/ ssm'.roleID[t] = [gen |-> gen, role |-> Role(t)]
           /\ \A t \in Tenant : ssm.roleID[t] # None \/ t = cur => ssm'.roleID[t] # None
<1>1. \/ ssm' = ssm /\ ssm.roleID[cur] # None
      \/ ssm' = [ssm EXCEPT !.roleID[cur] = [gen |-> gen, role |-> Role(cur)]]
  BY DEF StoreRoleID, EnsureString
<1>2. [gen |-> gen, role |-> Role(cur)] \in ID
  BY NameTypes DEF ID
<1>3. [gen |-> gen, role |-> Role(cur)] # None
  BY <1>2, NoneAssumption
<1>4. CASE ssm' = ssm /\ ssm.roleID[cur] # None
  BY <1>4 DEF KeptSSM
<1>5. CASE ssm' = [ssm EXCEPT !.roleID[cur] = [gen |-> gen, role |-> Role(cur)]]
  BY <1>2, <1>3, <1>5 DEF SSMState, KeptSSM
<1> QED BY <1>1, <1>4, <1>5

LEMMA SecretIDParameter ==
    ASSUME ssm \in SSMState, cur \in Tenant, new \in SecretID, PutSecretID
    PROVE  /\ ssm' \in SSMState /\ KeptSSM({"secretID"})
           /\ ssm'.secretID = [ssm.secretID EXCEPT ![cur] = new] /\ new # None
<1>1. new # None
  BY NoneAssumption
<1> QED BY <1>1 DEF PutSecretID, SSMState, KeptSSM

----------------------------------------------------------------------------
(***************************************************************************)
(* The parts of the invariant, one lemma each.                             *)
(***************************************************************************)

\* What is known of the command's memory in each phase.
LEMMA Memory ==
    ASSUME TypeOK, PhaseInv
    PROVE  /\ pc \in {"operator"} \cup Loop => cur \in Tenant /\ cmd = "apply" /\ done = None
           /\ pc \in Issuing => cur \in Tenant /\ req \in Request /\ cmd = "secret-id" /\ done = None
           /\ pc \in Bootstrapping => cmd = "bootstrap" /\ done = None
BY DEF TypeOK, PhaseInv, Loop, HasPolicies, HasRole, HasRoleID, HasSecret, HasSvc, HasOIDC,
       Issuing, Bootstrapping

LEMMA TypeStep == TypeOK /\ PhaseInv /\ TokenInv /\ StoredInv /\ Next => TypeOK'
<1> SUFFICES ASSUME TypeOK, PhaseInv, TokenInv, StoredInv, Next PROVE TypeOK'
  OBVIOUS
<1>1. CASE StartBootstrap
  BY <1>1 DEF StartBootstrap, TypeOK, Phase, Command, Success
<1>2. ASSUME NEW S \in SUBSET Tenant, StartApply(S) PROVE TypeOK'
  BY <1>2 DEF StartApply, TypeOK, Phase, Command, Success
<1>3. ASSUME NEW t \in Tenant, NEW act \in {"mint", "revoke"}, NEW n \in 1..MaxMints,
             NEW r \in {Role(t), Svc(t)}, StartSecretID(t, r, act, n)
      PROVE  TypeOK'
  BY <1>3, NameTypes DEF StartSecretID, Request, TypeOK, Phase, Command, Success
<1>4. CASE Status
  BY <1>4 DEF Status, TypeOK, Phase, Command, Success
<1>5. CASE OperatorInit
  <2>1. bao' \in BaoState
    BY <1>5, StateTypes, OperatorInitFields
  <2> QED BY <1>5, <2>1 DEF OperatorInit, BaoState, TypeOK, Phase, Command, Success
<1>6. CASE PutRecoveryKeys
  <2>2. ssm' \in SSMState
    BY <1>6, StateTypes, OtherParameters DEF TypeOK
  <2>3. pc' \in Phase /\ events' \in 0..MaxEvents /\ UNCHANGED <<outer, bao, local, done>>
    BY <1>6, NumbersAssumption DEF PutRecoveryKeys, Put, Phase, TypeOK
  <2> QED BY <2>2, <2>3 DEF SSMState, TypeOK
<1>7. CASE PutRootToken
  <2>1. held \in Cluster
    BY <1>7 DEF PutRootToken, Put, TokenInv, Storing, TypeOK
  <2>2. ssm' \in SSMState
    BY <1>7, <2>1, StateTypes, RootParameter DEF TypeOK
  <2>3. pc' \in Phase /\ events' \in 0..MaxEvents /\ UNCHANGED <<outer, bao, local, done>>
    BY <1>7, NumbersAssumption DEF PutRootToken, Put, Phase, TypeOK
  <2> QED BY <2>2, <2>3 DEF SSMState, TypeOK
<1>8. CASE GetRootToken
  BY <1>8 DEF GetRootToken, GetRoot, Error, Leave, TypeOK, Phase, Command, Success
<1>9. CASE Converged
  <2>1. bao' \in BaoState
    BY <1>9, StateTypes, OtherFields
  <2>2. pc' \in Phase /\ UNCHANGED <<outer, ssm, local, done, events>>
    BY <1>9 DEF Converged, Bao, Phase
  <2> QED BY <2>1, <2>2 DEF BaoState, TypeOK, Phase, Command, Success
<1>10. CASE NotConverged
  BY <1>10 DEF NotConverged, Error, Leave, TypeOK, Phase, Command, Success
<1>11. CASE EnsureBaoEngines
  <2>1. bao' \in BaoState
    BY <1>11, StateTypes, OtherFields
  <2>2. pc' \in Phase /\ UNCHANGED <<outer, ssm, local, done, events>>
    BY <1>11 DEF EnsureBaoEngines, Bao, Phase
  <2> QED BY <2>1, <2>2 DEF BaoState, TypeOK, Phase, Command, Success
<1>12. CASE WriteOpenBao
  <2>1. cmd \in Command
    BY <1>12, Memory DEF WriteOpenBao, Bootstrapping, Command
  <2>2. done' \in Success
    BY <1>12, <2>1 DEF WriteOpenBao, Return, Success, TypeOK
  <2>3. events' \in 0..MaxEvents
    BY <1>12, NumbersAssumption DEF WriteOpenBao, Event, TypeOK
  <2>5. recorded' \in BOOLEAN
    BY <1>12, Zenon DEF WriteOpenBao, TypeOK
  <2>4. pc' \in Phase
    BY <1>12 DEF WriteOpenBao, Return, Leave, Phase
  <2> QED BY <1>12, <2>2, <2>3, <2>4, <2>5 DEF WriteOpenBao, Return, Leave, TypeOK
<1>13. CASE RefreshOperatorPolicy
  <2>1. bao' \in BaoState
    BY <1>13, StateTypes, OperatorPolicyFields
  <2>2. pc' \in Phase /\ UNCHANGED <<outer, ssm, local, done, events>>
    BY <1>13 DEF RefreshOperatorPolicy, Bao, Phase
  <2> QED BY <2>1, <2>2 DEF BaoState, TypeOK, Phase, Command, Success
<1>14. CASE WritePolicies
  <2>1. cur \in Tenant /\ bao' = WithPolicies(cur, {"admin", "dev"})
    BY <1>14, Memory DEF WritePolicies, Bao, Loop, HasPolicies, HasRole, HasRoleID,
        HasSecret, HasSvc, HasOIDC, Issuing, Bootstrapping
  <2>2. bao' \in BaoState
    BY <2>1, StateTypes, WithPoliciesFields
  <2> QED BY <1>14, <2>2 DEF WritePolicies, Bao, BaoState, TypeOK, Phase, Command, Success
<1>15. CASE DeleteLegacyPolicy
  <2>0. cur \in Tenant
    BY <1>15, Memory DEF DeleteLegacyPolicy, Bao, Command, Loop, HasPolicies, HasRole,
        HasRoleID, HasSecret, HasSvc, HasOIDC, Issuing, Bootstrapping
  <2>1. bao' \in BaoState
    BY <1>15, <2>0, StateTypes, LegacyFields DEF TypeOK
  <2>2. pc' \in Phase /\ UNCHANGED <<outer, ssm, local, done, events>>
    BY <1>15 DEF DeleteLegacyPolicy, Bao, Phase
  <2> QED BY <2>1, <2>2 DEF BaoState, TypeOK, Phase, Command, Success
<1>16. CASE WriteAppRole
  <2>0. cur \in Tenant
    BY <1>16, Memory DEF WriteAppRole, Bao, Command, Loop, HasPolicies, HasRole, HasRoleID,
        HasSecret, HasSvc, HasOIDC, Issuing, Bootstrapping
  <2>1. bao' \in BaoState
    BY <1>16, <2>0, StateTypes, AppRoleFields DEF TypeOK
  <2>2. pc' \in Phase /\ UNCHANGED <<outer, ssm, local, done, events>>
    BY <1>16 DEF WriteAppRole, Bao, Phase
  <2> QED BY <2>1, <2>2 DEF BaoState, TypeOK, Phase, Command, Success
<1>17. CASE StoreRoleID
  <2>0. cur \in Tenant
    BY <1>17, Memory DEF StoreRoleID, EnsureString, Loop, HasPolicies, HasRole, HasRoleID,
        HasSecret, HasSvc, HasOIDC, Issuing, Bootstrapping
  <2>2. ssm' \in SSMState
    BY <1>17, <2>0, StateTypes, RoleIDParameter DEF TypeOK
  <2>3. pc' \in Phase /\ events' \in 0..MaxEvents /\ UNCHANGED <<outer, bao, local, done>>
    BY <1>17, NumbersAssumption DEF StoreRoleID, EnsureString, Event, Phase, TypeOK
  <2> QED BY <2>2, <2>3 DEF SSMState, TypeOK
<1>18. CASE GetSecretID
  BY <1>18, NumbersAssumption DEF GetSecretID, Event, TypeOK, Phase, Command, Success
<1>19. CASE MintSecretID
  <2>1. cur \in Tenant /\ bao' = WithMinted(cur) /\ new' = Minted(cur)
    BY <1>19, Memory DEF MintSecretID, Loop, HasPolicies, HasRole, HasRoleID, HasSecret,
        HasSvc, HasOIDC, Issuing, Bootstrapping
  <2>2. bao' \in BaoState
    BY <2>1, StateTypes, MintFields
  <2>3. new' \in SecretID
    BY <2>1 DEF Minted, SecretID, TypeOK
  <2> QED BY <1>19, <2>2, <2>3 DEF MintSecretID, BaoState, TypeOK, Phase, Command, Success
<1>20. CASE PutSecretID
  <2>0. cur \in Tenant
    BY <1>20, Memory DEF PutSecretID, Loop, HasPolicies, HasRole, HasRoleID, HasSecret,
        HasSvc, HasOIDC, Issuing, Bootstrapping
  <2>1. new \in SecretID
    BY <1>20 DEF PutSecretID, StoredInv, TypeOK
  <2>2. ssm' \in SSMState
    BY <1>20, <2>0, <2>1, StateTypes, SecretIDParameter DEF TypeOK
  <2> QED BY <1>20, <2>2 DEF PutSecretID, SSMState, TypeOK, Phase
<1>21. CASE WriteSvcRole
  <2>0. cur \in Tenant
    BY <1>21, Memory DEF WriteSvcRole, Bao, Command, Loop, HasPolicies, HasRole, HasRoleID,
        HasSecret, HasSvc, HasOIDC, Issuing, Bootstrapping
  <2>1. bao' \in BaoState
    BY <1>21, <2>0, StateTypes, SvcRoleFields DEF TypeOK
  <2>2. pc' \in Phase /\ UNCHANGED <<outer, ssm, local, done, events>>
    BY <1>21 DEF WriteSvcRole, Bao, Phase
  <2> QED BY <2>1, <2>2 DEF BaoState, TypeOK, Phase, Command, Success
<1>22. CASE StoreSvcRoleID
  <2>0. cur \in Tenant
    BY <1>22, Memory DEF StoreSvcRoleID, EnsureString, Loop, HasPolicies, HasRole,
        HasRoleID, HasSecret, HasSvc, HasOIDC, Issuing, Bootstrapping
  <2>2. ssm' \in SSMState
    BY <1>22, <2>0, StateTypes, OtherParameters DEF TypeOK
  <2>3. pc' \in Phase /\ events' \in 0..MaxEvents /\ UNCHANGED <<outer, bao, local, done>>
    BY <1>22, NumbersAssumption DEF StoreSvcRoleID, EnsureString, Event, Phase, TypeOK
  <2> QED BY <2>2, <2>3 DEF SSMState, TypeOK
<1>23. CASE WriteOIDC
  <2>0. cur \in Tenant
    BY <1>23, Memory DEF WriteOIDC, Bao, Command, Loop, HasPolicies, HasRole, HasRoleID,
        HasSecret, HasSvc, HasOIDC, Issuing, Bootstrapping
  <2>1. bao' \in BaoState
    BY <1>23, <2>0, StateTypes, OIDCFields DEF TypeOK
  <2>2. pc' \in Phase /\ UNCHANGED <<outer, ssm, local, done, events>>
    BY <1>23 DEF WriteOIDC, Bao, Phase
  <2> QED BY <2>1, <2>2 DEF BaoState, TypeOK, Phase, Command, Success
<1>24. CASE MirrorTenantSecret
  <2>0. cur \in Tenant /\ cmd \in Command
    BY <1>24, Memory DEF MirrorTenantSecret, Command, Loop, HasPolicies, HasRole, HasRoleID,
        HasSecret, HasSvc, HasOIDC, Issuing, Bootstrapping
  <2>1. bao' \in BaoState
    BY <1>24, <2>0, StateTypes, MirrorFields DEF TypeOK
  <2>2. /\ pc' \in Phase /\ cmd' \in Command \cup {None} /\ held' \in {held, None} /\ sel' \in {sel, {}}
        /\ todo' \subseteq todo /\ cur' \in todo \cup {None} /\ req' \in {req, None} /\ new' \in {new, None}
        /\ UNCHANGED <<outer, ssm, events>>
    BY <1>24, <2>0 DEF MirrorTenantSecret, Return, Leave, Phase
  <2>3. done' \in Success \cup {None}
    BY <1>24, <2>0 DEF MirrorTenantSecret, Return, Leave, Success, TypeOK
  <2> QED BY <2>1, <2>2, <2>3 DEF BaoState, TypeOK, Phase, Command, Success
<1>25. CASE OperatorLogin
  BY <1>25, NumbersAssumption DEF OperatorLogin, Event, TypeOK, Phase, Command, Success
<1>26. CASE SetupRootToken
  BY <1>26 DEF SetupRootToken, GetRoot, Error, Leave, TypeOK, Phase, Command, Success
<1>27. CASE SetupPolicy
  <2>1. bao' \in BaoState
    BY <1>27, StateTypes, OperatorPolicyFields
  <2>2. pc' \in Phase /\ UNCHANGED <<outer, ssm, local, done, events>>
    BY <1>27 DEF SetupPolicy, Bao, Phase
  <2> QED BY <2>1, <2>2 DEF BaoState, TypeOK, Phase, Command, Success
<1>28. CASE SetupRole
  <2>1. bao' \in BaoState
    BY <1>28, StateTypes, OtherFields
  <2>2. pc' \in Phase /\ UNCHANGED <<outer, ssm, local, done, events>>
    BY <1>28 DEF SetupRole, Bao, Phase
  <2> QED BY <2>1, <2>2 DEF BaoState, TypeOK, Phase, Command, Success
<1>29. CASE SetupRoleID
  <2>2. ssm' \in SSMState
    BY <1>29, StateTypes, OtherParameters DEF TypeOK
  <2>3. pc' \in Phase /\ events' \in 0..MaxEvents /\ UNCHANGED <<outer, bao, local, done>>
    BY <1>29, NumbersAssumption DEF SetupRoleID, EnsureString, Event, Phase, TypeOK
  <2> QED BY <2>2, <2>3 DEF SSMState, TypeOK
<1>30. CASE SetupSecretID
  <2>2. ssm' \in SSMState
    BY <1>30, StateTypes, OtherParameters DEF TypeOK
  <2>3. pc' \in Phase /\ events' \in 0..MaxEvents /\ UNCHANGED <<outer, bao, local, done>>
    BY <1>30, NumbersAssumption DEF SetupSecretID, Put, Phase, TypeOK
  <2> QED BY <2>2, <2>3 DEF SSMState, TypeOK
<1>31. CASE MintOrRevoke
  <2>0. cur \in Tenant /\ req \in Request /\ cmd \in Command
    BY <1>31, Memory DEF MintOrRevoke, Command, Loop, HasPolicies, HasRole, HasRoleID,
        HasSecret, HasSvc, HasOIDC, Issuing, Bootstrapping
  <2>1. bao' \in BaoState
    BY <1>31, <2>0, StateTypes, MintOrRevokeFields DEF TypeOK
  <2> QED BY <1>31, <2>1, <2>0 DEF MintOrRevoke, Return, Leave, BaoState, TypeOK, Phase,
      Command, Success
<1>32. CASE Refused
  <2>0. pc = "approle" => cur \in Tenant
    BY <1>32, Memory DEF Loop, HasPolicies, HasRole, HasRoleID, HasSecret, HasSvc, HasOIDC,
        Issuing, Bootstrapping
  <2>1. bao' \in BaoState
    BY <1>32, <2>0, StateTypes, RefusedFields
  <2> QED BY <1>32, <2>1, <2>0 DEF Refused, Error, Leave, BaoState, TypeOK, Phase, Command,
      Success
<1>33. CASE WriteOnePolicy
  <2>1. cur \in Tenant /\ \E s \in {"admin", "dev"} : bao' = WithPolicies(cur, {s})
    BY <1>33, Memory DEF WriteOnePolicy, Loop, HasPolicies, HasRole, HasRoleID, HasSecret,
        HasSvc, HasOIDC, Issuing, Bootstrapping
  <2>2. bao' \in BaoState
    BY <2>1, StateTypes, WithPoliciesFields
  <2>3. events' \in 0..MaxEvents
    BY <1>33, NumbersAssumption DEF WriteOnePolicy, Event, TypeOK
  <2> QED BY <1>33, <2>2, <2>3 DEF WriteOnePolicy, Error, Leave, BaoState, TypeOK, Phase,
      Command, Success
<1>34. CASE LegacyPolicyStays
  BY <1>34, NumbersAssumption DEF LegacyPolicyStays, Event, TypeOK, Phase, Command, Success
<1>35. CASE Cut
  BY <1>35, NumbersAssumption DEF Cut, Error, Leave, Event, TypeOK, Phase, Command, Success
<1>36. CASE MembersJoin
  <2>1. bao' \in BaoState
    BY <1>36, StateTypes, OtherFields
  <2> QED BY <1>36, <2>1 DEF MembersJoin, BaoState, TypeOK, Phase, Command, Success
<1>37. CASE Rebuild
  <2>1. gen' \in Cluster
    BY <1>37, NumbersAssumption DEF Rebuild, Event, Cluster, TokenInv, TypeOK
  <2>2. bao' \in BaoState
    BY <1>37, EmptyFields DEF Rebuild
  <2>3. /\ events' \in 0..MaxEvents /\ done' = None
        /\ UNCHANGED <<roster, hosts, recorded, ssm, pc, local>>
    BY <1>37, NumbersAssumption DEF Rebuild, Event, TypeOK
  <2>4. cutInit' \in BOOLEAN
    BY <1>37, Zenon DEF Rebuild
  <2> QED BY <2>1, <2>2, <2>3, <2>4 DEF BaoState, TypeOK, Phase, Command, Success
<1>38. CASE EditWorkspace
  BY <1>38, NumbersAssumption DEF EditWorkspace, Event, TypeOK, Phase, Command, Success
<1> QED BY <1>1, <1>2, <1>3, <1>4, <1>5, <1>6, <1>7, <1>8, <1>9, <1>10, <1>11, <1>12, <1>13,
    <1>14, <1>15, <1>16, <1>17, <1>18, <1>19, <1>20, <1>21, <1>22, <1>23, <1>24, <1>25,
    <1>26, <1>27, <1>28, <1>29, <1>30, <1>31, <1>32, <1>33, <1>34, <1>35, <1>36, <1>37,
    <1>38 DEF Next, Step

\* A command keeps to its phases.
LEMMA PhaseStep == TypeOK /\ PhaseInv /\ Next => PhaseInv'
<1> SUFFICES ASSUME TypeOK, PhaseInv, Next PROVE PhaseInv'
  OBVIOUS
<1>1. CASE StartBootstrap
  BY <1>1 DEF StartBootstrap, PhaseInv, Loop, HasPolicies, HasRole, HasRoleID, HasSecret,
      HasSvc, HasOIDC, Issuing, Bootstrapping
<1>2. ASSUME NEW S \in SUBSET Tenant, StartApply(S) PROVE PhaseInv'
  BY <1>2 DEF StartApply, PhaseInv, Loop, HasPolicies, HasRole, HasRoleID, HasSecret,
      HasSvc, HasOIDC, Issuing, Bootstrapping
<1>3. ASSUME NEW t \in Tenant, NEW act \in {"mint", "revoke"}, NEW n \in 1..MaxMints,
             NEW r \in {Role(t), Svc(t)}, StartSecretID(t, r, act, n)
      PROVE  PhaseInv'
  BY <1>3, NameTypes DEF StartSecretID, Request, PhaseInv, Loop, HasPolicies, HasRole,
      HasRoleID, HasSecret, HasSvc, HasOIDC, Issuing, Bootstrapping
<1>4. CASE Status
  BY <1>4 DEF Status, PhaseInv, Loop, HasPolicies, HasRole, HasRoleID, HasSecret, HasSvc,
      HasOIDC, Issuing, Bootstrapping
<1>5. CASE OperatorInit
  BY <1>5 DEF OperatorInit, PhaseInv, Loop, HasPolicies, HasRole, HasRoleID, HasSecret,
      HasSvc, HasOIDC, Issuing, Bootstrapping
<1>6. CASE PutRecoveryKeys
  BY <1>6 DEF PutRecoveryKeys, Put, PhaseInv, Loop, HasPolicies, HasRole, HasRoleID,
      HasSecret, HasSvc, HasOIDC, Issuing, Bootstrapping
<1>7. CASE PutRootToken
  BY <1>7 DEF PutRootToken, Put, PhaseInv, Loop, HasPolicies, HasRole, HasRoleID, HasSecret,
      HasSvc, HasOIDC, Issuing, Bootstrapping
<1>8. CASE GetRootToken
  BY <1>8 DEF GetRootToken, GetRoot, Error, Leave, PhaseInv, Loop, HasPolicies, HasRole,
      HasRoleID, HasSecret, HasSvc, HasOIDC, Issuing, Bootstrapping
<1>9. CASE Converged
  BY <1>9 DEF Converged, Bao, PhaseInv, Loop, HasPolicies, HasRole, HasRoleID, HasSecret,
      HasSvc, HasOIDC, Issuing, Bootstrapping
<1>10. CASE NotConverged
  BY <1>10 DEF NotConverged, Error, Leave, PhaseInv, Loop, HasPolicies, HasRole, HasRoleID,
      HasSecret, HasSvc, HasOIDC, Issuing, Bootstrapping
<1>11. CASE EnsureBaoEngines
  BY <1>11 DEF EnsureBaoEngines, Bao, PhaseInv, Loop, HasPolicies, HasRole, HasRoleID,
      HasSecret, HasSvc, HasOIDC, Issuing, Bootstrapping
<1>12. CASE WriteOpenBao
  BY <1>12 DEF WriteOpenBao, Return, Leave, Event, PhaseInv, Loop, HasPolicies, HasRole,
      HasRoleID, HasSecret, HasSvc, HasOIDC, Issuing, Bootstrapping
<1>13. CASE RefreshOperatorPolicy
  BY <1>13 DEF RefreshOperatorPolicy, Bao, PhaseInv, Loop, HasPolicies, HasRole, HasRoleID,
      HasSecret, HasSvc, HasOIDC, Issuing, Bootstrapping
<1>14. CASE WritePolicies
  BY <1>14 DEF WritePolicies, Bao, PhaseInv, Loop, HasPolicies, HasRole, HasRoleID,
      HasSecret, HasSvc, HasOIDC, Issuing, Bootstrapping
<1>15. CASE DeleteLegacyPolicy
  BY <1>15 DEF DeleteLegacyPolicy, Bao, PhaseInv, Loop, HasPolicies, HasRole, HasRoleID,
      HasSecret, HasSvc, HasOIDC, Issuing, Bootstrapping
<1>16. CASE WriteAppRole
  BY <1>16 DEF WriteAppRole, Bao, PhaseInv, Loop, HasPolicies, HasRole, HasRoleID,
      HasSecret, HasSvc, HasOIDC, Issuing, Bootstrapping
<1>17. CASE StoreRoleID
  BY <1>17 DEF StoreRoleID, EnsureString, Event, PhaseInv, Loop, HasPolicies, HasRole,
      HasRoleID, HasSecret, HasSvc, HasOIDC, Issuing, Bootstrapping
<1>18. CASE GetSecretID
  BY <1>18 DEF GetSecretID, Event, PhaseInv, Loop, HasPolicies, HasRole, HasRoleID,
      HasSecret, HasSvc, HasOIDC, Issuing, Bootstrapping
<1>19. CASE MintSecretID
  BY <1>19 DEF MintSecretID, PhaseInv, Loop, HasPolicies, HasRole, HasRoleID, HasSecret,
      HasSvc, HasOIDC, Issuing, Bootstrapping
<1>20. CASE PutSecretID
  BY <1>20 DEF PutSecretID, PhaseInv, Loop, HasPolicies, HasRole, HasRoleID, HasSecret,
      HasSvc, HasOIDC, Issuing, Bootstrapping
<1>21. CASE WriteSvcRole
  BY <1>21 DEF WriteSvcRole, Bao, PhaseInv, Loop, HasPolicies, HasRole, HasRoleID,
      HasSecret, HasSvc, HasOIDC, Issuing, Bootstrapping
<1>22. CASE StoreSvcRoleID
  BY <1>22 DEF StoreSvcRoleID, EnsureString, Event, PhaseInv, Loop, HasPolicies, HasRole,
      HasRoleID, HasSecret, HasSvc, HasOIDC, Issuing, Bootstrapping
<1>23. CASE WriteOIDC
  BY <1>23 DEF WriteOIDC, Bao, PhaseInv, Loop, HasPolicies, HasRole, HasRoleID, HasSecret,
      HasSvc, HasOIDC, Issuing, Bootstrapping
<1>24. CASE MirrorTenantSecret
  BY <1>24 DEF MirrorTenantSecret, Return, Leave, PhaseInv, Loop, HasPolicies, HasRole,
      HasRoleID, HasSecret, HasSvc, HasOIDC, Issuing, Bootstrapping
<1>25. CASE OperatorLogin
  BY <1>25 DEF OperatorLogin, Event, PhaseInv, Loop, HasPolicies, HasRole, HasRoleID,
      HasSecret, HasSvc, HasOIDC, Issuing, Bootstrapping
<1>26. CASE SetupRootToken
  BY <1>26 DEF SetupRootToken, GetRoot, Error, Leave, PhaseInv, Loop, HasPolicies, HasRole,
      HasRoleID, HasSecret, HasSvc, HasOIDC, Issuing, Bootstrapping
<1>27. CASE SetupPolicy
  BY <1>27 DEF SetupPolicy, Bao, PhaseInv, Loop, HasPolicies, HasRole, HasRoleID, HasSecret,
      HasSvc, HasOIDC, Issuing, Bootstrapping
<1>28. CASE SetupRole
  BY <1>28 DEF SetupRole, Bao, PhaseInv, Loop, HasPolicies, HasRole, HasRoleID, HasSecret,
      HasSvc, HasOIDC, Issuing, Bootstrapping
<1>29. CASE SetupRoleID
  BY <1>29 DEF SetupRoleID, EnsureString, Event, PhaseInv, Loop, HasPolicies, HasRole,
      HasRoleID, HasSecret, HasSvc, HasOIDC, Issuing, Bootstrapping
<1>30. CASE SetupSecretID
  BY <1>30 DEF SetupSecretID, Put, PhaseInv, Loop, HasPolicies, HasRole, HasRoleID,
      HasSecret, HasSvc, HasOIDC, Issuing, Bootstrapping
<1>31. CASE MintOrRevoke
  BY <1>31 DEF MintOrRevoke, Return, Leave, PhaseInv, Loop, HasPolicies, HasRole, HasRoleID,
      HasSecret, HasSvc, HasOIDC, Issuing, Bootstrapping
<1>32. CASE Refused
  BY <1>32 DEF Refused, Error, Leave, PhaseInv, Loop, HasPolicies, HasRole, HasRoleID,
      HasSecret, HasSvc, HasOIDC, Issuing, Bootstrapping
<1>33. CASE WriteOnePolicy
  BY <1>33 DEF WriteOnePolicy, Error, Leave, Event, PhaseInv, Loop, HasPolicies, HasRole,
      HasRoleID, HasSecret, HasSvc, HasOIDC, Issuing, Bootstrapping
<1>34. CASE LegacyPolicyStays
  BY <1>34 DEF LegacyPolicyStays, Event, PhaseInv, Loop, HasPolicies, HasRole, HasRoleID,
      HasSecret, HasSvc, HasOIDC, Issuing, Bootstrapping
<1>35. CASE Cut
  BY <1>35 DEF Cut, Error, Leave, Event, PhaseInv, Loop, HasPolicies, HasRole, HasRoleID,
      HasSecret, HasSvc, HasOIDC, Issuing, Bootstrapping
<1>36. CASE MembersJoin
  BY <1>36 DEF MembersJoin, PhaseInv, Loop, HasPolicies, HasRole, HasRoleID, HasSecret,
      HasSvc, HasOIDC, Issuing, Bootstrapping
<1>37. CASE Rebuild
  BY <1>37 DEF Rebuild, Event, PhaseInv, Loop, HasPolicies, HasRole, HasRoleID, HasSecret,
      HasSvc, HasOIDC, Issuing, Bootstrapping
<1>38. CASE EditWorkspace
  BY <1>38 DEF EditWorkspace, Event, PhaseInv, Loop, HasPolicies, HasRole, HasRoleID,
      HasSecret, HasSvc, HasOIDC, Issuing, Bootstrapping
<1> QED BY <1>1, <1>2, <1>3, <1>4, <1>5, <1>6, <1>7, <1>8, <1>9, <1>10, <1>11, <1>12, <1>13,
    <1>14, <1>15, <1>16, <1>17, <1>18, <1>19, <1>20, <1>21, <1>22, <1>23, <1>24, <1>25,
    <1>26, <1>27, <1>28, <1>29, <1>30, <1>31, <1>32, <1>33, <1>34, <1>35, <1>36, <1>37,
    <1>38 DEF Next, Step

\* Which actions touch which part of the cluster, but for one that is rebuilt, ...
ClusterFrame ==
    /\ bao'.inited = bao.inited \/ OperatorInit
    /\ bao'.policy = bao.policy \/ WritePolicies \/ WriteOnePolicy \/ DeleteLegacyPolicy \/ WriteSvcRole
    /\ bao'.role = bao.role \/ WriteAppRole \/ WriteSvcRole \/ Refused
    /\ bao'.minted = bao.minted \/ MintSecretID \/ MintOrRevoke
    /\ bao'.operator = bao.operator \/ RefreshOperatorPolicy \/ SetupPolicy
    /\ bao'.transit = bao.transit \/ WriteAppRole
    /\ bao'.oidc = bao.oidc \/ WriteOIDC
    /\ bao'.kv = bao.kv \/ MirrorTenantSecret

\* ... and of SSM.
SSMFrame ==
    /\ ssm'.root = ssm.root \/ PutRootToken
    /\ ssm'.roleID = ssm.roleID \/ StoreRoleID
    /\ ssm'.secretID = ssm.secretID \/ PutSecretID

LEMMA Frames == TypeOK /\ PhaseInv /\ TokenInv /\ StoredInv /\ Next => Rebuild \/ (ClusterFrame /\ SSMFrame)
<1> SUFFICES ASSUME TypeOK, PhaseInv, TokenInv, StoredInv, Next PROVE Rebuild \/ (ClusterFrame /\ SSMFrame)
  OBVIOUS
<1>1. CASE StartBootstrap
  BY <1>1 DEF StartBootstrap, ClusterFrame, SSMFrame
<1>2. ASSUME NEW S \in SUBSET Tenant, StartApply(S) PROVE Rebuild \/ (ClusterFrame /\ SSMFrame)
  BY <1>2 DEF StartApply, ClusterFrame, SSMFrame
<1>3. ASSUME NEW t \in Tenant, NEW act \in {"mint", "revoke"}, NEW n \in 1..MaxMints,
             NEW r \in {Role(t), Svc(t)}, StartSecretID(t, r, act, n)
      PROVE  Rebuild \/ (ClusterFrame /\ SSMFrame)
  BY <1>3 DEF StartSecretID, ClusterFrame, SSMFrame
<1>4. CASE Status
  BY <1>4 DEF Status, ClusterFrame, SSMFrame
<1>5. CASE OperatorInit
  <2>2. UNCHANGED ssm
    BY <1>5 DEF OperatorInit
  <2> QED BY <1>5, <2>2, StateTypes, OperatorInitFields DEF TypeOK, ClusterFrame, SSMFrame, Kept
<1>6. CASE PutRecoveryKeys
  <2>2. UNCHANGED bao
    BY <1>6 DEF PutRecoveryKeys, Put
  <2> QED BY <1>6, <2>2, StateTypes, OtherParameters DEF TypeOK, ClusterFrame, SSMFrame, KeptSSM
<1>7. CASE PutRootToken
  <2>1. held \in Cluster /\ UNCHANGED bao
    BY <1>7 DEF PutRootToken, Put, TokenInv, Storing, TypeOK
  <2> QED BY <1>7, <2>1, StateTypes, RootParameter DEF ClusterFrame, SSMFrame, KeptSSM
<1>8. CASE GetRootToken
  BY <1>8 DEF GetRootToken, GetRoot, Error, Leave, ClusterFrame, SSMFrame
<1>9. CASE Converged
  <2>2. UNCHANGED ssm
    BY <1>9 DEF Converged, Bao
  <2> QED BY <1>9, <2>2, StateTypes, OtherFields DEF TypeOK, ClusterFrame, SSMFrame, Kept
<1>10. CASE NotConverged
  BY <1>10 DEF NotConverged, Error, Leave, ClusterFrame, SSMFrame
<1>11. CASE EnsureBaoEngines
  <2>2. UNCHANGED ssm
    BY <1>11 DEF EnsureBaoEngines, Bao
  <2> QED BY <1>11, <2>2, StateTypes, OtherFields DEF TypeOK, ClusterFrame, SSMFrame, Kept
<1>12. CASE WriteOpenBao
  BY <1>12 DEF WriteOpenBao, Return, Leave, Event, ClusterFrame, SSMFrame
<1>13. CASE RefreshOperatorPolicy
  <2>2. UNCHANGED ssm
    BY <1>13 DEF RefreshOperatorPolicy, Bao
  <2> QED BY <1>13, <2>2, StateTypes, OperatorPolicyFields DEF TypeOK, ClusterFrame,
      SSMFrame, Kept
<1>14. CASE WritePolicies
  <2>1. cur \in Tenant /\ bao' = WithPolicies(cur, {"admin", "dev"})
    BY <1>14, Memory DEF WritePolicies, Bao, Loop, HasPolicies, HasRole, HasRoleID,
        HasSecret, HasSvc, HasOIDC, Issuing, Bootstrapping
  <2>2. UNCHANGED ssm
    BY <1>14 DEF WritePolicies, Bao
  <2> QED BY <1>14, <2>1, <2>2, StateTypes, WithPoliciesFields DEF TypeOK, ClusterFrame,
      SSMFrame, Kept
<1>15. CASE DeleteLegacyPolicy
  <2>1. cur \in Tenant
    BY <1>15, Memory DEF DeleteLegacyPolicy, Bao, Loop, HasPolicies, HasRole, HasRoleID,
        HasSecret, HasSvc, HasOIDC, Issuing, Bootstrapping
  <2>2. UNCHANGED ssm
    BY <1>15 DEF DeleteLegacyPolicy, Bao
  <2> QED BY <1>15, <2>1, <2>2, StateTypes, LegacyFields DEF TypeOK, ClusterFrame, SSMFrame,
      Kept
<1>16. CASE WriteAppRole
  <2>1. cur \in Tenant
    BY <1>16, Memory DEF WriteAppRole, Bao, Loop, HasPolicies, HasRole, HasRoleID,
        HasSecret, HasSvc, HasOIDC, Issuing, Bootstrapping
  <2>2. UNCHANGED ssm
    BY <1>16 DEF WriteAppRole, Bao
  <2> QED BY <1>16, <2>1, <2>2, StateTypes, AppRoleFields DEF TypeOK, ClusterFrame,
      SSMFrame, Kept
<1>17. CASE StoreRoleID
  <2>1. cur \in Tenant
    BY <1>17, Memory DEF StoreRoleID, EnsureString, Loop, HasPolicies, HasRole, HasRoleID,
        HasSecret, HasSvc, HasOIDC, Issuing, Bootstrapping
  <2>2. UNCHANGED bao
    BY <1>17 DEF StoreRoleID, EnsureString
  <2> QED BY <1>17, <2>1, <2>2, StateTypes, RoleIDParameter DEF TypeOK, ClusterFrame,
      SSMFrame, KeptSSM
<1>18. CASE GetSecretID
  BY <1>18 DEF GetSecretID, Event, ClusterFrame, SSMFrame
<1>19. CASE MintSecretID
  <2>1. cur \in Tenant /\ bao' = WithMinted(cur)
    BY <1>19, Memory DEF MintSecretID, Loop, HasPolicies, HasRole, HasRoleID, HasSecret,
        HasSvc, HasOIDC, Issuing, Bootstrapping
  <2>2. UNCHANGED ssm
    BY <1>19 DEF MintSecretID
  <2> QED BY <1>19, <2>1, <2>2, StateTypes, MintFields DEF TypeOK, ClusterFrame, SSMFrame, Kept
<1>20. CASE PutSecretID
  <2>1. cur \in Tenant /\ UNCHANGED bao
    BY <1>20, Memory DEF PutSecretID, Loop, HasPolicies, HasRole, HasRoleID, HasSecret,
        HasSvc, HasOIDC, Issuing, Bootstrapping
  <2>2. new \in SecretID
    BY <1>20 DEF PutSecretID, StoredInv, TypeOK
  <2> QED BY <1>20, <2>1, <2>2, StateTypes, SecretIDParameter DEF ClusterFrame, SSMFrame,
      KeptSSM
<1>21. CASE WriteSvcRole
  <2>1. cur \in Tenant
    BY <1>21, Memory DEF WriteSvcRole, Bao, Loop, HasPolicies, HasRole, HasRoleID,
        HasSecret, HasSvc, HasOIDC, Issuing, Bootstrapping
  <2>2. UNCHANGED ssm
    BY <1>21 DEF WriteSvcRole, Bao
  <2> QED BY <1>21, <2>1, <2>2, StateTypes, SvcRoleFields DEF TypeOK, ClusterFrame,
      SSMFrame, Kept
<1>22. CASE StoreSvcRoleID
  <2>1. cur \in Tenant
    BY <1>22, Memory DEF StoreSvcRoleID, EnsureString, Loop, HasPolicies, HasRole,
        HasRoleID, HasSecret, HasSvc, HasOIDC, Issuing, Bootstrapping
  <2>2. UNCHANGED bao
    BY <1>22 DEF StoreSvcRoleID, EnsureString
  <2> QED BY <1>22, <2>1, <2>2, StateTypes, OtherParameters DEF TypeOK, ClusterFrame,
      SSMFrame, KeptSSM
<1>23. CASE WriteOIDC
  <2>1. cur \in Tenant
    BY <1>23, Memory DEF WriteOIDC, Bao, Loop, HasPolicies, HasRole, HasRoleID, HasSecret,
        HasSvc, HasOIDC, Issuing, Bootstrapping
  <2>2. UNCHANGED ssm
    BY <1>23 DEF WriteOIDC, Bao
  <2> QED BY <1>23, <2>1, <2>2, StateTypes, OIDCFields DEF TypeOK, ClusterFrame, SSMFrame, Kept
<1>24. CASE MirrorTenantSecret
  <2>1. cur \in Tenant
    BY <1>24, Memory DEF MirrorTenantSecret, Loop, HasPolicies, HasRole, HasRoleID,
        HasSecret, HasSvc, HasOIDC, Issuing, Bootstrapping
  <2>2. UNCHANGED ssm
    BY <1>24 DEF MirrorTenantSecret
  <2> QED BY <1>24, <2>1, <2>2, StateTypes, MirrorFields DEF TypeOK, ClusterFrame, SSMFrame,
      Kept
<1>25. CASE OperatorLogin
  BY <1>25 DEF OperatorLogin, Event, ClusterFrame, SSMFrame
<1>26. CASE SetupRootToken
  BY <1>26 DEF SetupRootToken, GetRoot, Error, Leave, ClusterFrame, SSMFrame
<1>27. CASE SetupPolicy
  <2>2. UNCHANGED ssm
    BY <1>27 DEF SetupPolicy, Bao
  <2> QED BY <1>27, <2>2, StateTypes, OperatorPolicyFields DEF TypeOK, ClusterFrame,
      SSMFrame, Kept
<1>28. CASE SetupRole
  <2>2. UNCHANGED ssm
    BY <1>28 DEF SetupRole, Bao
  <2> QED BY <1>28, <2>2, StateTypes, OtherFields DEF TypeOK, ClusterFrame, SSMFrame, Kept
<1>29. CASE SetupRoleID
  <2>2. UNCHANGED bao
    BY <1>29 DEF SetupRoleID, EnsureString
  <2> QED BY <1>29, <2>2, StateTypes, OtherParameters DEF TypeOK, ClusterFrame, SSMFrame,
      KeptSSM
<1>30. CASE SetupSecretID
  <2>2. UNCHANGED bao
    BY <1>30 DEF SetupSecretID, Put
  <2> QED BY <1>30, <2>2, StateTypes, OtherParameters DEF TypeOK, ClusterFrame, SSMFrame,
      KeptSSM
<1>31. CASE MintOrRevoke
  <2>1. cur \in Tenant /\ req \in Request
    BY <1>31, Memory DEF MintOrRevoke, Loop, HasPolicies, HasRole, HasRoleID, HasSecret,
        HasSvc, HasOIDC, Issuing, Bootstrapping
  <2>2. UNCHANGED ssm
    BY <1>31 DEF MintOrRevoke
  <2> QED BY <1>31, <2>1, <2>2, StateTypes, MintOrRevokeFields DEF TypeOK, ClusterFrame,
      SSMFrame, Kept
<1>32. CASE Refused
  <2>1. pc = "approle" => cur \in Tenant
    BY <1>32, Memory DEF Refused, Loop, HasPolicies, HasRole, HasRoleID, HasSecret, HasSvc,
        HasOIDC, Issuing, Bootstrapping
  <2>2. UNCHANGED ssm
    BY <1>32 DEF Refused
  <2> QED BY <1>32, <2>1, <2>2, StateTypes, RefusedFields DEF TypeOK, ClusterFrame,
      SSMFrame, Kept
<1>33. CASE WriteOnePolicy
  <2>1. cur \in Tenant /\ \E s \in {"admin", "dev"} : bao' = WithPolicies(cur, {s})
    BY <1>33, Memory DEF WriteOnePolicy, Loop, HasPolicies, HasRole, HasRoleID, HasSecret,
        HasSvc, HasOIDC, Issuing, Bootstrapping
  <2>2. UNCHANGED ssm
    BY <1>33 DEF WriteOnePolicy
  <2> QED BY <1>33, <2>1, <2>2, StateTypes, WithPoliciesFields DEF TypeOK, ClusterFrame,
      SSMFrame, Kept
<1>34. CASE LegacyPolicyStays
  BY <1>34 DEF LegacyPolicyStays, Event, ClusterFrame, SSMFrame
<1>35. CASE Cut
  BY <1>35 DEF Cut, Error, Leave, Event, ClusterFrame, SSMFrame
<1>36. CASE MembersJoin
  <2>2. UNCHANGED ssm
    BY <1>36 DEF MembersJoin
  <2> QED BY <1>36, <2>2, StateTypes, OtherFields DEF TypeOK, ClusterFrame, SSMFrame, Kept
<1>37. CASE Rebuild
  BY <1>37
<1>38. CASE EditWorkspace
  BY <1>38 DEF EditWorkspace, Event, ClusterFrame, SSMFrame
<1> QED BY <1>1, <1>2, <1>3, <1>4, <1>5, <1>6, <1>7, <1>8, <1>9, <1>10, <1>11, <1>12, <1>13,
    <1>14, <1>15, <1>16, <1>17, <1>18, <1>19, <1>20, <1>21, <1>22, <1>23, <1>24, <1>25,
    <1>26, <1>27, <1>28, <1>29, <1>30, <1>31, <1>32, <1>33, <1>34, <1>35, <1>36, <1>37,
    <1>38 DEF Next, Step

\* SSM gets the root token of a cluster right after its initialisation, or never.
LEMMA TokenStep == TypeOK /\ PhaseInv /\ TokenInv /\ StoredInv /\ TokenLostOnlyByCut /\ Next => (TokenInv /\ TokenLostOnlyByCut)'
<1> SUFFICES ASSUME TypeOK, PhaseInv, TokenInv, StoredInv, TokenLostOnlyByCut, Next PROVE (TokenInv /\ TokenLostOnlyByCut)'
  OBVIOUS
<1>0. pc \notin {"idle", "init", "putRoot"} => bao'.inited = bao.inited /\ ssm'.root = ssm.root
  BY Frames DEF ClusterFrame, SSMFrame, Rebuild, OperatorInit, PutRootToken, Put
<1>1. CASE StartBootstrap
  BY <1>1, <1>0 DEF StartBootstrap, TokenInv, TokenLostOnlyByCut, Storing, TypeOK
<1>2. ASSUME NEW S \in SUBSET Tenant, StartApply(S) PROVE (TokenInv /\ TokenLostOnlyByCut)'
  BY <1>2, <1>0 DEF StartApply, TokenInv, TokenLostOnlyByCut, Storing, TypeOK
<1>3. ASSUME NEW t \in Tenant, NEW act \in {"mint", "revoke"}, NEW n \in 1..MaxMints,
             NEW r \in {Role(t), Svc(t)}, StartSecretID(t, r, act, n)
      PROVE  (TokenInv /\ TokenLostOnlyByCut)'
  BY <1>3, <1>0 DEF StartSecretID, TokenInv, TokenLostOnlyByCut, Storing, TypeOK
<1>4. CASE Status
  BY <1>4, <1>0 DEF Status, TokenInv, TokenLostOnlyByCut, Storing, TypeOK
<1>5. CASE OperatorInit
  <2>1. bao'.inited /\ ssm' = ssm
    BY <1>5, StateTypes, OperatorInitFields DEF OperatorInit
  <2> QED BY <1>5, <2>1 DEF OperatorInit, TokenInv, TokenLostOnlyByCut, Storing, TypeOK
<1>6. CASE PutRecoveryKeys
  BY <1>6, <1>0 DEF PutRecoveryKeys, Put, TokenInv, TokenLostOnlyByCut, Storing, TypeOK
<1>7. CASE PutRootToken
  <2>1. ssm'.root = gen
    BY <1>7, StateTypes, RootParameter DEF PutRootToken, Put, TokenInv, Storing, TypeOK
  <2> QED BY <1>7, <2>1 DEF PutRootToken, Put, TokenInv, TokenLostOnlyByCut, Storing, TypeOK
<1>8. CASE GetRootToken
  BY <1>8, <1>0 DEF GetRootToken, GetRoot, Error, Leave, TokenInv, TokenLostOnlyByCut,
      Storing, TypeOK
<1>9. CASE Converged
  BY <1>9, <1>0 DEF Converged, Bao, TokenInv, TokenLostOnlyByCut, Storing, TypeOK
<1>10. CASE NotConverged
  BY <1>10, <1>0 DEF NotConverged, Error, Leave, TokenInv, TokenLostOnlyByCut, Storing, TypeOK
<1>11. CASE EnsureBaoEngines
  BY <1>11, <1>0 DEF EnsureBaoEngines, Bao, TokenInv, TokenLostOnlyByCut, Storing, TypeOK
<1>12. CASE WriteOpenBao
  BY <1>12, <1>0 DEF WriteOpenBao, Return, Leave, Event, TokenInv, TokenLostOnlyByCut,
      Storing, TypeOK
<1>13. CASE RefreshOperatorPolicy
  BY <1>13, <1>0 DEF RefreshOperatorPolicy, Bao, TokenInv, TokenLostOnlyByCut, Storing, TypeOK
<1>14. CASE WritePolicies
  BY <1>14, <1>0 DEF WritePolicies, Bao, TokenInv, TokenLostOnlyByCut, Storing, TypeOK
<1>15. CASE DeleteLegacyPolicy
  BY <1>15, <1>0 DEF DeleteLegacyPolicy, Bao, TokenInv, TokenLostOnlyByCut, Storing, TypeOK
<1>16. CASE WriteAppRole
  BY <1>16, <1>0 DEF WriteAppRole, Bao, TokenInv, TokenLostOnlyByCut, Storing, TypeOK
<1>17. CASE StoreRoleID
  BY <1>17, <1>0 DEF StoreRoleID, EnsureString, Event, TokenInv, TokenLostOnlyByCut,
      Storing, TypeOK
<1>18. CASE GetSecretID
  BY <1>18, <1>0 DEF GetSecretID, Event, TokenInv, TokenLostOnlyByCut, Storing, TypeOK
<1>19. CASE MintSecretID
  BY <1>19, <1>0 DEF MintSecretID, TokenInv, TokenLostOnlyByCut, Storing, TypeOK
<1>20. CASE PutSecretID
  BY <1>20, <1>0 DEF PutSecretID, TokenInv, TokenLostOnlyByCut, Storing, TypeOK
<1>21. CASE WriteSvcRole
  BY <1>21, <1>0 DEF WriteSvcRole, Bao, TokenInv, TokenLostOnlyByCut, Storing, TypeOK
<1>22. CASE StoreSvcRoleID
  BY <1>22, <1>0 DEF StoreSvcRoleID, EnsureString, Event, TokenInv, TokenLostOnlyByCut,
      Storing, TypeOK
<1>23. CASE WriteOIDC
  BY <1>23, <1>0 DEF WriteOIDC, Bao, TokenInv, TokenLostOnlyByCut, Storing, TypeOK
<1>24. CASE MirrorTenantSecret
  BY <1>24, <1>0 DEF MirrorTenantSecret, Return, Leave, TokenInv, TokenLostOnlyByCut,
      Storing, TypeOK
<1>25. CASE OperatorLogin
  BY <1>25, <1>0 DEF OperatorLogin, Event, TokenInv, TokenLostOnlyByCut, Storing, TypeOK
<1>26. CASE SetupRootToken
  BY <1>26, <1>0 DEF SetupRootToken, GetRoot, Error, Leave, TokenInv, TokenLostOnlyByCut,
      Storing, TypeOK
<1>27. CASE SetupPolicy
  BY <1>27, <1>0 DEF SetupPolicy, Bao, TokenInv, TokenLostOnlyByCut, Storing, TypeOK
<1>28. CASE SetupRole
  BY <1>28, <1>0 DEF SetupRole, Bao, TokenInv, TokenLostOnlyByCut, Storing, TypeOK
<1>29. CASE SetupRoleID
  BY <1>29, <1>0 DEF SetupRoleID, EnsureString, Event, TokenInv, TokenLostOnlyByCut,
      Storing, TypeOK
<1>30. CASE SetupSecretID
  BY <1>30, <1>0 DEF SetupSecretID, Put, TokenInv, TokenLostOnlyByCut, Storing, TypeOK
<1>31. CASE MintOrRevoke
  BY <1>31, <1>0 DEF MintOrRevoke, Return, Leave, TokenInv, TokenLostOnlyByCut, Storing, TypeOK
<1>32. CASE Refused
  BY <1>32, <1>0 DEF Refused, Error, Leave, TokenInv, TokenLostOnlyByCut, Storing, TypeOK
<1>33. CASE WriteOnePolicy
  BY <1>33, <1>0 DEF WriteOnePolicy, Error, Leave, Event, TokenInv, TokenLostOnlyByCut,
      Storing, TypeOK
<1>34. CASE LegacyPolicyStays
  BY <1>34, <1>0 DEF LegacyPolicyStays, Event, TokenInv, TokenLostOnlyByCut, Storing, TypeOK
<1>35. CASE Cut
  BY <1>35, <1>0 DEF Cut, Error, Leave, Event, TokenInv, TokenLostOnlyByCut, Storing, TypeOK
<1>36. CASE MembersJoin
  BY <1>36, <1>0 DEF MembersJoin, TokenInv, TokenLostOnlyByCut, Storing, TypeOK
<1>37. CASE Rebuild
  <2>1. ~bao'.inited /\ gen' = gen + 1 /\ ssm' = ssm /\ ~cutInit' /\ events' = events + 1 /\ pc' = "idle"
    BY <1>37 DEF Rebuild, Event, Empty
  <2>2. gen \in Nat /\ events \in Nat /\ (ssm.root # None => ssm.root \in 1..gen)
    BY NumbersAssumption DEF TypeOK, TokenInv, Cluster
  <2>3. ssm'.root # gen'
    BY <2>1, <2>2, NoneAssumption
  <2> QED BY <2>1, <2>2, <2>3 DEF TokenInv, TokenLostOnlyByCut, Storing
<1>38. CASE EditWorkspace
  BY <1>38, <1>0 DEF EditWorkspace, Event, TokenInv, TokenLostOnlyByCut, Storing, TypeOK
<1> QED BY <1>1, <1>2, <1>3, <1>4, <1>5, <1>6, <1>7, <1>8, <1>9, <1>10, <1>11, <1>12, <1>13,
    <1>14, <1>15, <1>16, <1>17, <1>18, <1>19, <1>20, <1>21, <1>22, <1>23, <1>24, <1>25,
    <1>26, <1>27, <1>28, <1>29, <1>30, <1>31, <1>32, <1>33, <1>34, <1>35, <1>36, <1>37,
    <1>38 DEF Next, Step

\* Only a rebuilt cluster has another number and only an edit moves the database.
LEMMA OuterFrame ==
    ASSUME Next
    PROVE  /\ UNCHANGED gen \/ Rebuild
           /\ UNCHANGED <<roster, hosts>> \/ EditWorkspace
BY DEF Next, Step, StartBootstrap, StartApply, StartSecretID, Status, OperatorInit,
    PutRecoveryKeys, PutRootToken, GetRootToken, Converged, NotConverged, EnsureBaoEngines,
    WriteOpenBao, RefreshOperatorPolicy, WritePolicies, DeleteLegacyPolicy, WriteAppRole,
    StoreRoleID, GetSecretID, MintSecretID, PutSecretID, WriteSvcRole, StoreSvcRoleID,
    WriteOIDC, MirrorTenantSecret, OperatorLogin, SetupRootToken, SetupPolicy, SetupRole,
    SetupRoleID, SetupSecretID, MintOrRevoke, Refused, WriteOnePolicy, LegacyPolicyStays,
    Cut, MembersJoin, Rebuild, EditWorkspace, Bao, Put, EnsureString, GetRoot, Error,
    Return, Leave, Event

\* A SecretID is in hand from the step that mints it to the one that stores it.
LEMMA MintFrame ==
    ASSUME Next, pc' = "putSecretID"
    PROVE  MintSecretID \/ (pc = "putSecretID" /\ MembersJoin)
BY DEF Next, Step, StartBootstrap, StartApply, StartSecretID, Status, OperatorInit,
    PutRecoveryKeys, PutRootToken, GetRootToken, Converged, NotConverged, EnsureBaoEngines,
    WriteOpenBao, RefreshOperatorPolicy, WritePolicies, DeleteLegacyPolicy, WriteAppRole,
    StoreRoleID, GetSecretID, MintSecretID, PutSecretID, WriteSvcRole, StoreSvcRoleID,
    WriteOIDC, MirrorTenantSecret, OperatorLogin, SetupRootToken, SetupPolicy, SetupRole,
    SetupRoleID, SetupSecretID, MintOrRevoke, Refused, WriteOnePolicy, LegacyPolicyStays,
    Cut, MembersJoin, Rebuild, EditWorkspace, Bao, Put, EnsureString, GetRoot, Error,
    Return, Leave, Event

\* SecretIDs are only ever added.
LEMMA MintedGrows ==
    ASSUME TypeOK, PhaseInv, TokenInv, StoredInv, Next, ~Rebuild, NEW t \in Tenant
    PROVE  bao.minted[t] \in Nat /\ bao'.minted[t] \in Nat /\ bao.minted[t] <= bao'.minted[t]
<1>1. bao.minted \in [Tenant -> Nat]
  BY DEF TypeOK
<1>2. CASE bao'.minted = bao.minted
  BY <1>1, <1>2
<1>3. CASE MintSecretID
  <2>1. cur \in Tenant /\ bao' = WithMinted(cur)
    BY <1>3, Memory DEF MintSecretID, Loop, HasPolicies, HasRole, HasRoleID, HasSecret,
        HasSvc, HasOIDC, Issuing, Bootstrapping
  <2>2. bao'.minted = [bao.minted EXCEPT ![cur] = bao.minted[cur] + 1]
    BY <2>1, StateTypes, MintFields
  <2> QED BY <1>1, <2>2
<1>4. CASE MintOrRevoke
  <2>1. cur \in Tenant /\ req \in Request
    BY <1>4, Memory DEF MintOrRevoke, Loop, HasPolicies, HasRole, HasRoleID, HasSecret,
        HasSvc, HasOIDC, Issuing, Bootstrapping
  <2> QED BY <1>1, <1>4, <2>1, StateTypes, MintOrRevokeFields
<1> QED BY <1>2, <1>3, <1>4, Frames DEF ClusterFrame

\* What SSM has of a tenant is its own.
LEMMA StoredStep == TypeOK /\ PhaseInv /\ TokenInv /\ StoredInv /\ Next => StoredInv'
<1> SUFFICES ASSUME TypeOK, PhaseInv, TokenInv, StoredInv, Next PROVE StoredInv'
  OBVIOUS
<1>1. CASE Rebuild
  <2>1. /\ ssm' = ssm /\ gen' = gen + 1 /\ hosts' = hosts /\ pc' = "idle"
        /\ \A t \in Tenant : bao'.kv[t] = None
    BY <1>1 DEF Rebuild, Empty
  <2>2. ASSUME NEW t \in Tenant, ssm.roleID[t] # None
        PROVE  ssm.roleID[t].role = Role(t) /\ ssm.roleID[t].gen <= gen + 1
    <3>1. ssm.roleID[t] \in ID /\ gen \in Cluster
      BY <2>2 DEF TypeOK
    <3>2. ssm.roleID[t].gen \in Nat /\ gen \in Nat
      BY <3>1 DEF ID, Cluster
    <3> QED BY <2>2, <3>2 DEF StoredInv
  <2>3. ASSUME NEW t \in Tenant, ssm.secretID[t] # None
        PROVE  /\ ssm.secretID[t].tenant = t /\ ssm.secretID[t].gen <= gen + 1
               /\ ssm.secretID[t].gen # gen + 1
    <3>1. ssm.secretID[t] \in SecretID /\ gen \in Cluster
      BY <2>3 DEF TypeOK
    <3>2. ssm.secretID[t].gen \in Nat /\ gen \in Nat
      BY <3>1 DEF SecretID, Cluster
    <3> QED BY <2>3, <3>2 DEF StoredInv
  <2> QED BY <2>1, <2>2, <2>3 DEF StoredInv
<1>2. CASE ~Rebuild
  <2>1. gen' = gen /\ gen \in Nat
    BY <1>2, OuterFrame DEF TypeOK, Cluster
  <2>2. ASSUME NEW t \in Tenant, ssm'.roleID[t] # None
        PROVE  ssm'.roleID[t].role = Role(t) /\ ssm'.roleID[t].gen <= gen
    <3>1. CASE ssm'.roleID[t] = ssm.roleID[t]
      BY <2>2, <3>1 DEF StoredInv
    <3>2. CASE ssm'.roleID[t] = [gen |-> gen, role |-> Role(t)]
      BY <2>1, <3>2
    <3>3. CASE StoreRoleID
      <4>1. cur \in Tenant
        BY <3>3, Memory DEF StoreRoleID, EnsureString, Loop, HasPolicies, HasRole,
            HasRoleID, HasSecret, HasSvc, HasOIDC, Issuing, Bootstrapping
      <4> QED BY <3>1, <3>2, <3>3, <4>1, StateTypes, RoleIDParameter DEF TypeOK
    <3> QED BY <1>2, <3>1, <3>3, Frames DEF SSMFrame
  <2>3. ASSUME NEW t \in Tenant, ssm'.secretID[t] # None
        PROVE  /\ ssm'.secretID[t].tenant = t /\ ssm'.secretID[t].gen <= gen
               /\ ssm'.secretID[t].gen = gen => ssm'.secretID[t].n <= bao'.minted[t]
    <3>1. bao.minted[t] \in Nat /\ bao'.minted[t] \in Nat /\ bao.minted[t] <= bao'.minted[t]
      BY <1>2, MintedGrows
    <3>2. CASE ssm'.secretID[t] = ssm.secretID[t]
      <4>1. ssm.secretID[t] \in SecretID
        BY <2>3, <3>2 DEF TypeOK
      <4>2. ssm.secretID[t].n \in Nat
        BY <4>1 DEF SecretID
      <4> QED BY <2>3, <3>1, <3>2, <4>2 DEF StoredInv
    <3>3. CASE PutSecretID
      <4>1. cur \in Tenant
        BY <3>3, Memory DEF PutSecretID, Loop, HasPolicies, HasRole, HasRoleID, HasSecret,
            HasSvc, HasOIDC, Issuing, Bootstrapping
      <4>2. new.gen = gen /\ new.tenant = cur /\ new.n <= bao.minted[cur] /\ new \in SecretID
        BY <3>3 DEF PutSecretID, StoredInv, TypeOK
      <4>3. bao' = bao /\ ssm.secretID \in [Tenant -> SecretID \cup {None}]
        BY <3>3 DEF PutSecretID, TypeOK
      <4>4. ssm'.secretID = [ssm.secretID EXCEPT ![cur] = new]
        BY <3>3, <4>1, <4>2, StateTypes, SecretIDParameter
      <4>5. CASE t = cur
        BY <2>1, <4>1, <4>2, <4>3, <4>4, <4>5
      <4>6. CASE t # cur
        BY <3>2, <4>3, <4>4, <4>6
      <4> QED BY <4>5, <4>6
    <3> QED BY <1>2, <3>2, <3>3, Frames DEF SSMFrame
  <2>4. ASSUME NEW t \in Tenant, bao'.kv[t] # None
        PROVE  bao'.kv[t] <= hosts'
    <3>1. hosts \in Nat /\ hosts' \in Nat /\ hosts <= hosts'
      BY OuterFrame DEF EditWorkspace, TypeOK
    <3>2. CASE bao'.kv[t] = bao.kv[t]
      <4>1. bao.kv[t] \in Nat
        BY <2>4, <3>2 DEF TypeOK
      <4> QED BY <2>4, <3>1, <3>2, <4>1 DEF StoredInv
    <3>3. CASE MirrorTenantSecret
      <4>1. cur \in Tenant
        BY <3>3, Memory DEF MirrorTenantSecret, Loop, HasPolicies, HasRole, HasRoleID,
            HasSecret, HasSvc, HasOIDC, Issuing, Bootstrapping
      <4> QED BY <3>1, <3>2, <3>3, <4>1, StateTypes, MirrorFields
    <3> QED BY <1>2, <3>2, <3>3, Frames DEF ClusterFrame
  <2>5. ASSUME pc' = "putSecretID"
        PROVE  new' # None /\ new'.gen = gen /\ new'.tenant = cur' /\ new'.n <= bao'.minted[cur']
    <3>1. CASE pc = "putSecretID" /\ MembersJoin
      <4>1. new' = new /\ cur' = cur /\ bao'.minted = bao.minted
        BY <3>1, StateTypes, OtherFields DEF MembersJoin, Kept
      <4> QED BY <3>1, <4>1 DEF StoredInv
    <3>2. CASE MintSecretID
      <4>1. cur \in Tenant /\ cur' = cur /\ bao' = WithMinted(cur) /\ new' = Minted(cur)
        BY <3>2, Memory DEF MintSecretID, Loop, HasPolicies, HasRole, HasRoleID, HasSecret,
            HasSvc, HasOIDC, Issuing, Bootstrapping
      <4>2. Minted(cur) \in SecretID
        BY <4>1 DEF Minted, SecretID, TypeOK
      <4>3. bao'.minted[cur] = bao.minted[cur] + 1 /\ bao.minted[cur] \in Nat
        BY <4>1, StateTypes, MintFields DEF TypeOK
      <4>4. /\ Minted(cur).gen = gen /\ Minted(cur).tenant = cur
            /\ Minted(cur).n = bao.minted[cur] + 1
        BY DEF Minted
      <4> QED BY <4>1, <4>2, <4>3, <4>4, NoneAssumption
    <3> QED BY <2>5, <3>1, <3>2, MintFrame
  <2> QED BY <2>1, <2>2, <2>3, <2>4, <2>5 DEF StoredInv
<1> QED BY <1>1, <1>2

\* A tenant's turn outlasts the others': a policy of its tiers is rewritten with what it
\* was, and only a tenant whose id ends in the tier's name deletes it.
LEMMA PolicyStep ==
    ASSUME TypeOK, PhaseInv, TokenInv, StoredInv, Next, ~Rebuild,
           NEW t \in Tenant, NEW s \in {"admin", "dev"},
           bao.policy[Tiered(t, s)] = s \/ Shadowed(t, s)
    PROVE  bao'.policy[Tiered(t, s)] = s \/ Shadowed(t, s)
<1>0. Tiered(t, s) \in PolicyName /\ s \in Tier
  BY NameTypes DEF Tier
<1> SUFFICES ASSUME ~Shadowed(t, s) PROVE bao'.policy[Tiered(t, s)] = s
  OBVIOUS
<1>1. CASE bao'.policy = bao.policy
  BY <1>1
<1>2. ASSUME NEW S \in SUBSET {"admin", "dev"}, cur \in Tenant, bao' = WithPolicies(cur, S)
      PROVE  bao'.policy[Tiered(t, s)] = s
  <2>1. CASE \E r \in S : Tiered(t, s) = Tiered(cur, r)
    <3>1. PICK r \in S : Tiered(t, s) = Tiered(cur, r)
      BY <2>1
    <3>2. r \in Tier
      BY DEF Tier
    <3>3. r = s
      <4>1. cur \in Tenant
        BY <1>2
      <4> QED BY <1>0, <3>1, <3>2, <4>1, Names
    <3>4. bao'.policy[Tiered(cur, r)] = r
      BY <1>2, StateTypes, WithPoliciesFields
    <3> QED BY <3>1, <3>3, <3>4
  <2>2. CASE ~\E r \in S : Tiered(t, s) = Tiered(cur, r)
    BY <1>0, <1>2, <2>2, StateTypes, WithPoliciesFields
  <2> QED BY <2>1, <2>2
<1>3. CASE WritePolicies
  <2>1. cur \in Tenant /\ bao' = WithPolicies(cur, {"admin", "dev"})
    BY <1>3, Memory DEF WritePolicies, Bao, Loop, HasPolicies, HasRole, HasRoleID,
        HasSecret, HasSvc, HasOIDC, Issuing, Bootstrapping
  <2> QED BY <1>2, <2>1
<1>4. CASE WriteOnePolicy
  <2>1. cur \in Tenant /\ \E r \in {"admin", "dev"} : bao' = WithPolicies(cur, {r})
    BY <1>4, Memory DEF WriteOnePolicy, Loop, HasPolicies, HasRole, HasRoleID, HasSecret,
        HasSvc, HasOIDC, Issuing, Bootstrapping
  <2>2. PICK r \in {"admin", "dev"} : bao' = WithPolicies(cur, {r})
    BY <2>1
  <2>3. {r} \in SUBSET {"admin", "dev"}
    OBVIOUS
  <2> QED BY <1>2, <2>1, <2>2, <2>3
<1>5. CASE DeleteLegacyPolicy
  <2>1. cur \in Tenant
    BY <1>5, Memory DEF DeleteLegacyPolicy, Bao, Loop, HasPolicies, HasRole, HasRoleID,
        HasSecret, HasSvc, HasOIDC, Issuing, Bootstrapping
  <2>2. Tiered(t, s) # Role(cur)
    BY <1>0, <2>1, Names DEF Shadowed
  <2>3. bao'.policy = [bao.policy EXCEPT ![Role(cur)] = None] /\ bao.policy \in [PolicyName -> Tier \cup {None}]
    BY <1>5, <2>1, StateTypes, LegacyFields DEF TypeOK
  <2> QED BY <1>0, <2>2, <2>3
<1>6. CASE WriteSvcRole
  <2>1. cur \in Tenant
    BY <1>6, Memory DEF WriteSvcRole, Bao, Loop, HasPolicies, HasRole, HasRoleID, HasSecret,
        HasSvc, HasOIDC, Issuing, Bootstrapping
  <2>2. Tiered(t, s) # Svc(cur)
    BY <1>0, <2>1, Names
  <2>3. bao'.policy = [bao.policy EXCEPT ![Svc(cur)] = "svc"] /\ bao.policy \in [PolicyName -> Tier \cup {None}]
    BY <1>6, <2>1, StateTypes, SvcRoleFields DEF TypeOK
  <2> QED BY <1>0, <2>2, <2>3
<1> QED BY <1>1, <1>3, <1>4, <1>5, <1>6, Frames DEF ClusterFrame

\* No clean-up and no tier has the name of another tenant's svc policy.
LEMMA SvcPolicyStep ==
    ASSUME TypeOK, PhaseInv, TokenInv, StoredInv, Next, ~Rebuild,
           NEW t \in Tenant, bao.policy[Svc(t)] = "svc"
    PROVE  bao'.policy[Svc(t)] = "svc"
<1>0. Svc(t) \in PolicyName /\ bao.policy \in [PolicyName -> Tier \cup {None}]
  BY NameTypes DEF TypeOK
<1>1. CASE bao'.policy = bao.policy
  BY <1>1
<1>2. ASSUME NEW S \in SUBSET {"admin", "dev"}, cur \in Tenant, bao' = WithPolicies(cur, S)
      PROVE  bao'.policy[Svc(t)] = "svc"
  <2>1. \A s \in S : s \in Tier /\ Svc(t) # Tiered(cur, s)
    BY <1>2, Names DEF Tier
  <2>2. \A p \in PolicyName : (\A s \in S : p # Tiered(cur, s)) => bao'.policy[p] = bao.policy[p]
    BY <1>2, StateTypes, WithPoliciesFields
  <2> QED BY <1>0, <2>1, <2>2
<1>3. CASE WritePolicies
  <2>1. cur \in Tenant /\ bao' = WithPolicies(cur, {"admin", "dev"})
    BY <1>3, Memory DEF WritePolicies, Bao, Loop, HasPolicies, HasRole, HasRoleID,
        HasSecret, HasSvc, HasOIDC, Issuing, Bootstrapping
  <2> QED BY <1>2, <2>1
<1>4. CASE WriteOnePolicy
  <2>1. cur \in Tenant /\ \E r \in {"admin", "dev"} : bao' = WithPolicies(cur, {r})
    BY <1>4, Memory DEF WriteOnePolicy, Loop, HasPolicies, HasRole, HasRoleID, HasSecret,
        HasSvc, HasOIDC, Issuing, Bootstrapping
  <2>2. PICK r \in {"admin", "dev"} : bao' = WithPolicies(cur, {r})
    BY <2>1
  <2>3. {r} \in SUBSET {"admin", "dev"}
    OBVIOUS
  <2> QED BY <1>2, <2>1, <2>2, <2>3
<1>5. CASE DeleteLegacyPolicy
  <2>1. cur \in Tenant
    BY <1>5, Memory DEF DeleteLegacyPolicy, Bao, Loop, HasPolicies, HasRole, HasRoleID,
        HasSecret, HasSvc, HasOIDC, Issuing, Bootstrapping
  <2>2. Svc(t) # Role(cur)
    BY <2>1, Names DEF Tier
  <2>3. bao'.policy = [bao.policy EXCEPT ![Role(cur)] = None]
    BY <1>5, <2>1, StateTypes, LegacyFields
  <2> QED BY <1>0, <2>2, <2>3
<1>6. CASE WriteSvcRole
  <2>1. cur \in Tenant
    BY <1>6, Memory DEF WriteSvcRole, Bao, Loop, HasPolicies, HasRole, HasRoleID, HasSecret,
        HasSvc, HasOIDC, Issuing, Bootstrapping
  <2>2. bao'.policy = [bao.policy EXCEPT ![Svc(cur)] = "svc"]
    BY <1>6, <2>1, StateTypes, SvcRoleFields
  <2> QED BY <1>0, <2>2
<1> QED BY <1>1, <1>3, <1>4, <1>5, <1>6, Frames DEF ClusterFrame

\* An AppRole keeps its policy: whoever writes it writes the same.
LEMMA RoleStep ==
    ASSUME TypeOK, PhaseInv, TokenInv, StoredInv, Next, ~Rebuild, NEW t \in Tenant
    PROVE  /\ bao.role[Role(t)] = Tiered(t, "dev") => bao'.role[Role(t)] = Tiered(t, "dev")
           /\ bao.role[Svc(t)] = Svc(t) => bao'.role[Svc(t)] = Svc(t)
<1>0. Role(t) \in RoleName /\ Svc(t) \in RoleName /\ bao.role \in [RoleName -> PolicyName \cup {None}]
  BY NameTypes DEF TypeOK
<1>1. CASE bao'.role = bao.role
  BY <1>1
<1>2. ASSUME cur \in Tenant, bao'.role = [bao.role EXCEPT ![Role(cur)] = Tiered(cur, "dev")]
      PROVE  /\ bao.role[Role(t)] = Tiered(t, "dev") => bao'.role[Role(t)] = Tiered(t, "dev")
             /\ bao.role[Svc(t)] = Svc(t) => bao'.role[Svc(t)] = Svc(t)
  <2>1. Svc(t) # Role(cur) /\ (Role(t) = Role(cur) => t = cur)
    BY <1>2, Names DEF Tier
  <2> QED BY <1>0, <1>2, <2>1
<1>3. CASE WriteAppRole
  <2>1. cur \in Tenant
    BY <1>3, Memory DEF WriteAppRole, Bao, Loop, HasPolicies, HasRole, HasRoleID, HasSecret,
        HasSvc, HasOIDC, Issuing, Bootstrapping
  <2> QED BY <1>2, <1>3, <2>1, StateTypes, AppRoleFields
<1>4. CASE Refused
  <2>1. pc = "approle" => cur \in Tenant
    BY Memory DEF Loop, HasPolicies, HasRole, HasRoleID, HasSecret, HasSvc, HasOIDC,
        Issuing, Bootstrapping
  <2> QED BY <1>1, <1>2, <1>4, <2>1, StateTypes, RefusedFields
<1>5. CASE WriteSvcRole
  <2>1. cur \in Tenant
    BY <1>5, Memory DEF WriteSvcRole, Bao, Loop, HasPolicies, HasRole, HasRoleID, HasSecret,
        HasSvc, HasOIDC, Issuing, Bootstrapping
  <2>2. Role(t) # Svc(cur) /\ (Svc(t) = Svc(cur) => t = cur)
    BY <2>1, Names DEF Tier
  <2>3. bao'.role = [bao.role EXCEPT ![Svc(cur)] = Svc(cur)]
    BY <1>5, <2>1, StateTypes, SvcRoleFields
  <2> QED BY <1>0, <2>2, <2>3
<1> QED BY <1>1, <1>3, <1>4, <1>5, Frames DEF ClusterFrame

\* What is granted, mirrored or stored stays.
LEMMA RestStep ==
    ASSUME TypeOK, PhaseInv, TokenInv, StoredInv, Next, ~Rebuild, NEW t \in Tenant
    PROVE  /\ t \in bao.oidc => t \in bao'.oidc
           /\ t \in bao.transit => t \in bao'.transit
           /\ bao.kv[t] # None => bao'.kv[t] # None
           /\ ssm.roleID[t] # None => ssm'.roleID[t] # None
           /\ ssm.secretID[t] # None => ssm'.secretID[t] # None
<1>1. t \in bao.oidc => t \in bao'.oidc
  <2>1. WriteOIDC => cur \in Tenant
    BY Memory DEF WriteOIDC, Bao, Loop, HasPolicies, HasRole, HasRoleID, HasSecret, HasSvc,
        HasOIDC, Issuing, Bootstrapping
  <2> QED BY <2>1, StateTypes, OIDCFields, Frames DEF ClusterFrame
<1>2. t \in bao.transit => t \in bao'.transit
  <2>1. WriteAppRole => cur \in Tenant
    BY Memory DEF WriteAppRole, Bao, Loop, HasPolicies, HasRole, HasRoleID, HasSecret,
        HasSvc, HasOIDC, Issuing, Bootstrapping
  <2> QED BY <2>1, StateTypes, AppRoleFields, Frames DEF ClusterFrame
<1>3. bao.kv[t] # None => bao'.kv[t] # None
  <2>1. MirrorTenantSecret => cur \in Tenant
    BY Memory DEF MirrorTenantSecret, Loop, HasPolicies, HasRole, HasRoleID, HasSecret,
        HasSvc, HasOIDC, Issuing, Bootstrapping
  <2>2. MirrorTenantSecret => bao'.kv[t] = IF t = cur /\ bao.kv[t] = None THEN hosts ELSE bao.kv[t]
    BY <2>1, StateTypes, MirrorFields DEF TypeOK
  <2> QED BY <2>2, Frames DEF ClusterFrame
<1>4. ssm.roleID[t] # None => ssm'.roleID[t] # None
  <2>1. StoreRoleID => cur \in Tenant
    BY Memory DEF StoreRoleID, EnsureString, Loop, HasPolicies, HasRole, HasRoleID,
        HasSecret, HasSvc, HasOIDC, Issuing, Bootstrapping
  <2>2. StoreRoleID => (ssm.roleID[t] # None => ssm'.roleID[t] # None)
    BY <2>1, StateTypes, RoleIDParameter DEF TypeOK
  <2> QED BY <2>2, Frames DEF SSMFrame
<1>5. ssm.secretID[t] # None => ssm'.secretID[t] # None
  <2>1. PutSecretID => cur \in Tenant /\ new \in SecretID
    BY Memory DEF PutSecretID, StoredInv, TypeOK, Loop, HasPolicies, HasRole, HasRoleID,
        HasSecret, HasSvc, HasOIDC, Issuing, Bootstrapping
  <2>2. ssm.secretID \in [Tenant -> SecretID \cup {None}]
    BY DEF TypeOK
  <2>3. PutSecretID => ssm'.secretID = [ssm.secretID EXCEPT ![cur] = new] /\ new # None
    BY <2>1, StateTypes, SecretIDParameter
  <2> QED BY <2>2, <2>3, Frames DEF SSMFrame
<1> QED BY <1>1, <1>2, <1>3, <1>4, <1>5

LEMMA ProvisionedStep ==
    ASSUME TypeOK, PhaseInv, TokenInv, StoredInv, Next, ~Rebuild, NEW t \in Tenant, Provisioned(t)
    PROVE  Provisioned(t)'
BY PolicyStep, SvcPolicyStep, RoleStep, RestStep DEF Provisioned, Shadowed

\* How the phases of a tenant's turn follow one another.
Onward ==
    /\ UNCHANGED <<cur, todo, sel>>
    /\ \/ pc' = pc /\ MembersJoin
       \/ WritePolicies /\ pc' = "legacy"
       \/ pc = "legacy" /\ pc' = "approle"
       \/ pc = "approle" /\ WriteAppRole /\ pc' = "roleID"
       \/ pc = "roleID" /\ StoreRoleID /\ pc' = "getSecretID"
       \/ pc = "getSecretID" /\ pc' = "mint"
       \/ pc = "getSecretID" /\ ssm.secretID[cur] # None /\ pc' = "svcRole"
       \/ pc = "mint" /\ pc' = "putSecretID"
       \/ pc = "putSecretID" /\ PutSecretID /\ pc' = "svcRole"
       \/ pc = "svcRole" /\ WriteSvcRole /\ pc' = "svcRoleID"
       \/ pc = "svcRoleID" /\ pc' = "oidc"
       \/ pc = "oidc" /\ WriteOIDC /\ pc' = "mirror"

LEMMA TurnFrame ==
    ASSUME TypeOK, PhaseInv, Next, pc' \in Loop
    PROVE  \/ Onward /\ UNCHANGED <<roster, gen>>
           \/ RefreshOperatorPolicy /\ pc' = "policies" /\ UNCHANGED <<todo, sel, roster, gen>>
           \/ /\ pc = "mirror" /\ MirrorTenantSecret /\ pc' = "policies"
              /\ sel' = sel /\ todo' = todo \ {cur} /\ UNCHANGED <<roster, gen>>
<1> DEFINE Turned == \/ Onward /\ UNCHANGED <<roster, gen>>
                     \/ RefreshOperatorPolicy /\ pc' = "policies" /\ UNCHANGED <<todo, sel, roster, gen>>
                     \/ /\ pc = "mirror" /\ MirrorTenantSecret /\ pc' = "policies"
                        /\ sel' = sel /\ todo' = todo \ {cur} /\ UNCHANGED <<roster, gen>>
<1>1. CASE StartBootstrap
  BY <1>1 DEF StartBootstrap, Loop, HasPolicies, HasRole, HasRoleID, HasSecret, HasSvc,
      HasOIDC, PhaseInv, TypeOK, Onward
<1>2. ASSUME NEW S \in SUBSET Tenant, StartApply(S) PROVE Turned
  BY <1>2 DEF StartApply, Loop, HasPolicies, HasRole, HasRoleID, HasSecret, HasSvc, HasOIDC,
      PhaseInv, TypeOK, Onward
<1>3. ASSUME NEW t \in Tenant, NEW act \in {"mint", "revoke"}, NEW n \in 1..MaxMints,
             NEW r \in {Role(t), Svc(t)}, StartSecretID(t, r, act, n)
      PROVE  Turned
  BY <1>3 DEF StartSecretID, Loop, HasPolicies, HasRole, HasRoleID, HasSecret, HasSvc,
      HasOIDC, PhaseInv, TypeOK, Onward
<1>4. CASE Status
  BY <1>4 DEF Status, Loop, HasPolicies, HasRole, HasRoleID, HasSecret, HasSvc, HasOIDC,
      PhaseInv, TypeOK, Onward
<1>5. CASE OperatorInit
  BY <1>5 DEF OperatorInit, Loop, HasPolicies, HasRole, HasRoleID, HasSecret, HasSvc,
      HasOIDC, PhaseInv, TypeOK, Onward
<1>6. CASE PutRecoveryKeys
  BY <1>6 DEF PutRecoveryKeys, Put, Loop, HasPolicies, HasRole, HasRoleID, HasSecret,
      HasSvc, HasOIDC, PhaseInv, TypeOK, Onward
<1>7. CASE PutRootToken
  BY <1>7 DEF PutRootToken, Put, Loop, HasPolicies, HasRole, HasRoleID, HasSecret, HasSvc,
      HasOIDC, PhaseInv, TypeOK, Onward
<1>8. CASE GetRootToken
  BY <1>8 DEF GetRootToken, GetRoot, Error, Leave, Loop, HasPolicies, HasRole, HasRoleID,
      HasSecret, HasSvc, HasOIDC, PhaseInv, TypeOK, Onward
<1>9. CASE Converged
  BY <1>9 DEF Converged, Bao, Loop, HasPolicies, HasRole, HasRoleID, HasSecret, HasSvc,
      HasOIDC, PhaseInv, TypeOK, Onward
<1>10. CASE NotConverged
  BY <1>10 DEF NotConverged, Error, Leave, Loop, HasPolicies, HasRole, HasRoleID, HasSecret,
      HasSvc, HasOIDC, PhaseInv, TypeOK, Onward
<1>11. CASE EnsureBaoEngines
  BY <1>11 DEF EnsureBaoEngines, Bao, Loop, HasPolicies, HasRole, HasRoleID, HasSecret,
      HasSvc, HasOIDC, PhaseInv, TypeOK, Onward
<1>12. CASE WriteOpenBao
  BY <1>12 DEF WriteOpenBao, Return, Leave, Event, Loop, HasPolicies, HasRole, HasRoleID,
      HasSecret, HasSvc, HasOIDC, PhaseInv, TypeOK, Onward
<1>13. CASE RefreshOperatorPolicy
  BY <1>13 DEF RefreshOperatorPolicy, Bao, Loop, HasPolicies, HasRole, HasRoleID, HasSecret,
      HasSvc, HasOIDC, PhaseInv, TypeOK, Onward
<1>14. CASE WritePolicies
  BY <1>14 DEF WritePolicies, Bao, Loop, HasPolicies, HasRole, HasRoleID, HasSecret, HasSvc,
      HasOIDC, PhaseInv, TypeOK, Onward
<1>15. CASE DeleteLegacyPolicy
  BY <1>15 DEF DeleteLegacyPolicy, Bao, Loop, HasPolicies, HasRole, HasRoleID, HasSecret,
      HasSvc, HasOIDC, PhaseInv, TypeOK, Onward
<1>16. CASE WriteAppRole
  BY <1>16 DEF WriteAppRole, Bao, Loop, HasPolicies, HasRole, HasRoleID, HasSecret, HasSvc,
      HasOIDC, PhaseInv, TypeOK, Onward
<1>17. CASE StoreRoleID
  BY <1>17 DEF StoreRoleID, EnsureString, Event, Loop, HasPolicies, HasRole, HasRoleID,
      HasSecret, HasSvc, HasOIDC, PhaseInv, TypeOK, Onward
<1>18. CASE GetSecretID
  BY <1>18 DEF GetSecretID, Event, Loop, HasPolicies, HasRole, HasRoleID, HasSecret, HasSvc,
      HasOIDC, PhaseInv, TypeOK, Onward
<1>19. CASE MintSecretID
  BY <1>19 DEF MintSecretID, Loop, HasPolicies, HasRole, HasRoleID, HasSecret, HasSvc,
      HasOIDC, PhaseInv, TypeOK, Onward
<1>20. CASE PutSecretID
  BY <1>20 DEF PutSecretID, Loop, HasPolicies, HasRole, HasRoleID, HasSecret, HasSvc,
      HasOIDC, PhaseInv, TypeOK, Onward
<1>21. CASE WriteSvcRole
  BY <1>21 DEF WriteSvcRole, Bao, Loop, HasPolicies, HasRole, HasRoleID, HasSecret, HasSvc,
      HasOIDC, PhaseInv, TypeOK, Onward
<1>22. CASE StoreSvcRoleID
  BY <1>22 DEF StoreSvcRoleID, EnsureString, Event, Loop, HasPolicies, HasRole, HasRoleID,
      HasSecret, HasSvc, HasOIDC, PhaseInv, TypeOK, Onward
<1>23. CASE WriteOIDC
  BY <1>23 DEF WriteOIDC, Bao, Loop, HasPolicies, HasRole, HasRoleID, HasSecret, HasSvc,
      HasOIDC, PhaseInv, TypeOK, Onward
<1>24. CASE MirrorTenantSecret
  BY <1>24 DEF MirrorTenantSecret, Return, Leave, Loop, HasPolicies, HasRole, HasRoleID,
      HasSecret, HasSvc, HasOIDC, PhaseInv, TypeOK, Onward
<1>25. CASE OperatorLogin
  BY <1>25 DEF OperatorLogin, Event, Loop, HasPolicies, HasRole, HasRoleID, HasSecret,
      HasSvc, HasOIDC, PhaseInv, TypeOK, Onward
<1>26. CASE SetupRootToken
  BY <1>26 DEF SetupRootToken, GetRoot, Error, Leave, Loop, HasPolicies, HasRole, HasRoleID,
      HasSecret, HasSvc, HasOIDC, PhaseInv, TypeOK, Onward
<1>27. CASE SetupPolicy
  BY <1>27 DEF SetupPolicy, Bao, Loop, HasPolicies, HasRole, HasRoleID, HasSecret, HasSvc,
      HasOIDC, PhaseInv, TypeOK, Onward
<1>28. CASE SetupRole
  BY <1>28 DEF SetupRole, Bao, Loop, HasPolicies, HasRole, HasRoleID, HasSecret, HasSvc,
      HasOIDC, PhaseInv, TypeOK, Onward
<1>29. CASE SetupRoleID
  BY <1>29 DEF SetupRoleID, EnsureString, Event, Loop, HasPolicies, HasRole, HasRoleID,
      HasSecret, HasSvc, HasOIDC, PhaseInv, TypeOK, Onward
<1>30. CASE SetupSecretID
  BY <1>30 DEF SetupSecretID, Put, Loop, HasPolicies, HasRole, HasRoleID, HasSecret, HasSvc,
      HasOIDC, PhaseInv, TypeOK, Onward
<1>31. CASE MintOrRevoke
  BY <1>31 DEF MintOrRevoke, Return, Leave, Loop, HasPolicies, HasRole, HasRoleID,
      HasSecret, HasSvc, HasOIDC, PhaseInv, TypeOK, Onward
<1>32. CASE Refused
  BY <1>32 DEF Refused, Error, Leave, Loop, HasPolicies, HasRole, HasRoleID, HasSecret,
      HasSvc, HasOIDC, PhaseInv, TypeOK, Onward
<1>33. CASE WriteOnePolicy
  BY <1>33 DEF WriteOnePolicy, Error, Leave, Event, Loop, HasPolicies, HasRole, HasRoleID,
      HasSecret, HasSvc, HasOIDC, PhaseInv, TypeOK, Onward
<1>34. CASE LegacyPolicyStays
  BY <1>34 DEF LegacyPolicyStays, Event, Loop, HasPolicies, HasRole, HasRoleID, HasSecret,
      HasSvc, HasOIDC, PhaseInv, TypeOK, Onward
<1>35. CASE Cut
  BY <1>35 DEF Cut, Error, Leave, Event, Loop, HasPolicies, HasRole, HasRoleID, HasSecret,
      HasSvc, HasOIDC, PhaseInv, TypeOK, Onward
<1>36. CASE MembersJoin
  BY <1>36 DEF MembersJoin, Loop, HasPolicies, HasRole, HasRoleID, HasSecret, HasSvc,
      HasOIDC, PhaseInv, TypeOK, Onward
<1>37. CASE Rebuild
  BY <1>37 DEF Rebuild, Event, Loop, HasPolicies, HasRole, HasRoleID, HasSecret, HasSvc,
      HasOIDC, PhaseInv, TypeOK, Onward
<1>38. CASE EditWorkspace
  BY <1>38 DEF EditWorkspace, Event, Loop, HasPolicies, HasRole, HasRoleID, HasSecret,
      HasSvc, HasOIDC, PhaseInv, TypeOK, Onward
<1> QED BY <1>1, <1>2, <1>3, <1>4, <1>5, <1>6, <1>7, <1>8, <1>9, <1>10, <1>11, <1>12, <1>13,
    <1>14, <1>15, <1>16, <1>17, <1>18, <1>19, <1>20, <1>21, <1>22, <1>23, <1>24, <1>25,
    <1>26, <1>27, <1>28, <1>29, <1>30, <1>31, <1>32, <1>33, <1>34, <1>35, <1>36, <1>37,
    <1>38 DEF Next, Step

\* A success is reported once; only members joining leave the report standing.
LEMMA DoneFrame ==
    ASSUME TypeOK, PhaseInv, Next, done' # None, done'.cmd = "apply"
    PROVE  \/ done' = done /\ MembersJoin /\ UNCHANGED roster
           \/ done'.sel = {}
           \/ MirrorTenantSecret /\ pc = "mirror" /\ todo = {cur} /\ done'.sel = sel /\ UNCHANGED roster
<1> DEFINE Told == \/ done' = done /\ MembersJoin /\ UNCHANGED roster
                   \/ done'.sel = {}
                   \/ MirrorTenantSecret /\ pc = "mirror" /\ todo = {cur} /\ done'.sel = sel /\ UNCHANGED roster
<1>1. CASE StartBootstrap
  BY <1>1 DEF StartBootstrap, PhaseInv, Bootstrapping, Issuing, TypeOK
<1>2. ASSUME NEW S \in SUBSET Tenant, StartApply(S) PROVE Told
  BY <1>2 DEF StartApply, PhaseInv, Bootstrapping, Issuing, TypeOK
<1>3. ASSUME NEW t \in Tenant, NEW act \in {"mint", "revoke"}, NEW n \in 1..MaxMints,
             NEW r \in {Role(t), Svc(t)}, StartSecretID(t, r, act, n)
      PROVE  Told
  BY <1>3 DEF StartSecretID, PhaseInv, Bootstrapping, Issuing, TypeOK
<1>4. CASE Status
  BY <1>4 DEF Status, PhaseInv, Bootstrapping, Issuing, TypeOK
<1>5. CASE OperatorInit
  BY <1>5 DEF OperatorInit, PhaseInv, Bootstrapping, Issuing, TypeOK
<1>6. CASE PutRecoveryKeys
  BY <1>6 DEF PutRecoveryKeys, Put, PhaseInv, Bootstrapping, Issuing, TypeOK
<1>7. CASE PutRootToken
  BY <1>7 DEF PutRootToken, Put, PhaseInv, Bootstrapping, Issuing, TypeOK
<1>8. CASE GetRootToken
  BY <1>8 DEF GetRootToken, GetRoot, Error, Leave, PhaseInv, Bootstrapping, Issuing, TypeOK
<1>9. CASE Converged
  BY <1>9 DEF Converged, Bao, PhaseInv, Bootstrapping, Issuing, TypeOK
<1>10. CASE NotConverged
  BY <1>10 DEF NotConverged, Error, Leave, PhaseInv, Bootstrapping, Issuing, TypeOK
<1>11. CASE EnsureBaoEngines
  BY <1>11 DEF EnsureBaoEngines, Bao, PhaseInv, Bootstrapping, Issuing, TypeOK
<1>12. CASE WriteOpenBao
  BY <1>12 DEF WriteOpenBao, Return, Leave, Event, PhaseInv, Bootstrapping, Issuing, TypeOK
<1>13. CASE RefreshOperatorPolicy
  BY <1>13 DEF RefreshOperatorPolicy, Bao, PhaseInv, Bootstrapping, Issuing, TypeOK
<1>14. CASE WritePolicies
  BY <1>14 DEF WritePolicies, Bao, PhaseInv, Bootstrapping, Issuing, TypeOK
<1>15. CASE DeleteLegacyPolicy
  BY <1>15 DEF DeleteLegacyPolicy, Bao, PhaseInv, Bootstrapping, Issuing, TypeOK
<1>16. CASE WriteAppRole
  BY <1>16 DEF WriteAppRole, Bao, PhaseInv, Bootstrapping, Issuing, TypeOK
<1>17. CASE StoreRoleID
  BY <1>17 DEF StoreRoleID, EnsureString, Event, PhaseInv, Bootstrapping, Issuing, TypeOK
<1>18. CASE GetSecretID
  BY <1>18 DEF GetSecretID, Event, PhaseInv, Bootstrapping, Issuing, TypeOK
<1>19. CASE MintSecretID
  BY <1>19 DEF MintSecretID, PhaseInv, Bootstrapping, Issuing, TypeOK
<1>20. CASE PutSecretID
  BY <1>20 DEF PutSecretID, PhaseInv, Bootstrapping, Issuing, TypeOK
<1>21. CASE WriteSvcRole
  BY <1>21 DEF WriteSvcRole, Bao, PhaseInv, Bootstrapping, Issuing, TypeOK
<1>22. CASE StoreSvcRoleID
  BY <1>22 DEF StoreSvcRoleID, EnsureString, Event, PhaseInv, Bootstrapping, Issuing, TypeOK
<1>23. CASE WriteOIDC
  BY <1>23 DEF WriteOIDC, Bao, PhaseInv, Bootstrapping, Issuing, TypeOK
<1>24. CASE MirrorTenantSecret
  BY <1>24 DEF MirrorTenantSecret, Return, Leave, PhaseInv, Bootstrapping, Issuing, TypeOK
<1>25. CASE OperatorLogin
  BY <1>25 DEF OperatorLogin, Event, PhaseInv, Bootstrapping, Issuing, TypeOK
<1>26. CASE SetupRootToken
  BY <1>26 DEF SetupRootToken, GetRoot, Error, Leave, PhaseInv, Bootstrapping, Issuing, TypeOK
<1>27. CASE SetupPolicy
  BY <1>27 DEF SetupPolicy, Bao, PhaseInv, Bootstrapping, Issuing, TypeOK
<1>28. CASE SetupRole
  BY <1>28 DEF SetupRole, Bao, PhaseInv, Bootstrapping, Issuing, TypeOK
<1>29. CASE SetupRoleID
  BY <1>29 DEF SetupRoleID, EnsureString, Event, PhaseInv, Bootstrapping, Issuing, TypeOK
<1>30. CASE SetupSecretID
  BY <1>30 DEF SetupSecretID, Put, PhaseInv, Bootstrapping, Issuing, TypeOK
<1>31. CASE MintOrRevoke
  BY <1>31 DEF MintOrRevoke, Return, Leave, PhaseInv, Bootstrapping, Issuing, TypeOK
<1>32. CASE Refused
  BY <1>32 DEF Refused, Error, Leave, PhaseInv, Bootstrapping, Issuing, TypeOK
<1>33. CASE WriteOnePolicy
  BY <1>33 DEF WriteOnePolicy, Error, Leave, Event, PhaseInv, Bootstrapping, Issuing, TypeOK
<1>34. CASE LegacyPolicyStays
  BY <1>34 DEF LegacyPolicyStays, Event, PhaseInv, Bootstrapping, Issuing, TypeOK
<1>35. CASE Cut
  BY <1>35 DEF Cut, Error, Leave, Event, PhaseInv, Bootstrapping, Issuing, TypeOK
<1>36. CASE MembersJoin
  BY <1>36 DEF MembersJoin, PhaseInv, Bootstrapping, Issuing, TypeOK
<1>37. CASE Rebuild
  BY <1>37 DEF Rebuild, Event, PhaseInv, Bootstrapping, Issuing, TypeOK
<1>38. CASE EditWorkspace
  BY <1>38 DEF EditWorkspace, Event, PhaseInv, Bootstrapping, Issuing, TypeOK
<1> QED BY <1>1, <1>2, <1>3, <1>4, <1>5, <1>6, <1>7, <1>8, <1>9, <1>10, <1>11, <1>12, <1>13,
    <1>14, <1>15, <1>16, <1>17, <1>18, <1>19, <1>20, <1>21, <1>22, <1>23, <1>24, <1>25,
    <1>26, <1>27, <1>28, <1>29, <1>30, <1>31, <1>32, <1>33, <1>34, <1>35, <1>36, <1>37,
    <1>38 DEF Next, Step

\* Every tenant the loop has been at stays provisioned to the end.
LEMMA LoopStep == TypeOK /\ PhaseInv /\ TokenInv /\ StoredInv /\ LoopInv /\ Next => LoopInv'
<1> SUFFICES ASSUME TypeOK, PhaseInv, TokenInv, StoredInv, LoopInv, Next PROVE LoopInv'
  OBVIOUS
<1>1. pc' \in Loop => ~Rebuild
  BY DEF Rebuild, Loop, HasPolicies, HasRole, HasRoleID, HasSecret, HasSvc, HasOIDC
<1>2. MembersJoin \/ RefreshOperatorPolicy \/ MirrorTenantSecret => ~Rebuild
  BY OuterFrame DEF MembersJoin, RefreshOperatorPolicy, Bao, MirrorTenantSecret, Rebuild,
      Event, TypeOK
<1>3. ASSUME roster \subseteq bao.operator, UNCHANGED roster, ~Rebuild
      PROVE  roster' \subseteq bao'.operator
  BY <1>3, OperatorPolicyFields, Frames DEF ClusterFrame
<1>4. ASSUME MirrorTenantSecret, NEW t, t = cur PROVE Provisioned(t)'
  <2>1. pc = "mirror" /\ cur \in Tenant
    BY <1>4, Memory DEF MirrorTenantSecret, Loop, HasPolicies, HasRole, HasRoleID,
        HasSecret, HasSvc, HasOIDC
  <2>2. /\ \A s \in {"admin", "dev"} : bao.policy[Tiered(cur, s)] = s \/ Shadowed(cur, s)
        /\ bao.role[Role(cur)] = Tiered(cur, "dev") /\ cur \in bao.transit
        /\ ssm.roleID[cur] # None /\ ssm.secretID[cur] # None
        /\ bao.role[Svc(cur)] = Svc(cur) /\ bao.policy[Svc(cur)] = "svc" /\ cur \in bao.oidc
    BY <2>1 DEF LoopInv, Loop, HasPolicies, HasRole, HasRoleID, HasSecret, HasSvc, HasOIDC
  <2>3. /\ Kept({"kv"}) /\ ssm' = ssm
        /\ bao'.kv[cur] = IF bao.kv[cur] = None THEN hosts ELSE bao.kv[cur]
    BY <1>4, <2>1, StateTypes, MirrorFields DEF MirrorTenantSecret, TypeOK
  <2>4. bao'.kv[cur] # None
    BY <2>3, NoneAssumption DEF TypeOK
  <2>5. /\ bao'.role = bao.role /\ bao'.policy = bao.policy
        /\ bao'.oidc = bao.oidc /\ bao'.transit = bao.transit
    BY <2>3 DEF Kept
  <2> QED BY <1>4, <2>2, <2>3, <2>4, <2>5 DEF Provisioned, Shadowed
<1>5. ASSUME pc' \in Loop
      PROVE  roster' \subseteq bao'.operator /\ \A t \in sel' \ todo' : Provisioned(t)'
  <2>1. sel \subseteq Tenant /\ ~Rebuild
    BY <1>1, <1>5 DEF TypeOK
  <2>2. CASE Onward /\ UNCHANGED <<roster, gen>>
    <3>1. pc \in Loop /\ sel' = sel /\ todo' = todo
      BY <1>5, <2>2 DEF Onward, WritePolicies, Bao, Loop, HasPolicies, HasRole, HasRoleID,
          HasSecret, HasSvc, HasOIDC
    <3>2. roster \subseteq bao.operator /\ \A t \in sel \ todo : Provisioned(t)
      BY <3>1 DEF LoopInv
    <3> QED BY <1>3, <2>1, <2>2, <3>1, <3>2, ProvisionedStep
  <2>3. CASE RefreshOperatorPolicy /\ pc' = "policies" /\ UNCHANGED <<todo, sel, roster, gen>>
    <3>1. todo = sel
      BY <2>3 DEF RefreshOperatorPolicy, Bao, PhaseInv
    <3> QED BY <2>3, <3>1, OperatorPolicyFields
  <2>4. CASE /\ pc = "mirror" /\ MirrorTenantSecret /\ pc' = "policies"
             /\ sel' = sel /\ todo' = todo \ {cur} /\ UNCHANGED <<roster, gen>>
    <3>1. roster \subseteq bao.operator /\ \A t \in sel \ todo : Provisioned(t)
      BY <2>4 DEF LoopInv, Loop, HasPolicies, HasRole, HasRoleID, HasSecret, HasSvc, HasOIDC
    <3>2. ASSUME NEW t \in sel' \ todo' PROVE Provisioned(t)'
      BY <1>4, <2>1, <2>4, <3>1, ProvisionedStep
    <3> QED BY <1>3, <2>1, <2>4, <3>1, <3>2
  <2> QED BY <1>5, <2>2, <2>3, <2>4, TurnFrame
<1>6. ASSUME pc' \in HasPolicies
      PROVE  /\ cur' = cur /\ cur \in Tenant /\ Onward /\ ~Rebuild
             /\ \A s \in {"admin", "dev"} : bao'.policy[Tiered(cur, s)] = s \/ Shadowed(cur, s)
  <2>1. Onward /\ pc \in Loop /\ cur' = cur /\ ~Rebuild
    BY <1>1, <1>6, TurnFrame DEF Onward, WritePolicies, Bao, Loop, HasPolicies, HasRole,
        HasRoleID, HasSecret, HasSvc, HasOIDC
  <2>2. cur \in Tenant
    BY <2>1, Memory
  <2>3. CASE pc \in HasPolicies
    <3>1. \A s \in {"admin", "dev"} : bao.policy[Tiered(cur, s)] = s \/ Shadowed(cur, s)
      BY <2>3 DEF LoopInv
    <3> QED BY <2>1, <2>2, <3>1, PolicyStep
  <2>4. CASE WritePolicies
    <3>1. bao' = WithPolicies(cur, {"admin", "dev"})
      BY <2>4 DEF WritePolicies, Bao
    <3>2. \A s \in {"admin", "dev"} : bao'.policy[Tiered(cur, s)] = s
      BY <2>2, <3>1, StateTypes, WithPoliciesFields
    <3> QED BY <2>1, <2>2, <3>2
  <2> QED BY <1>6, <2>1, <2>3, <2>4 DEF Onward, Loop, HasPolicies, HasRole, HasRoleID,
      HasSecret, HasSvc, HasOIDC
<1>7. ASSUME pc' \in HasRole
      PROVE  bao'.role[Role(cur)] = Tiered(cur, "dev") /\ cur \in bao'.transit
  <2>1. Onward /\ cur \in Tenant /\ ~Rebuild
    BY <1>6, <1>7 DEF HasPolicies
  <2>2. CASE pc \in HasRole
    BY <2>1, <2>2, RoleStep, RestStep DEF LoopInv
  <2>3. CASE WriteAppRole
    <3>1. /\ bao'.role = [bao.role EXCEPT ![Role(cur)] = Tiered(cur, "dev")]
          /\ bao'.transit = bao.transit \cup {cur}
      BY <2>1, <2>3, StateTypes, AppRoleFields
    <3> QED BY <2>1, <3>1, NameTypes DEF TypeOK
  <2> QED BY <1>7, <2>1, <2>2, <2>3 DEF Onward, Loop, HasPolicies, HasRole, HasRoleID,
      HasSecret, HasSvc, HasOIDC
<1>8. ASSUME pc' \in HasRoleID PROVE ssm'.roleID[cur] # None
  <2>1. Onward /\ cur \in Tenant /\ ~Rebuild
    BY <1>6, <1>8 DEF HasPolicies, HasRole
  <2>2. CASE pc \in HasRoleID
    BY <2>1, <2>2, RestStep DEF LoopInv
  <2>3. CASE StoreRoleID
    BY <2>1, <2>3, StateTypes, RoleIDParameter DEF TypeOK
  <2> QED BY <1>8, <2>1, <2>2, <2>3 DEF Onward, Loop, HasPolicies, HasRole, HasRoleID,
      HasSecret, HasSvc, HasOIDC
<1>9. ASSUME pc' \in HasSecret PROVE ssm'.secretID[cur] # None
  <2>1. Onward /\ cur \in Tenant /\ ~Rebuild
    BY <1>6, <1>9 DEF HasPolicies, HasRole, HasRoleID
  <2>2. CASE pc \in HasSecret
    BY <2>1, <2>2, RestStep DEF LoopInv
  <2>3. CASE PutSecretID
    <3>1. new \in SecretID /\ ssm.secretID \in [Tenant -> SecretID \cup {None}]
      BY <2>3 DEF PutSecretID, StoredInv, TypeOK
    <3>2. ssm'.secretID = [ssm.secretID EXCEPT ![cur] = new] /\ new # None
      BY <2>1, <2>3, <3>1, StateTypes, SecretIDParameter
    <3> QED BY <2>1, <3>1, <3>2
  <2>4. CASE ssm.secretID[cur] # None
    BY <2>1, <2>4, RestStep
  <2> QED BY <1>9, <2>1, <2>2, <2>3, <2>4 DEF Onward, Loop, HasPolicies, HasRole, HasRoleID,
      HasSecret, HasSvc, HasOIDC
<1>10. ASSUME pc' \in HasSvc PROVE bao'.role[Svc(cur)] = Svc(cur) /\ bao'.policy[Svc(cur)] = "svc"
  <2>1. Onward /\ cur \in Tenant /\ ~Rebuild
    BY <1>6, <1>10 DEF HasPolicies, HasRole, HasRoleID, HasSecret
  <2>2. CASE pc \in HasSvc
    BY <2>1, <2>2, RoleStep, SvcPolicyStep DEF LoopInv
  <2>3. CASE WriteSvcRole
    <3>1. /\ bao'.role = [bao.role EXCEPT ![Svc(cur)] = Svc(cur)]
          /\ bao'.policy = [bao.policy EXCEPT ![Svc(cur)] = "svc"]
      BY <2>1, <2>3, StateTypes, SvcRoleFields
    <3> QED BY <2>1, <3>1, NameTypes DEF TypeOK
  <2> QED BY <1>10, <2>1, <2>2, <2>3 DEF Onward, Loop, HasPolicies, HasRole, HasRoleID,
      HasSecret, HasSvc, HasOIDC
<1>11. ASSUME pc' \in HasOIDC PROVE cur \in bao'.oidc
  <2>1. Onward /\ cur \in Tenant /\ ~Rebuild
    BY <1>6, <1>11 DEF HasPolicies, HasRole, HasRoleID, HasSecret, HasSvc
  <2>2. CASE pc \in HasOIDC
    BY <2>1, <2>2, RestStep DEF LoopInv
  <2>3. CASE WriteOIDC
    BY <2>1, <2>3, StateTypes, OIDCFields
  <2> QED BY <1>11, <2>1, <2>2, <2>3 DEF Onward, Loop, HasPolicies, HasRole, HasRoleID,
      HasSecret, HasSvc, HasOIDC
<1>12. ASSUME done' # None, done'.cmd = "apply"
       PROVE  \A t \in done'.sel : Provisioned(t)' /\ roster' \subseteq bao'.operator
  <2>1. CASE done' = done /\ MembersJoin /\ UNCHANGED roster
    <3>1. done.sel \subseteq Tenant
      BY <1>12, <2>1 DEF TypeOK, Success
    <3>2. \A t \in done.sel : Provisioned(t) /\ roster \subseteq bao.operator
      BY <1>12, <2>1 DEF LoopInv, Reported
    <3> QED BY <1>2, <1>3, <2>1, <3>1, <3>2, ProvisionedStep
  <2>2. CASE done'.sel = {}
    BY <2>2
  <2>3. CASE MirrorTenantSecret /\ pc = "mirror" /\ todo = {cur} /\ done'.sel = sel /\ UNCHANGED roster
    <3>1. roster \subseteq bao.operator /\ \A t \in sel \ todo : Provisioned(t)
      BY <2>3 DEF LoopInv, Loop, HasPolicies, HasRole, HasRoleID, HasSecret, HasSvc, HasOIDC
    <3>2. sel \subseteq Tenant
      BY DEF TypeOK
    <3> QED BY <1>2, <1>3, <1>4, <2>3, <3>1, <3>2, ProvisionedStep
  <2> QED BY <1>12, <2>1, <2>2, <2>3, DoneFrame
<1>13. pc' \in HasPolicies \cup HasRole \cup HasRoleID \cup HasSecret \cup HasSvc \cup HasOIDC => cur' = cur
  BY <1>6 DEF HasPolicies, HasRole, HasRoleID, HasSecret, HasSvc, HasOIDC
<1>14. Reported'
  BY <1>12 DEF Reported
<1> QED BY <1>5, <1>6, <1>7, <1>8, <1>9, <1>10, <1>11, <1>13, <1>14 DEF LoopInv, Shadowed

----------------------------------------------------------------------------
LEMMA IInvInit == Init => IInv
<1> SUFFICES ASSUME Init PROVE IInv
  OBVIOUS
<1>1. bao \in BaoState /\ ssm \in SSMState
  BY EmptyFields DEF Init, NoID, SSMState
<1>2. TypeOK
  <2>1. gen \in Cluster /\ events \in 0..MaxEvents
    BY NumbersAssumption DEF Init, Cluster
  <2>2. recorded \in BOOLEAN /\ cutInit \in BOOLEAN
    BY Zenon DEF Init
  <2> QED BY <1>1, <2>1, <2>2 DEF Init, TypeOK, BaoState, SSMState, Phase
<1>3. PhaseInv
  BY DEF Init, PhaseInv, Loop, HasPolicies, HasRole, HasRoleID, HasSecret, HasSvc, HasOIDC,
      Issuing, Bootstrapping
<1>4. ~bao.inited /\ ssm.root = None /\ gen # None
  BY NoneAssumption DEF Init, Empty
<1>5. TokenInv /\ TokenLostOnlyByCut
  BY <1>4 DEF Init, TokenInv, TokenLostOnlyByCut, Storing
<1>6. StoredInv
  BY DEF Init, Empty, NoID, StoredInv
<1>7. LoopInv
  BY DEF Init, LoopInv, Reported, Loop, HasPolicies, HasRole, HasRoleID, HasSecret, HasSvc,
      HasOIDC, Issuing, Bootstrapping
<1> QED BY <1>2, <1>3, <1>5, <1>6, <1>7 DEF IInv

LEMMA IInvStutter == IInv /\ UNCHANGED vars => IInv'
<1> SUFFICES ASSUME IInv, UNCHANGED vars PROVE IInv'
  OBVIOUS
<1>1. TypeOK' /\ PhaseInv'
  BY DEF IInv, TypeOK, PhaseInv, vars
<1>2. TokenInv' /\ TokenLostOnlyByCut' /\ StoredInv'
  BY DEF IInv, TokenInv, TokenLostOnlyByCut, Storing, StoredInv, vars
<1>3. LoopInv'
  BY DEF IInv, LoopInv, Reported, Provisioned, Shadowed, vars
<1> QED BY <1>1, <1>2, <1>3 DEF IInv

LEMMA IInvStep == IInv /\ [Next]_vars => IInv'
BY TypeStep, PhaseStep, TokenStep, StoredStep, LoopStep, IInvStutter DEF IInv

(***************************************************************************)
(* The inductive invariant holds in every behaviour.                       *)
(***************************************************************************)
THEOREM Inductive == Spec => []IInv
BY IInvInit, IInvStep, PTL DEF Spec

(***************************************************************************)
(* Type correctness of the cluster, of SSM and of the command's memory.    *)
(***************************************************************************)
THEOREM TypeCorrect == Spec => []TypeOK
<1>1. IInv => TypeOK
  BY DEF IInv
<1> QED BY <1>1, Inductive, PTL

(***************************************************************************)
(* `openbao bootstrap` loses the root token of a cluster it initialised    *)
(* only if it is cut off between init and storing it, and then for good.   *)
(***************************************************************************)
THEOREM TokenLost == Spec => []TokenLostOnlyByCut
<1>1. IInv => TokenLostOnlyByCut
  BY DEF IInv
<1> QED BY <1>1, Inductive, PTL

\* The ids SSM has of a provisioned tenant log in, unless they are of an earlier cluster
\* or one was revoked.
LEMMA PairWorks ==
    ASSUME TypeOK, StoredInv, NEW t \in Tenant, Provisioned(t)
    PROVE  StoredPairWorks(t) \/ gen > 1 \/ \E n \in 1..bao.minted[t] : <<t, n>> \in bao.revoked
<1> SUFFICES ASSUME ~(gen > 1), ~\E n \in 1..bao.minted[t] : <<t, n>> \in bao.revoked
             PROVE  StoredPairWorks(t)
  OBVIOUS
<1>1. gen = 1
  BY DEF TypeOK, Cluster
<1>2. ssm.roleID[t] = [gen |-> gen, role |-> Role(t)]
  <2>1. ssm.roleID[t] \in ID
    BY DEF TypeOK, Provisioned
  <2>2. ssm.roleID[t].role = Role(t) /\ ssm.roleID[t].gen <= gen
    BY DEF StoredInv, Provisioned
  <2>3. ssm.roleID[t].gen = gen
    BY <1>1, <2>1, <2>2 DEF ID, Cluster
  <2> QED BY <2>1, <2>2, <2>3 DEF ID
<1>3. \E n \in 1..bao.minted[t] : ssm.secretID[t] = [gen |-> gen, tenant |-> t, n |-> n]
  <2>1. ssm.secretID[t] \in SecretID
    BY DEF TypeOK, Provisioned
  <2>2. /\ ssm.secretID[t].tenant = t /\ ssm.secretID[t].gen <= gen
        /\ ssm.secretID[t].gen = gen => ssm.secretID[t].n <= bao.minted[t]
    BY DEF StoredInv, Provisioned
  <2>3. ssm.secretID[t].gen = gen
    BY <1>1, <2>1, <2>2 DEF SecretID, Cluster
  <2>4. ssm.secretID[t].n \in 1..bao.minted[t]
    BY <2>1, <2>2, <2>3 DEF SecretID, TypeOK
  <2>5. ssm.secretID[t] = [gen |-> gen, tenant |-> t, n |-> ssm.secretID[t].n]
    BY <2>1, <2>2, <2>3 DEF SecretID
  <2> QED BY <2>4, <2>5
<1>4. bao.role[Role(t)] # None
  BY NameTypes, NoneAssumption DEF Provisioned
<1> QED BY <1>2, <1>3, <1>4 DEF StoredPairWorks

\* A provisioned tenant has its tiers.
LEMMA TiersStand ==
    ASSUME TypeOK, NEW t \in Tenant, Provisioned(t)
    PROVE  TiersInPlace(t)
<1>1. Tiered(t, "dev") # None /\ Svc(t) # None /\ "dev" # None /\ "svc" # None
  BY NameTypes, NoneAssumption DEF Tier
<1>2. Access(Role(t)) = Grants["dev"] \/ Shadowed(t, "dev")
  BY <1>1 DEF Provisioned, Access
<1>3. Access(Svc(t)) = Grants["svc"]
  BY <1>1 DEF Provisioned, Access
<1> QED BY <1>2, <1>3 DEF Provisioned, TiersInPlace

(***************************************************************************)
(* A tenant apply that reported success left every tenant it was called    *)
(* for with its tiers, its key, its mirror and ids in SSM that log in,     *)
(* and mksrv-operator serving the whole workspace.                         *)
(***************************************************************************)
THEOREM ProvisionedAfterApply == Spec => []OkMeansProvisioned
<1>1. IInv => OkMeansProvisioned
  <2> SUFFICES ASSUME IInv, done # None, done.cmd = "apply", NEW t \in done.sel
               PROVE  /\ TiersInPlace(t)
                      /\ roster \subseteq bao.operator
                      /\ bao.kv[t] # None
                      /\ bao.kv[t] = hosts \/ hosts > 0
                      /\ StoredPairWorks(t) \/ gen > 1
                         \/ \E n \in 1..bao.minted[t] : <<t, n>> \in bao.revoked
    BY DEF OkMeansProvisioned
  <2>1. TypeOK /\ StoredInv /\ t \in Tenant
    BY DEF IInv, TypeOK, Success
  <2>2. Provisioned(t) /\ roster \subseteq bao.operator
    BY DEF IInv, LoopInv, Reported
  <2>3. bao.kv[t] # None
    BY <2>2 DEF Provisioned
  <2>4. bao.kv[t] = hosts \/ hosts > 0
    <3>1. bao.kv[t] \in Nat /\ hosts \in Nat /\ bao.kv[t] <= hosts
      BY <2>1, <2>3 DEF TypeOK, StoredInv
    <3> QED BY <3>1
  <2>5. TiersInPlace(t)
    BY <2>1, <2>2, TiersStand
  <2> QED BY <2>1, <2>2, <2>3, <2>4, <2>5, PairWorks
<1> QED BY <1>1, Inductive, PTL
=============================================================================
