------------------------------ MODULE OpenBao ------------------------------
(***************************************************************************)
(* The secrets cluster OpenBao as mksrv operates it: `openbao bootstrap`   *)
(* (internal/cli/openbao.go), the OpenBao part of `tenant apply`           *)
(* (internal/cli/openbao_tenant.go) and `tenant secret-id`                 *)
(* (internal/cli/tenant_secretid.go).                                      *)
(*                                                                         *)
(* What mksrv knows about the cluster lives in SSM and in openbao.json,    *)
(* both of which outlive the cluster: it may be rebuilt empty, a command   *)
(* may be cut off anywhere, and a read of SSM may fail.  A cluster is      *)
(* identified by its number, and so are its root token and all its ids.    *)
(*                                                                         *)
(* Simplifications.                                                        *)
(*  - One operator at a time, who names a tenant once.  Any member         *)
(*    forwards a request to the leader: which is recorded does not matter. *)
(*  - A tenant id is the sequence of its hyphen-separated parts, so that   *)
(*    building a name from it is appending to a sequence.                  *)
(*  - A tenant that consumes openbao also consumes database; the mirror of *)
(*    its cache secret is written the same way and left out.               *)
(*  - `openbao status` and `tenant secret-id --list` only read.            *)
(***************************************************************************)
EXTENDS Naturals, Sequences

CONSTANTS
    Tenant,    \* the ids of all possible tenants
    None,      \* nothing there
    MaxEvents, \* bound: commands cut off, failed reads of SSM, edits, rebuilt clusters
    MaxMints   \* bound: SecretIDs handed out from one AppRole

ASSUME TenantAssumption == Tenant \subseteq Seq(STRING)
ASSUME NumbersAssumption == MaxEvents \in Nat /\ MaxMints \in Nat

Cluster == 1..(MaxEvents + 1)
Engine  == {"kv", "approle", "transit"}
Tier    == {"admin", "dev", "svc"}

\* Names of AppRoles and policies.
Role(t)      == <<"tenant">> \o t
Svc(t)       == <<"svc">> \o t
Tiered(t, s) == Append(Role(t), s)
RoleName     == {Role(t) : t \in Tenant} \cup {Svc(t) : t \in Tenant}
PolicyName   == RoleName \cup {Tiered(t, s) : t \in Tenant, s \in {"admin", "dev"}}

\* What the policy of each tier allows on the tenant's own paths.
Grants == [
    admin |-> ({"data", "data/dev"} \X {"create", "read", "update", "delete", "list"})
              \cup ({"metadata", "metadata/dev"} \X {"read", "list", "delete"})
              \cup ({"kv delete", "kv undelete", "kv destroy", "encrypt", "decrypt", "rewrap",
                     "hmac", "datakey", "rotate", "key config"} \X {"update"})
              \cup ({"key"} \X {"read", "list"}),
    dev   |-> ({"data"} \X {"read", "list"})
              \cup ({"data/dev"} \X {"create", "read", "update", "delete", "list"})
              \cup ({"metadata"} \X {"read", "list"})
              \cup ({"metadata/dev"} \X {"read", "list", "delete"})
              \cup ({"encrypt", "decrypt", "hmac", "datakey"} \X {"update"})
              \cup ({"key"} \X {"read"}),
    svc   |-> {"encrypt", "decrypt", "hmac", "datakey"} \X {"update"}]

VARIABLES
    roster,    \* the tenants that consume openbao, in the workspace
    hosts,     \* the version of the database's host list
    gen,       \* the cluster that exists now
    bao,       \* what is in it
    ssm,       \* the parameters under /mksrv/{env}/openbao
    recorded,  \* openbao.json names a leader
    \* the current command
    pc,
    cmd,
    held,      \* the token it holds, as the cluster that issued it
    sel,       \* the tenants it was called for
    todo,      \* those it still has to go through
    cur,       \* the one it is at
    req,       \* what `tenant secret-id` was asked for
    new,       \* the SecretID it has minted and not stored
    \* history and bounds
    cutInit,   \* a bootstrap was cut off between init and storing the root token
    done,      \* the last command that reported success, if nothing happened since
    events

outer == <<roster, hosts, gen, recorded, cutInit>>
local == <<cmd, held, sel, todo, cur, req, new>>
vars  == <<outer, bao, ssm, pc, local, done, events>>

Phase == {"idle", "status", "init", "keys", "putRoot", "getRoot", "converge", "engines", "record",
          "operator", "policies", "legacy", "approle", "roleID", "getSecretID", "mint",
          "putSecretID", "svcRole", "svcRoleID", "oidc", "mirror",
          "login", "setupRoot", "setupPolicy", "setupRole", "setupRoleID", "setupSecretID", "act"}

Command  == {"bootstrap", "apply", "secret-id"}
ID       == [gen : Cluster, role : RoleName]
SecretID == [gen : Cluster, tenant : Tenant, n : Nat \ {0}]
Request  == [role : RoleName, act : {"mint", "revoke"}, n : Nat]
Success  == [cmd : Command, sel : SUBSET Tenant]

ASSUME NoneAssumption ==
    None \notin Nat \cup Tier \cup PolicyName \cup ID \cup SecretID \cup Success

(***************************************************************************)
(* Type correctness.                                                       *)
(***************************************************************************)
TypeOK ==
    /\ roster \subseteq Tenant
    /\ hosts \in Nat
    /\ gen \in Cluster
    /\ bao \in [inited : BOOLEAN, whole : BOOLEAN, engines : SUBSET Engine,
                policy : [PolicyName -> Tier \cup {None}], role : [RoleName -> PolicyName \cup {None}],
                minted : [Tenant -> Nat], revoked : SUBSET (Tenant \X Nat),
                operator : SUBSET Tenant, operatorRole : BOOLEAN,
                transit : SUBSET Tenant, oidc : SUBSET Tenant, kv : [Tenant -> Nat \cup {None}]]
    /\ ssm \in [keys : Cluster \cup {None}, root : Cluster \cup {None},
                roleID : [Tenant -> ID \cup {None}], secretID : [Tenant -> SecretID \cup {None}],
                svcRoleID : [Tenant -> ID \cup {None}],
                opRoleID : Cluster \cup {None}, opSecretID : Cluster \cup {None}]
    /\ recorded \in BOOLEAN
    /\ pc \in Phase
    /\ cmd \in Command \cup {None}
    /\ held \in Cluster \cup {None}
    /\ sel \subseteq Tenant
    /\ todo \subseteq Tenant /\ cur \in Tenant \cup {None}
    /\ req \in Request \cup {None}
    /\ new \in SecretID \cup {None}
    /\ cutInit \in BOOLEAN
    /\ done \in Success \cup {None}
    /\ events \in 0..MaxEvents

----------------------------------------------------------------------------
Empty == [inited |-> FALSE, whole |-> FALSE, engines |-> {},
          policy |-> [p \in PolicyName |-> None], role |-> [r \in RoleName |-> None],
          minted |-> [t \in Tenant |-> 0], revoked |-> {},
          operator |-> {}, operatorRole |-> FALSE,
          transit |-> {}, oidc |-> {}, kv |-> [t \in Tenant |-> None]]

NoID == [t \in Tenant |-> None]

Init ==
    /\ roster \in SUBSET Tenant
    /\ hosts = 0
    /\ gen = 1
    /\ bao = Empty
    /\ ssm = [keys |-> None, root |-> None, roleID |-> NoID, secretID |-> NoID, svcRoleID |-> NoID,
              opRoleID |-> None, opSecretID |-> None]
    /\ recorded = FALSE
    /\ pc = "idle"
    /\ cmd = None /\ held = None /\ sel = {} /\ todo = {} /\ cur = None /\ req = None /\ new = None
    /\ cutInit = FALSE
    /\ done = None
    /\ events = 0

Event == events < MaxEvents /\ events' = events + 1

\* The command is over and what it held in memory is gone.
Leave == /\ pc' = "idle" /\ cmd' = None /\ held' = None /\ sel' = {} /\ todo' = {}
         /\ cur' = None /\ req' = None /\ new' = None

Return == Leave /\ done' = [cmd |-> cmd, sel |-> sel]

Error == Leave /\ UNCHANGED done

\* A bao command run with the token held works.
Allowed == bao.inited /\ held = gen

\* A bao command that changes the cluster to b.
Bao(phase, next, b) ==
    /\ pc = phase
    /\ Allowed
    /\ bao' = b
    /\ pc' = next
    /\ UNCHANGED <<outer, ssm, local, done, events>>

\* resolver.Put.
Put(phase, next, s) ==
    /\ pc = phase
    /\ ssm' = s
    /\ pc' = next
    /\ UNCHANGED <<outer, bao, local, done, events>>

\* resolver.EnsureString keeps a parameter it can read and overwrites one it cannot.
EnsureString(phase, next, current, s) ==
    /\ pc = phase
    /\ \/ current # None /\ UNCHANGED <<ssm, events>>
       \/ current = None /\ ssm' = s /\ UNCHANGED events
       \/ current # None /\ ssm' = s /\ Event
    /\ pc' = next
    /\ UNCHANGED <<outer, bao, local, done>>

\* The root token is read from SSM.
GetRoot(phase, next) ==
    /\ pc = phase
    /\ IF ssm.root = None
       THEN Error
       ELSE held' = ssm.root /\ pc' = next /\ UNCHANGED <<cmd, sel, todo, cur, req, new, done>>
    /\ UNCHANGED <<outer, bao, ssm, events>>

\* An AppRole is written with the policy it gives to its tokens.
WithRole(r, p) == [bao EXCEPT !.role[r] = p]

\* `bao write -f auth/approle/role/tenant-<id>/secret-id`.
WithMinted(t) == [bao EXCEPT !.minted[t] = @ + 1]

Minted(t) == [gen |-> gen, tenant |-> t, n |-> bao.minted[t] + 1]

----------------------------------------------------------------------------
(* openbao bootstrap                                                       *)

StartBootstrap ==
    /\ pc = "idle"
    /\ pc' = "status"
    /\ cmd' = "bootstrap"
    /\ done' = None
    /\ UNCHANGED <<outer, bao, ssm, held, sel, todo, cur, req, new, events>>

\* Mutant: a bootstrap that is repeated tries to initialise again.
Status_AlwaysInit ==
    /\ pc = "status"
    /\ pc' = "init"
    /\ UNCHANGED <<outer, bao, ssm, local, done, events>>

\* waitForBaoServer: the status of the first member.
Status ==
    /\ pc = "status"
    /\ pc' = IF bao.inited THEN "getRoot" ELSE "init"
    /\ UNCHANGED <<outer, bao, ssm, local, done, events>>

\* operator init unseals the first member; keys and token are in its output only.
OperatorInit ==
    /\ pc = "init"
    /\ ~bao.inited
    /\ bao' = [bao EXCEPT !.inited = TRUE]
    /\ held' = gen
    /\ pc' = "keys"
    /\ UNCHANGED <<outer, ssm, cmd, sel, todo, cur, req, new, done, events>>

\* Mutant: the root token is taken to be stored with the recovery keys.
PutRecoveryKeys_Only == Put("keys", "getRoot", [ssm EXCEPT !.keys = held])

PutRecoveryKeys == Put("keys", "putRoot", [ssm EXCEPT !.keys = held])

PutRootToken == Put("putRoot", "getRoot", [ssm EXCEPT !.root = held])

GetRootToken == GetRoot("getRoot", "converge")

\* waitForBaoUnsealed and readBaoRaft: every member unsealed, one leader, all voters.
Converged == bao.whole /\ Bao("converge", "engines", bao)

NotConverged ==
    /\ pc = "converge"
    /\ ~Allowed \/ ~bao.whole
    /\ Error
    /\ UNCHANGED <<outer, bao, ssm, events>>

\* ensureBaoEngines enables what is not mounted, kv first, then approle, then transit.
MissingEngine ==
    IF "kv" \notin bao.engines THEN "kv" ELSE IF "approle" \notin bao.engines THEN "approle" ELSE "transit"

EnsureBaoEngines ==
    \/ Engine \subseteq bao.engines /\ Bao("engines", "record", bao)
    \/ /\ ~(Engine \subseteq bao.engines)
       /\ Bao("engines", "engines", [bao EXCEPT !.engines = @ \cup {MissingEngine}])

\* writeOpenBao; a failure to write the file is only a warning.
WriteOpenBao ==
    /\ pc = "record"
    /\ \/ recorded' = TRUE /\ UNCHANGED events
       \/ Event /\ UNCHANGED recorded
    /\ Return
    /\ UNCHANGED <<roster, hosts, gen, bao, ssm, cutInit>>

----------------------------------------------------------------------------
(* tenant apply: provisionOpenBaoTenants                                   *)

\* Without a recorded leader the stage is skipped with a warning.
StartApply(S) ==
    /\ pc = "idle"
    /\ S \subseteq roster
    /\ S # {}
    /\ \/ /\ ~recorded
          /\ done' = [cmd |-> "apply", sel |-> {}]
          /\ UNCHANGED <<pc, local>>
       \/ /\ recorded
          /\ ssm.root # None
          /\ cmd' = "apply"
          /\ held' = ssm.root
          /\ sel' = S
          /\ todo' = S
          /\ cur' \in S
          /\ pc' = "operator"
          /\ done' = None
          /\ UNCHANGED <<req, new>>
    /\ UNCHANGED <<outer, bao, ssm, events>>

\* Mutant: only the tenants the command was called for.
OperatorPolicy_Selected == [bao EXCEPT !.operator = sel]

\* operatorAppRolePolicyHCL has a block for every consumer in the workspace.
OperatorPolicy == [bao EXCEPT !.operator = roster]

RefreshOperatorPolicy == Bao("operator", "policies", OperatorPolicy)

\* The policies of tiers S of tenant t are written.
WithPolicies(t, S) ==
    [bao EXCEPT !.policy = [p \in PolicyName |->
        IF \E s \in S : p = Tiered(t, s) THEN CHOOSE s \in S : p = Tiered(t, s) ELSE @[p]]]

WritePolicies == Bao("policies", "legacy", WithPolicies(cur, {"admin", "dev"}))

\* The two are written in the order of a Go map: either may be alone when a run is cut off.
WriteOnePolicy ==
    /\ pc = "policies"
    /\ Allowed
    /\ Event
    /\ \E s \in {"admin", "dev"} : bao' = WithPolicies(cur, {s})
    /\ Error
    /\ UNCHANGED <<outer, ssm>>

\* Best effort: the policy from before the tiers, named like the AppRole, is deleted.
DeleteLegacyPolicy == Bao("legacy", "approle", [bao EXCEPT !.policy[Role(cur)] = None])

\* The error of the deletion is ignored.
LegacyPolicyStays ==
    /\ pc = "legacy"
    /\ Event
    /\ pc' = "approle"
    /\ UNCHANGED <<outer, bao, ssm, local, done>>

\* The AppRole for services, then the key for PII columns.
WriteAppRole ==
    /\ {"approle", "transit"} \subseteq bao.engines
    /\ Bao("approle", "roleID", [WithRole(Role(cur), Tiered(cur, "dev"))
                                    EXCEPT !.transit = @ \cup {cur}])

StoreRoleID ==
    LET t == cur
    IN  /\ Allowed
        /\ EnsureString("roleID", "getSecretID", ssm.roleID[t],
                        [ssm EXCEPT !.roleID[t] = [gen |-> gen, role |-> Role(t)]])

\* Any error of Get, not only "not found", leads to a new SecretID.
GetSecretID ==
    /\ pc = "getSecretID"
    /\ LET stored == ssm.secretID[cur]
       IN  \/ stored # None /\ pc' = "svcRole" /\ UNCHANGED events
           \/ stored = None /\ pc' = "mint" /\ UNCHANGED events
           \/ stored # None /\ pc' = "mint" /\ Event
    /\ UNCHANGED <<outer, bao, ssm, local, done>>

MintSecretID ==
    /\ pc = "mint"
    /\ Allowed
    /\ bao' = WithMinted(cur)
    /\ new' = Minted(cur)
    /\ pc' = "putSecretID"
    /\ UNCHANGED <<outer, ssm, cmd, held, sel, todo, cur, req, done, events>>

PutSecretID ==
    /\ pc = "putSecretID"
    /\ ssm' = [ssm EXCEPT !.secretID[cur] = new]
    /\ new' = None
    /\ pc' = "svcRole"
    /\ UNCHANGED <<outer, bao, cmd, held, sel, todo, cur, req, done, events>>

\* The svc tier: a policy and an AppRole of the same name.
WriteSvcRole ==
    /\ "approle" \in bao.engines
    /\ Bao("svcRole", "svcRoleID", [WithRole(Svc(cur), Svc(cur))
                                       EXCEPT !.policy[Svc(cur)] = "svc"])

StoreSvcRoleID ==
    LET t == cur
    IN  /\ Allowed
        /\ EnsureString("svcRoleID", "oidc", ssm.svcRoleID[t],
                        [ssm EXCEPT !.svcRoleID[t] = [gen |-> gen, role |-> Svc(t)]])

\* The realm's client, the mount if it was not listed, its config and its two roles.
WriteOIDC == Bao("oidc", "mirror", [bao EXCEPT !.oidc = @ \cup {cur}])

\* mirrorTenantSecret compares the password, which never changes, and nothing else.
MirrorTenantSecret ==
    /\ pc = "mirror"
    /\ Allowed
    /\ "kv" \in bao.engines
    /\ bao' = [bao EXCEPT !.kv[cur] = IF @ = None THEN hosts ELSE @]
    /\ IF todo = {cur}
       THEN Return
       ELSE /\ todo' = todo \ {cur}
            /\ cur' \in todo \ {cur}
            /\ pc' = "policies"
            /\ UNCHANGED <<cmd, held, sel, req, new, done>>
    /\ UNCHANGED <<outer, ssm, events>>

----------------------------------------------------------------------------
(* tenant secret-id                                                        *)

\* A SecretID is minted, or the n-th one revoked, for one of t's two AppRoles.  Those of
\* svc-<id> are stored nowhere by mksrv and not counted.
StartSecretID(t, r, act, n) ==
    /\ pc = "idle"
    /\ t \in roster
    /\ recorded
    /\ act = "mint" => r = Svc(t) \/ bao.minted[t] < MaxMints
    /\ cmd' = "secret-id"
    /\ sel' = {t}
    /\ cur' = t
    /\ req' = [role |-> r, act |-> act, n |-> n]
    /\ pc' = "login"
    /\ done' = None
    /\ UNCHANGED <<outer, bao, ssm, held, todo, new, events>>

\* The stored pair logs in.
OperatorPairWorks ==
    bao.inited /\ bao.operatorRole /\ ssm.opRoleID = gen /\ ssm.opSecretID = gen

\* operatorBaoToken: log in as mksrv-operator, or else fall back on the root token.
OperatorLogin ==
    /\ pc = "login"
    /\ \/ OperatorPairWorks /\ held' = gen /\ pc' = "act" /\ UNCHANGED events
       \/ ~OperatorPairWorks /\ pc' = "setupRoot" /\ UNCHANGED <<held, events>>
       \/ OperatorPairWorks /\ pc' = "setupRoot" /\ Event /\ UNCHANGED held
    /\ UNCHANGED <<outer, bao, ssm, cmd, sel, todo, cur, req, new, done>>

SetupRootToken == GetRoot("setupRoot", "setupPolicy")

SetupPolicy == Bao("setupPolicy", "setupRole", OperatorPolicy)

\* The AppRole is written, its RoleID read and a SecretID minted.
SetupRole ==
    /\ "approle" \in bao.engines
    /\ Bao("setupRole", "setupRoleID", [bao EXCEPT !.operatorRole = TRUE])

SetupRoleID ==
    EnsureString("setupRoleID", "setupSecretID", ssm.opRoleID, [ssm EXCEPT !.opRoleID = held])

\* It goes on with the ids it has just obtained, whatever SSM holds.
SetupSecretID == Put("setupSecretID", "act", [ssm EXCEPT !.opSecretID = held])

\* The request goes through under mksrv-operator's policy.
Granted ==
    /\ Allowed
    /\ cur \in bao.operator
    /\ bao.role[req.role] # None
    /\ (req.act = "revoke" /\ req.role = Role(cur)) =>
           /\ req.n \in 1..bao.minted[cur]
           /\ <<cur, req.n>> \notin bao.revoked

MintOrRevoke ==
    /\ pc = "act"
    /\ Granted
    /\ bao' = CASE req.role = Svc(cur) -> bao
                [] req.act = "mint" -> WithMinted(cur)
                [] OTHER -> [bao EXCEPT !.revoked = @ \cup {<<cur, req.n>>}]
    /\ Return
    /\ UNCHANGED <<outer, ssm, events>>

----------------------------------------------------------------------------
(* Failures and the world outside                                          *)

\* bao answers with an error and the command ends.
Refused ==
    /\ \/ /\ pc \in {"engines", "operator", "policies", "legacy", "approle", "roleID", "mint",
                     "svcRole", "svcRoleID", "oidc", "mirror", "setupPolicy", "setupRole"}
          /\ ~Allowed
       \/ pc \in {"approle", "svcRole", "setupRole"} /\ "approle" \notin bao.engines
       \/ pc = "approle" /\ "transit" \notin bao.engines
       \/ pc = "mirror" /\ "kv" \notin bao.engines
       \/ pc = "act" /\ ~Granted
    /\ bao' = IF pc = "approle" /\ Allowed /\ "approle" \in bao.engines
              THEN WithRole(Role(cur), Tiered(cur, "dev")) ELSE bao
    /\ Error
    /\ UNCHANGED <<outer, ssm, events>>

\* The only copy of the current cluster's root token is in the command's memory.
Storing == pc \in {"keys", "putRoot"}

\* The command fails, loses its connection or dies between two steps.
Cut ==
    /\ pc # "idle"
    /\ Event
    /\ cutInit' = (cutInit \/ Storing)
    /\ Error
    /\ UNCHANGED <<roster, hosts, gen, recorded, bao, ssm>>

\* KMS has unsealed the other members and they have joined as voters.
MembersJoin ==
    /\ bao.inited
    /\ ~bao.whole
    /\ bao' = [bao EXCEPT !.whole = TRUE]
    /\ UNCHANGED <<outer, ssm, pc, local, done, events>>

\* The operator relaunches the hosts with empty disks.
Rebuild ==
    /\ pc = "idle"
    /\ Event
    /\ gen' = gen + 1
    /\ bao' = Empty
    /\ cutInit' = FALSE
    /\ done' = None
    /\ UNCHANGED <<roster, hosts, recorded, ssm, pc, local>>

\* Tenants begin or cease to consume openbao, or the database gets other hosts.
EditWorkspace ==
    /\ pc = "idle"
    /\ Event
    /\ \/ roster' \in (SUBSET Tenant) \ {roster} /\ UNCHANGED hosts
       \/ hosts' = hosts + 1 /\ UNCHANGED roster
    /\ done' = None
    /\ UNCHANGED <<gen, recorded, cutInit, bao, ssm, pc, local>>

----------------------------------------------------------------------------
Step ==
    \/ Status \/ OperatorInit \/ PutRecoveryKeys \/ PutRootToken \/ GetRootToken
    \/ Converged \/ NotConverged \/ EnsureBaoEngines \/ WriteOpenBao
    \/ RefreshOperatorPolicy \/ WritePolicies \/ DeleteLegacyPolicy \/ WriteAppRole
    \/ StoreRoleID \/ GetSecretID \/ MintSecretID \/ PutSecretID
    \/ WriteSvcRole \/ StoreSvcRoleID \/ WriteOIDC \/ MirrorTenantSecret
    \/ OperatorLogin \/ SetupRootToken \/ SetupPolicy \/ SetupRole \/ SetupRoleID
    \/ SetupSecretID \/ MintOrRevoke
    \/ Refused

Next ==
    \/ StartBootstrap
    \/ \E S \in SUBSET Tenant : StartApply(S)
    \/ \E t \in Tenant, act \in {"mint", "revoke"}, n \in 1..MaxMints :
          \E r \in {Role(t), Svc(t)} : StartSecretID(t, r, act, n)
    \/ Step \/ WriteOnePolicy \/ LegacyPolicyStays \/ Cut \/ MembersJoin \/ Rebuild \/ EditWorkspace

Spec == Init /\ [][Next]_vars

(***************************************************************************)
(* A command goes on by itself, members join by themselves, and the        *)
(* operator runs bootstrap and a full tenant apply again and again.        *)
(***************************************************************************)
FairSpec ==
    /\ Spec
    /\ WF_vars(Step) /\ WF_vars(MembersJoin)
    /\ SF_vars(StartBootstrap) /\ SF_vars(StartApply(roster))

----------------------------------------------------------------------------
\* What a token of AppRole r may do.
Access(r) ==
    LET p == bao.role[r] IN IF p = None \/ bao.policy[p] = None THEN {} ELSE Grants[bao.policy[p]]

\* Another tenant's id is t's with the suffix s, so its legacy policy has the name of t's.
Shadowed(t, s) == Append(t, s) \in Tenant

\* The RoleID and SecretID in SSM log in to t's AppRole.
StoredPairWorks(t) ==
    /\ ssm.roleID[t] = [gen |-> gen, role |-> Role(t)]
    /\ \E n \in 1..bao.minted[t] :
          /\ ssm.secretID[t] = [gen |-> gen, tenant |-> t, n |-> n]
          /\ <<t, n>> \notin bao.revoked
    /\ bao.role[Role(t)] # None

\* t's tiers are in place, except those another tenant's clean-up may have taken.
TiersInPlace(t) ==
    /\ Access(Role(t)) = Grants.dev \/ Shadowed(t, "dev")
    /\ bao.policy[Tiered(t, "admin")] = "admin" \/ Shadowed(t, "admin")
    /\ Access(Svc(t)) = Grants.svc
    /\ t \in bao.oidc \cap bao.transit

(***************************************************************************)
(* A tenant apply that reported success left every tenant it was called    *)
(* for with its tiers, its keys and its mirror, and mksrv-operator able to *)
(* serve every tenant of the workspace, not only those.  The ids in SSM    *)
(* log in unless the cluster was rebuilt or one was revoked; the mirrored  *)
(* hosts are current unless the database has moved.                        *)
(***************************************************************************)
OkMeansProvisioned ==
    (done # None /\ done.cmd = "apply") =>
        \A t \in done.sel :
            /\ TiersInPlace(t)
            /\ roster \subseteq bao.operator
            /\ bao.kv[t] # None
            /\ bao.kv[t] = hosts \/ hosts > 0
            /\ StoredPairWorks(t) \/ gen > 1 \/ \E n \in 1..bao.minted[t] : <<t, n>> \in bao.revoked

(***************************************************************************)
(* The root token of an initialised cluster is missing from SSM exactly    *)
(* while bootstrap is storing it, and for good once a bootstrap was cut    *)
(* off there: no later command brings it back.                             *)
(***************************************************************************)
TokenLostOnlyByCut ==
    (bao.inited /\ ssm.root # gen) <=> (Storing \/ cutInit)

(***************************************************************************)
(* However commands are cut off, refused or run out of order, an operator  *)
(* who repeats bootstrap and tenant apply gets every tenant provisioned,   *)
(* unless the root token is lost.                                          *)
(***************************************************************************)
RetriesProvision == <>[]cutInit \/ []<>(\A t \in roster : TiersInPlace(t))

=============================================================================
