# mksrv in TLA+

mksrv turns a directory of YAML (a *workspace*) into a fleet: it creates the
infrastructure with Terraform, bootstraps the hosts over SSH, deploys container
stacks as Quadlet units, and reconciles the tenants (Keycloak realms, databases,
data APIs, web endpoints, mail, the mesh). One service of its own, the broker
`configd`, runs on the edge and hands VPN clients their configuration.

The command line keeps no database. What an earlier run did is known only from
what it left on the hosts, in SSM and in the services it talks to. Every command
is therefore a *reconciler* that may be cut off anywhere and repeated, and that is
what the modules here are about: **what may a run that reported success be trusted
for, what does an interrupted one leave behind, and does repeating it repair that.**
Nothing keeps two operators from running commands at once either; `ConfigdRollout`,
where they share secrets, has several operators, the other modules one at a time.

- [The system](#the-system) - [Modules](#modules) - [Runs](#runs) -
  [Bounds](#bounds) - [Fairness](#fairness) - [Proofs](#proofs) -
  [Findings](#findings) -
  [What the modules show besides](#what-the-modules-show-besides) - [Not modelled](#not-modelled) - [Plan](#plan)

## The system

| Component | State it keeps | Operations | What makes it correct |
|---|---|---|---|
| **Stack deploy** `internal/deploy/stack.go`, entered from `internal/cli/hosts.go` | nothing of its own; files, podman secrets, systemd units on the host, fragments on the edge | `DeployStack`, `pushSecrets`, `remoteMatches`, `runHooks`, `runHealthCheck` | success means delivered; what is delivered is what runs; a rerun without changes does nothing; retries converge |
| **SSH transport** `internal/ssh` | `known_hosts` | `Run`, `RunInput`, `WriteFileSudo`, `Trust`, `Dial` through a bastion | a file is replaced as a whole or not at all; host keys are pinned once |
| **Fleet commands** `internal/cli/hosts.go`, `internal/deploy/{bootstrap,mesh}.go` | `mesh.json`, `known_hosts` | `runFleetApply`, `deployHost`, `runMesh` | hosts become reachable in an order that works; a failed host does not undo others |
| **Tenant apply** `internal/cli/tenant.go` | none | `runTenantApply`, `reconcileConfigd` | one order of stages, first error ends it; every stage can be repeated |
| **PostgREST** `internal/cli/postgrest.go` | a unit and a vhost per tenant; ports are recomputed from the workspace | `reconcilePostgREST`, `postgrestPort` | container, vhost and forward of a tenant name the same port, and no other tenant's |
| **Broker rollout** `reconcileConfigd` | SSM parameters, Headscale API keys, podman secrets | mint, put, expire, push, restart | the broker runs on live keys; all runs agree on the signing key |
| **Broker** `internal/configd`, `cmd/configd` | JWKS cache per issuer | `GET /v1/clientconfig`, `/healthz` | only fresh keys of the token's own realm are accepted; keys are minted for the token's tenant; every request is answered |
| **Secrets** `internal/secrets` | SSM parameters | `Get`, `Put`, `EnsureString`, `EnsureRandom` | what exists is never regenerated |
| **Headscale control** `internal/headscale` | users, keys, policy | `EnsureUser`, `CreateAPIKey`, `ExpireAPIKeysExcept`, `SetPolicy` | tenants are separated; only current keys live |
| **Web endpoints** `internal/cli/web.go` | fragments, SSO gates and their ports | `provisionTenantWeb` | a vhost belongs to one tenant and reaches that tenant's gate |
| **OpenBao** `internal/cli/openbao*.go`, `tenant_secretid.go` | root token, recovery keys, RoleIDs and SecretIDs in SSM; `openbao.json` | `runOpenBaoBootstrap`, `provisionOpenBaoTenants`, `runTenantSecretID` | the only copy of a key is lost only by a cut; what an apply reports as provisioned is there |
| **Patroni, databases, backups** `internal/cli/{postgres,database,backup}.go` | `postgres.json` | bootstrap, `ensurePrimary`, `provisionDatabases`, `provisionBackup` | writes go to the current primary |
| **Redis** `internal/cli/cache.go` | `users.acl` | `provisionRedis` | generated for all tenants, also in a single-tenant apply; file and server agree |
| **Mail, branding, users** `internal/cli/{mail,mail_hosting,branding,users}.go` | accounts, certificate script and timer, relay secrets, DKIM keys, MTA-STS fragments, login themes | `provisionMail`, `provisionMTASTS`, `provisionTenantBranding`, `runUsersApply` | generated for all tenants; what was written is what the servers have read |
| **Keycloak client** `internal/keycloak` | realms, clients, users | `EnsureRealm`, `EnsureClient`, `EnsureUsers` | create-if-absent, no duplicates |
| **Infrastructure** `internal/{infra,aws,tf}`, `internal/cli/infra.go` | state bucket and lock table, Terraform's state, `outputs.json` | `EnsureBackend`, `runInfraApply`, `runInfraDestroy`, `unlock` | a bucket that exists is configured; the recorded addresses are the hosts' |
| **Engine cache** `internal/engine` | an extracted directory | `Extract` | readers see a whole engine |
| **Workspace, model, rendering, CLI** | none across calls | load, validate, render | pure functions |

How they interact: `mksrv apply` calls Terraform, then `runFleetApply`, which
enters `DeployStack` for every stack of every host; `DeployStack` writes through
the SSH transport to the host and, for Caddy fragments, to the edge. `mksrv
tenant apply` runs the tenant reconcilers in a fixed order and ends in
`reconcilePostgREST` and `reconcileConfigd`; the latter restarts `configd`, which
calls Keycloak and Headscale on behalf of clients. All of them share the edge's
Caddy directory, the podman secrets of a host, SSM and Headscale, without locks.

The hard behaviours are: a run cut off between two commands (every component);
an upload cut short (SSH); errors that are dropped on purpose (`_ , _ = Run`), and failed reads taken for empty files;
decisions taken from what *this* run changed (`quadletChanged`,
`edgeFragmentChanged`, `restartUnits`); numbers recomputed from the whole
workspace (ports); two operators at once (SSM, Headscale keys); concurrent
requests with a shared cache (`configd`). `PROJECT.json` lists them one by one,
each at its line, with the property that would catch it going wrong. For some of them
the code as it is *does* go wrong, and the property names the case as an exception:
the shadowed OpenBao tiers (`openbao_tenant.go:354`), the base host without NAT
(`hosts.go:537`), the bare bucket (`aws.go:187`), the line of `known_hosts` in the way
(`knownhosts.go:137`), the certificate script overwritten before it was run
(`mail_hosting.go:319`), the certificate that cannot be read back (`:345`), the refused
load of Redis (`cache.go:73`) and the failed dump (`backup.go:72`). These are delimited,
not excluded: the property says that nothing *else* leads there.

## Modules

| Module | Models | Composition |
|---|---|---|
| `StackDeploy` | `DeployStack`, `WriteFileSudo`, the part of `deployHost` that enters it | checked by `MCStackDeploy`, proved about in `StackDeployProofs` |
| `Reconciler` | what a deploy promises, without the detail | abstract specification |
| `StackDeployRefinement` | the mapping from `StackDeploy` to `Reconciler` | `EXTENDS StackDeploy`, `INSTANCE Reconciler`; checked by `MCStackDeploy`, the refinement proved in `StackDeployProofs` |
| `PostgREST` | `reconcilePostgREST`, the ports of the roster, the order of tenant apply around them | checked by `MCPostgREST`, proved about in `TenantDataProofs` |
| `TenantWeb` | `provisionTenantWeb`, the file names and ports of endpoints and gates | checked by `MCTenantWeb`, proved about in `TenantWebProofs` |
| `ConfigdRollout` | `reconcileConfigd`, `EnsureString`, `EnsureRandom`, the API keys of Headscale, what the broker reads when it starts | checked by `MCConfigdRollout`, proved about in `BrokerProofs` |
| `Configd` | `clientConfig`, the token verifier and its cache, the Headscale client, with Keycloak and Headscale around them | checked by `MCConfigd`, proved about in `BrokerProofs` |
| `OpenBao` | `runOpenBaoBootstrap`, `provisionOpenBaoTenants`, `runTenantSecretID`, with SSM and the cluster | checked by `MCOpenBao`, proved about in `OpenBaoProofs` |
| `Databases` | `runPostgresBootstrap`, `provisionDatabases`, `provisionRedis`, `provisionBackup`, `runBackup`, with Patroni and Redis | checked by `MCDatabases`, proved about in `TenantDataProofs` |
| `Keycloak` | `EnsureRealm`, `EnsureClient`, `EnsureUsers`, `provisionTenantBranding`, with the console beside them | checked by `MCKeycloak`, proved about in `KeycloakProofs` |
| `Fleet` | `apply`, `host trust`, `bootstrap`, `deploy`, `mesh`, `destroy`, `unlock`, with instances, addresses and host keys | checked by `MCFleet`, proved about in `FleetProofs`; its `DeployHost` is one step, whose inside is `StackDeploy` |
| `Mail` | `provisionMail`, `provisionMTASTS`, the certificate script and its timer | checked by `MCMail`, proved about in `MailProofs` |

### StackDeploy

A file's content lives in three places that the code keeps in step, and the state
keeps them apart: the workspace (`desired`, and `wanted` for the secrets in SSM),
the remote disk (`disk`, `edgeDisk`, `podman`, `marker`), and the process that
read it when it last started (`systemd` after a daemon-reload, `run` and `up` for
containers, `caddy` for the loaded vhosts). `pc`, `i`, `quadletChanged`,
`edgeFragmentChanged` and `edgeConn` are the locals of one call of `DeployStack`.

One action per command the run sends: `pushSecrets`; for each file in
`SortedPaths` order `SkipFile` (already there) or `WriteFileSudo`; `ReloadEdge`;
`DaemonReload`; `RestartUnit` or, when no quadlet changed, `StartUnit`, which
leaves a running unit alone; `runHooks`; `runHealthCheck`; `WriteMarker`. What
can go wrong has actions of its own: `ProbeFails` (`remoteMatches` errs and the
file is written again), `UploadTorn` (the connection drops while the file streams
into `cat`; the remote shell sees end of input and renames what arrived into
place; a right file too, if its probe had failed), `RestartFails`, `StartUnknownUnit`, `HealthCheckFails`, `Abort` (any
command, or the operator), `Reboot`, and `BeginWithoutEdge` (the dial of the edge
failed and `deployHost` went on). `tainted`, `noop` are history: what an
interrupted run owed, and whether a run found everything current.

### PostgREST

Tenants are numbered in the order of their ids. A port is computed again by every
run from the workspace (`kind`), and remembered in five places: the unit file,
the running container, the vhost file, Caddy's loaded configuration, and the
forward in the broker's roster. `Begin` is a tenant apply for all tenants or for
one; `reconcilePostgREST` picks the consumers and those to tear down; the
commands of a teardown drop their errors (`Remove` with the set of commands that
worked); unit and vhost are written tenant by tenant, then all containers are
restarted in order, and a restart fails while another container holds the port.
`reconcileConfigd` is the part of the broker rollout that assigns ports. The loops go
up through the tenants (`Turn`); several ids named in another order than theirs are
not modelled here or in `TenantWeb`, but are in `OpenBao`, `Databases` and `Mail`.

### TenantWeb

The workspace (`mode`), and on the edge the unit files of the gates (`unit`), the
ports their running units are configured for (`gate`), which of them have got
their port (`bound`; the others exit and are started again by systemd, since the
units have `Restart=always` without a limit), the fragment files and what Caddy
has loaded. Ids and hostnames are sequences of labels, because the code finds a
tenant's files by the shell pattern `25-web-<id>-*.caddy`: with tenants `acme` and
`acme-lab` each pattern also finds files of the other. For each tenant a run
keeps, writes or tears down the gate (`KeepUnit`, `WriteUnit`, `NoGate`,
`TearDown` with the commands that worked), removes what it takes for stale
(`RemoveStale`, `ListFails`, `RemoveFails`) and writes the vhost; after the loop
come systemd, the gates this run rewrote, and Caddy. `moved`, `missed` and `owed`
are history: ports were given anew since all tenants were applied; this run
dropped an error; what a failed run has not restarted or reloaded.

### ConfigdRollout

Each operator has a program counter through `reconcileConfigd`, the values it
holds and the API keys it has listed. They share the workspace, SSM, the API keys
Headscale accepts, the podman secrets and the broker. `EnsureString` is two steps
(get, put with overwrite; any error of the get counts as absence) and
`EnsureRandom` two others (only "not found" leads to a put, and the put does not
overwrite, so one of two racing runs gives up). `ExpireAPIKeysExcept` is a list
followed by one step per key. A minted key is one nothing refers to any more
(`NewKey`), which is all that can be told of a random one. The broker (re)starts from whatever secrets are
there. `clean` and `owed` are history: nobody interfered with this run since it
minted its key; the last thing that happened to the API keys was an interference.
Only runs that were `clean` to the end are held to `OkMeansServed`: two overlapping
runs do disable each other's keys and both report success, which
`DeadKeyOnlyAfterInterference` names as one of three causes of a broker that cannot mint.

### Configd

Requests interleave at each call of the handler: the cache lookup under the
mutex, the JWKS fetch, the store into the cache with the time of the *store*, the
user lookup, the mint. Keycloak publishes and withdraws keys, Headscale is
rebuilt (new user ids, no API keys), `tenant apply` expires the API key or
restarts the broker, and time passes. Time is counted in ticks and kept as ages
that stop growing where no guard can tell them apart, so the state is finite
without a bound on time.

### Reconciler and StackDeployRefinement

`Reconciler` is the promise: somebody wants something else, a run starts with a
scope, brings items that are not right to what is wanted, and ends; it ends "ok"
only if every item in its scope is right, and may end by breaking one that is
wanted, right or not. `StackDeployRefinement` maps the files and the secrets of a stack to items;
a Caddy fragment counts where Caddy reads it. A run whose dial of the edge failed
does not have the fragments in its scope: that is what the code does with them,
and the mapping says so. `RestartUnit`, hooks, health checks and reboots stutter.

### OpenBao

The cluster is one record (`bao`: initialised, engines, policies, AppRoles, minted
and revoked SecretIDs, OIDC roles, mirrored secrets) with a number `gen` that a
rebuild increments; SSM (`ssm`) and `openbao.json` outlive it, and every id
carries the number of the cluster it came from. Ids of tenants are sequences of
hyphen-separated parts, because `tenant-<id>-<tier>` is also `tenant-<id'>` when
`id' = id-tier`: the best-effort clean-up of the policy from before the tiers then
deletes the other tenant's tier (`Shadowed`). Bootstrap, the OpenBao stage of
tenant apply and `tenant secret-id` are sequences of one action per call. The tenants a
run was asked for are taken in any order (`todo`, `cur`), as they can be named on
the command line. `Put`
and `EnsureString` may fail or, for the latter, take a failed read for absence.
`cutInit` is history: a bootstrap was cut off between `operator init` and the
second put.

### Databases

`up` and `leader` are the Patroni cluster, `recorded` is `postgres.json`, `conn`
the member the run talks to. A tenant's database is the set of facts its script
has established (`login`, `database`, `open` to everyone's logins until revoked,
`connect`, `schema`, ...), and `tenantDatabaseSQL(t, n)` the first `n` of the
`Statements` that add and delete them: all ten, or fewer when a script is cut off.
`pending` are the tenants whose database is still to be done, in whatever order they
were named. `aclFile` is what is in `users.acl`,
`acl` what Redis has loaded, `env` the environment of the nightly backup.
`LoadRefused` is no error: `redis-cli` without `-e` prints what Redis answered and
exits with 0, so the apply goes on; only a container that does not run ends it
(`RedisDown`). A backup dumps what it can (`Dumped`): a failed `pg_dump` is logged and
the run succeeds without it. A leader that is left without a majority steps down.
Events: a member stops or returns, an election, a switchover, a cut, a torn
upload, a failed dump, a deploy of the cache stack (which writes the seed
`users.acl`), an edit, and the team publishing a table to `mksrv_anon`.

### Keycloak

One realm (`realm`: groups, who manages the team, clients with the version of
their redirect URIs, claim mappers, the role in the token, audience mappers,
users) against one workspace record (`ws`). Each action is one request. `todo` is
what a loop has still to go through: groups and clients in the order of the code
(`Turn`), users in any, since a users file may list them in any; `cur` and `left` are
the user it is at and the groups that one is still to join. Any
request may fail (`Cut`), and any that changes something may take effect and lose
its answer (`Lost`, built from the same effects as the actions); a refusal by
Keycloak (`Refusal`: a group that is gone, a user name that is taken) ends the
command. Beside the commands the tenant's admin edits groups and users in the
console.

### Fleet

The workspace's hosts and revision (`ws`), the bucket and the lock table, what
Terraform has made (`inst`: address and host key per host), what is on each
instance's disk (`disk`: marker, NAT, whose stacks at which revision, mesh node),
and the files that carry one command's result to the next: `outputs`, `known`
(lines of `known_hosts`) and `mesh`. A relaunched instance has a new key and may
get an address another host had. `Trust`, `Bootstrap` and `DeployHost` act on
whatever instance answers at the address in `outputs.json`, if its key is the
pinned one, and private hosts through the base host. `todo` are the hosts a command
has still to go through, and `Precedes` the order it does so in. `strayed`, `lone`,
`bareCut` and `unwritten` are history: a key was enrolled under the wrong name; the
base host was bootstrapped as the only host of the workspace while a bootstrapped
private one was left from before; a run was cut off while it made the bucket; mesh
could not write its file. A deploy is not said to need a way out, though pulling images
does (ADR 0027): a host that was bootstrapped had one, so it matters only where
`lone` says it was lost.

### Mail

`accounts`, `script`, `cert`, `relay`, `dkim`, `txt`, `frag` are what is on disk and in DNS;
`read`, `certRead`, `served` what the mail server and Caddy have read of it. A
generated hash differs in text each time it is made from the same password, so
`SameText` compares as the code does. A torn fragment (`torn`) keeps Caddy from
reloading; its fallback, a restart, then leaves it down. `ids` are the tenants of the
run in the order they were named in, by default all of them by id; `Caught` is what
that order can do to a fragment that a later tenant's pattern also finds.

The run reads accounts, script, certificate and fragments back before it writes them
and drops the error, so each of these reads may fail and give nothing: right accounts
or a right fragment are then written again, an unchanged script is forced, a
certificate that is there is issued (`blank`). The restart is decided by comparing two
reads of the certificate: a failed second one restarts for nothing, and two that gave
nothing compare equal (`CertUnread`). `acme` is what acme.sh itself keeps: without
`--force` it fails for a certificate that is not due (`IssueSkipped`), which is what a
retry meets after the script died between issuing and installing (`IssueCut`). `owed`,
`stale` and `unlisted` are history.

## Runs

States are distinct states; times are with two workers.

| Run | Checks | Shows |
|---|---|---|
| `stack_deploy` (270 k states) | `OkMeansDelivered` | a successful deploy has delivered every file and secret, after any earlier faults, torn uploads included |
| | `RestartedMeansCurrent` | units are restarted after everything they read is in place and systemd has reread it |
| | `StaleOnlyAfterAbort` | a unit that runs from an old definition has one cause: a run cut off between a quadlet write and the restart |
| | `EdgeServesItsFragments` | the same for Caddy and its fragments |
| | `FailsOnlyAfterAbort` | a run without a fault of its own fails only because of an earlier cut-off run, or a health check on a unit that is not rendered |
| | `NoopRunRestartsNothing` | "re-runs idempotent" (`docs/explanation/implementation-status.md`): a run that finds every file current writes none of them and restarts nothing; secrets, hook scripts and marker are written by every run |
| | `StartsWithItsInputs` | a unit that a run starts, however that run ends, reads the secrets and config files of this run, and its own definition unless a restart was owed before |
| | `RetriesDeliverFiles` | repeating the deploy puts every file in place for good, fragments included |
| | `ImplementsReconciler` | `DeployStack` refines `Reconciler`: files and secrets only move towards what is wanted, except the one whose upload tears and ends the run, and success means all in scope are right |
| `postgrest` (215 k) | `TypeOK` | every port lies in the range of the tenants |
| | `OkMeansServed` | after a successful apply each requested tenant's vhost reaches its own container |
| | `OthersDataOnlyAfterFailure` | a vhost reaches another tenant's container only after some run failed |
| | `RetriesSucceedUnlessClash` | retries succeed unless a container keeps a port that now belongs to another tenant |
| `postgrest_forward` | `ForwardReachesContainer` | *violated*: see Findings |
| `configd_rollout` (473 k) | `RolloutTypeOK` | each secret holds a value of its own kind |
| | `OkMeansServed` | after an undisturbed run the broker runs on exactly what the run held and can mint, also after restarts |
| | `DeadKeyOnlyAfterInterference` | a dead API key has one of three causes |
| | `OneSigningKey` | all runs in progress hold the signing key in SSM |
| `tenant_web` (708 k) | `TypeOK` | every port is one of the tenants' range; a gate holds one only while its unit runs |
| | `OkMeansServed` | after a successful apply each requested endpoint is in Caddy and its gate runs on the port the vhost names; an endpoint is lost only if its file name continues the id of a tenant visited later |
| | `BehindOnlyAfterFailure` | gates run from their unit files and Caddy from its directory, unless a run was cut off |
| | `ForeignGateOnlyAfterMove` | a vhost is gated by another tenant only after a tenant was added or removed |
| | `GatesComeUp` | ports are handed over while gates restart one by one, and every gate comes up, unless a removed tenant's gate holds its port |
| `configd` (258 k) | `TypeOK` | types, among them: a user id a request holds is one Headscale may have given out |
| | `NoStaleRefusal` | a token is not refused for an unknown key that was published all along |
| | `AcceptedKeyIsRecent` | a withdrawn key is accepted at most one cache hour and one timeout longer, although a late reply may overwrite a newer one |
| | `MintedForOwnTenant` | the id a key is minted under is that of the token's tenant and of no other: one looked up before Headscale was rebuilt is not used after |
| | `AllAnswered` | every request is answered, or ended by a restart of the broker |
| `openbao` (862 k, 80 s) | `OkMeansProvisioned` | a successful apply left each tenant it was for with its tiers, keys and mirror, and `mksrv-operator` able to serve *every* tenant; the ids in SSM log in unless the cluster was rebuilt or one was revoked |
| | `TokenLostOnlyByCut` | the root token is missing from SSM exactly while bootstrap is storing it, and for good after a cut there |
| | `RetriesProvision` | repeating bootstrap and apply provisions every tenant, unless the token is lost |
| `databases` (315 k, 40 s) | `OkMeansReady` | a successful apply left its databases whole, all cache consumers in Redis, or in its file if Redis refused the load, which takes an earlier torn upload, and the leader in the backup environment unless it moved since |
| | `GapsHaveACause` | a database open to other logins: its script was cut off; a Redis without its admin: an upload was torn; a successful backup that misses a ready database: no password, its member down, or the dump failed |
| | `RetriesProvision` | repeating bootstrap and apply gets every database, and every user into Redis unless that stays without its admin; provided the recorded member and a majority do not stay down |
| `keycloak` (649 k, 75 s) | `OkMeansReconciled` | a successful tenant apply or users apply left realm, clients, claims, theme or users as declared |
| | `RetriesReconcile` | lost answers and console edits are repaired by repeating, unless a declared user's address was changed in the console |
| `keycloak_membership` | `MembershipReconciled` | *violated*: see Findings |
| `fleet` (815 k, 93 s) | `OkMeansUp` | a successful apply left every host up, reachable, with a way out (unless `lone`), and the bucket protected unless a run was cut off making it; mesh left every host's address |
| | `ForeignOnlyIfStrayed` | stacks reach another host's instance only if its key was enrolled under the wrong name |
| | `RetriesBringUp` | repeating apply and unlocking brings the fleet up, unless a line of `known_hosts` is in the way or the base host was bootstrapped alone |
| `mail` (6.5 M, 55 s) | `OkMeansProvisioned` | a successful apply, for whichever tenants, left the mailboxes of *all*, the certificate's names, one version of the relay secrets, its tenants' DKIM records and fragments, unless a tenant named later caught one |
| | `BehindOnlyIfOwed` | the server and Caddy run with what is on disk, unless a run was cut off, the timer renewed the certificate, or a run could read the certificate neither before nor after issuing it |

Every property of a passing run has a mutant in `PROJECT.json`: an operator,
defined next to the one it replaces, that changes the model the way a plausible
bug would change the code, and that TLC shows to violate the property.

`StackDeploy`, `OpenBao`, `Databases`, `Keycloak`, `Fleet` and `Mail` define a type
invariant that no run lists: it says only that the variables have their types, and is there for the
proofs to start from.

## Bounds

- `stack_deploy`: two units, one config file, one vhost, one secret, two contents
  per file, one edit, two faults. Two units give a restart loop that can be cut
  off in the middle; two faults let a second interrupted run follow a first one.
  The number of edits and faults is the only bound on length, and the theorems
  below do without it.
- `postgrest`: three tenants, two edits, one fault. Three tenants are the fewest
  where an insertion moves more than one port; two edits allow an insertion and
  a removal, or one tenant changing its kind twice.
- `tenant_web`: three tenants, two of them with ids that share a label, two edits
  and one fault: enough to tear a gate down, be cut off, and then remove or add a
  tenant.
- `configd_rollout`: two operators, seven API keys, two signing keys, two rosters,
  one event (failure, crash, edit, rotation, rebuild). Seven keys are enough for
  `Fresh` never to be empty while something still refers to old ones; operators,
  signing keys and rosters are symmetric. Two events give the same result on 3.6
  million states.
- `configd`: two requests, two realms, one key, a cache that lasts two ticks and a
  timeout of one. Two requests are needed for a late reply to overwrite a newer
  one; two realms for a wrong tenant. Two keys give the same result on 11 million
  states.
- `openbao`: tenants `hg` and `hg-dev`, two events, one SecretID handed out per
  AppRole. The ids are the fewest that shadow each other; two events are a cut and
  then an edit, a rebuild or a second cut.
- `databases`: two tenants, three members (the smallest cluster mksrv accepts),
  two events: a failover during a run, and then a cut, or the recorded member's end.
- `keycloak`: two groups (one of them managing), two users, two events: a lost
  answer and a second failure in its retry, or an edit and the console.
- `fleet`: a base host and two private ones, two private addresses of which one
  contains the other, two events: enough to lose hosts and see their addresses
  swapped, or to be cut off with the lock held.
- `mail`: two tenants, the id of one the beginning of the other's, three events: two
  reads that fail and a cut, a renewal or an edit besides.

In all of them an event is a failure, a cut, an edit or something that happens
outside; the commands themselves are not bounded.

Deadlock is checked in every run.

## Fairness

- `StackDeploy`: weak fairness of the run's next step. The commands it sends end
  by themselves (health checks have their own limits, dials a timeout of 15 s)
  and a broken connection ends them with an error; the SSH client has no timeout
  per command, so a command that hangs on a live connection is one the operator
  interrupts, which is `Abort`. Weak fairness of `Begin`: the operator runs the
  deploy again. `BeginWithoutEdge`, faults and
  edits get none.
- `PostgREST`: weak fairness of the run's steps, strong fairness of the full
  tenant apply: the operator may apply single tenants in between, but comes back
  to the full one.
- `TenantWeb`: as `PostgREST`, and weak fairness of `Bind`: systemd starts a gate
  again every five seconds (`RestartSec=5s`) without a start limit.
- `Configd`: weak fairness of `StoreKeys` and `CallFails` per request: a goroutine
  runs, and each `http.Client` has a `Timeout` of ten seconds, so a call that is
  not answered fails. That Keycloak or Headscale answer is *not* assumed.
- `OpenBao`, `Databases`, `Keycloak`, `Fleet`: weak fairness of a command's next
  step, as above, and of what the services do by themselves (members of OpenBao
  join, Patroni elects); strong fairness of the commands the operator repeats
  (bootstrap and full tenant apply; tenant apply and users apply; apply and
  unlock), since other commands may be started in between. Nothing is assumed of
  failures, edits or the console.
- `ConfigdRollout` and `Mail` state only safety.

## Proofs

Eight modules hold the proofs about the ten components. Every safety property of
every passing run is a theorem, proved from one inductive invariant per component
for **every** value of the constants: any stack, any number of operators, requests,
tenants or hosts, any names and addresses, and any number of edits, faults and
events (the bounds are arbitrary natural numbers).

`BrokerProofs` and `TenantDataProofs` hold two components each and extend both.
That is why `ConfigdRollout` and `Databases` have names of their own for their
specifications and some of their variables (`RolloutSpec`, `DataSpec`, `phase`,
`pending`, `Unset`); the two components of a module share no variable.

| Module | Theorem | Statement |
|---|---|---|
| `StackDeployProofs` | `TypeCorrect`, `Inductive` | `Spec => []TypeOK`, `Spec => []IInv` |
| | `Delivery` | `Spec => []OkMeansDelivered` |
| | `Restarted` | `Spec => []RestartedMeansCurrent` |
| | `StaleUnits` | `Spec => []StaleOnlyAfterAbort` |
| | `EdgeServes` | `Spec => []EdgeServesItsFragments` |
| | `Failures` | `Spec => FailsOnlyAfterAbort` |
| | `Idempotence` | `Spec => NoopRunRestartsNothing` |
| | `Inputs` | `Spec => StartsWithItsInputs` |
| | `Refinement` | `Spec => ImplementsReconciler` |
| `BrokerProofs` (`Configd`) | `TypeCorrect`, `Inductive` | as above |
| | `StaleRefusal` | `Spec => []NoStaleRefusal` |
| | `RecentKeys` | `Spec => AcceptedKeyIsRecent` |
| | `OwnTenant` | `Spec => MintedForOwnTenant` |
| `BrokerProofs` (`ConfigdRollout`) | `RolloutTypeCorrect`, `RolloutInductive` | `RolloutSpec => []RolloutTypeOK`, `RolloutSpec => []RolloutIInv` |
| | `Served` | `RolloutSpec => []OkMeansServed` |
| | `DeadKey` | `RolloutSpec => []DeadKeyOnlyAfterInterference` |
| | `SigningKeys` | `RolloutSpec => []OneSigningKey` |
| `TenantDataProofs` (`PostgREST`) | `TypeCorrect`, `Inductive` | as above |
| | `Served` | `Spec => []OkMeansServed` |
| | `OthersData` | `Spec => []OthersDataOnlyAfterFailure` |
| `TenantDataProofs` (`Databases`) | `DataTypeCorrect`, `DataInductive` | `DataSpec => []DataTypeOK`, `DataSpec => []DataIInv` |
| | `ReadyAfterOk` | `DataSpec => []OkMeansReady` |
| | `GapsExplained` | `DataSpec => []GapsHaveACause` |
| `TenantWebProofs` | `TypeCorrect`, `Inductive` | as above |
| | `Served` | `Spec => []OkMeansServed` |
| | `Behind` | `Spec => []BehindOnlyAfterFailure` |
| | `ForeignGate` | `Spec => []ForeignGateOnlyAfterMove` |
| `OpenBaoProofs` | `TypeCorrect`, `Inductive` | as above |
| | `TokenLost` | `Spec => []TokenLostOnlyByCut` |
| | `ProvisionedAfterApply` | `Spec => []OkMeansProvisioned` |
| `FleetProofs` | `TypeCorrect`, `Inductive` | as above |
| | `Foreign` | `Spec => []ForeignOnlyIfStrayed` |
| | `UpAfterApply` | `Spec => []OkMeansUp` |
| `MailProofs` | `TypeCorrect`, `Inductive` | as above |
| | `Provisioned` | `Spec => []OkMeansProvisioned` |
| | `Behind` | `Spec => []BehindOnlyIfOwed` |
| `KeycloakProofs` | `TypeCorrect`, `Inductive` | as above |
| | `ReconciledAfterOk` | `Spec => []OkMeansReconciled` |

Hardly any of the properties is inductive: each speaks of the end of a run, of an
idle system or of the moment of an answer, and what holds there depends on what
every step before left behind. `IInv` says that, phase by phase. Its parts are
preserved one by one (`TypeStep`, `PhaseStep`, ...), each with one step per action,
or, for the parts few actions can disturb, from frame lemmas that say which ones.
TLC checked each `IInv` on the component's run before it was proved.

### StackDeploy

Assumptions: the three kinds of files are disjoint (`FilesAssumption`), `Paths`
lists every file (`PathsAssumption`), `Leaves` is a sequence of names
(`LeavesAssumption`), no file and a torn file are not versions
(`ContentAssumption`), health checks probe units of the stack and the bounds are
natural numbers (`OtherAssumption`).

- `ControlInv`: which flags can be set in which phase;
- `SecretsInv`: the secrets before position `i` of the push, all of them after it,
  are those of SSM;
- `FilesInv`: the files before position `i` of the loop, and all of them after it,
  are on the machine chosen for them;
- `RestartInv`: in the restart loop systemd's definitions are those on disk, and
  the units before `i` run from what is on the host;
- `UnitsInv`: unless a restart is owed (`tainted`, or by this run), every unit on
  disk is up and runs from it;
- `CaddyInv`: unless a reload is owed, Caddy serves its directory;
- `NoopInv`: a run that found everything current has found nothing to change so far.

`Failures` and `Idempotence` follow from `IInv` and a look at the actions that end a
run, `Inputs` from `SecretsInv`, `FilesInv` and `RestartInv` at the two that start a
unit (`InputsInPlace`). For the refinement, `RefinesInit` maps initial states to initial states, and
`RefinesStep` every step to a step of `Reconciler` or a stutter: an upload of a
file that differed is a repair, one whose probe failed or that goes where Caddy
does not look is none (`RefinesUpload`), a torn upload breaks the item
being uploaded (`RefinesTorn`), a pushed secret is repaired (`RefinesPush`), other failures
give up (`RefinesGiveUp`), and the marker is written only when all in scope is
right (`RefinesSucceed`, from `SecretsInv` and `FilesInv`).

### ConfigdRollout

Any set of operators; the bounds are natural numbers (`BoundsAssumption`). At most
one run is *clean* and no other is then between mint and restart (`AloneInv`); a
clean run's key stays alive while SSM, the secrets and the broker take what it
holds one after the other (`CleanInv`); what was reported as served is still so
(`ServedInv`); without interference the broker can mint, or a run is on the way to
give it its next key (`RolloutMintInv`).

### Configd

Any number of requests, finitely many realms each with its keys
(`RealmsAssumption`), any positive lifetime and timeout (`TimesAssumption`).
`RecentInv` bounds how long ago the keys in a reply and in the cache left the JWKS,
which is what makes a late reply harmless; `KeptInv` follows a key that stays
published from the JWKS into the reply; `MintInv` ties the id a request holds to
its tenant for as long as Headscale accepts the API key; `IdsInv` says ids are
given once. The two action properties follow from `RecentInv`, and from `MintInv`
and `IdsInv`.

### PostgREST and TenantWeb

Any number of tenants (`NAssumption`); in `TenantWeb` any ids and nonempty
hostnames (`NamesAssumption`). Both rest on lemmas about the counted ports:
`PortRange` (they lie in the range) and `PortsDiffer` (two tenants of the list
never have the same), which are facts about cardinalities of initial segments.

`PostgREST`: `OneEach` (a port is published by one container), `WrittenInv` (what a
run has written for the tenants it has been through, whatever happened before),
`SyncInv` (while nothing has failed, unit, container, vhost and Caddy agree for
every tenant the run is not busy with).

`TenantWeb`: `BehindInv` (what is not restarted or reloaded is in `restarts`,
`changed` or `owed`), `FileInv` (a vhost is in the file named after its tenant),
`VisitedInv` (unit and vhost of the tenants the loop has been through; a later
tenant disturbs one only if its pattern finds it, `VhostStep`), `AlignedInv` (as
long as the ports have not moved, every port in a unit, a gate, a file or Caddy is
its tenant's own; re-established by a full run, `AlignedByRun`). That a tenant's
pattern finds its own file is `OwnPattern`.

### Databases

Any tenants, each once and none called `mksrv` (`OrderAssumption`,
`AdminAssumption`: Redis's admin has that name), and any cluster with an odd number of members
from three on (`NodesAssumption`). `AfterType` and `AfterWhole` say what running a
prefix of a script, or all of it, leaves of a database, whatever was there before:
the statements are idempotent, so a repeated script ends in the same facts.

- `DataPhaseInv`: before the first statement an apply has all its databases to do,
  in its later stages none;
- `LeaderInv`: an apply writes to the leader, and its report names it, until the
  leader moves; after a failover every further statement is refused, so a database
  counted as done was written to the leader of its time;
- `WholeInv`: the databases an apply has gone through are whole, in whatever order;
- `CacheInv`: what it has written for Redis, and that Redis has read it or, having
  started from a torn file without its admin, has refused to (`Loaded`);
- `AdminInv`, `OpenInv`, `ReadyInv`: the causes of `GapsHaveACause`. `ReadyInv` needs
  `env.repo`: a torn environment file has lost the repository as well, so a backup
  that starts at all has every database that was reported ready in its list, and
  misses only those whose dump failed.

### OpenBao

Any set of ids (`TenantAssumption`), whichever of them continue each other.
`TokenInv` (clusters are numbered, SSM has a token of this one only if it was
initialised), `StoredInv` (stored ids belong to their tenant and come from this
cluster or an earlier one), `LoopInv` (what each step of a tenant's turn leaves
behind, for it and those before it, `Shadowed` policies excepted).

### Fleet

Any hosts and any pool with an address for each (`OrderAssumption`,
`PoolAssumption`), and any relation of addresses that contain each other.
`InstanceInv` (keys are never used again, addresses never shared), `OutputsInv`
(`outputs.json`, however old, has no address twice), `EnrolledInv` (unless a key
strayed, the address of an enrolled key that still stands is its own host's),
`ApplyInv` (what apply has done for the hosts it has been through), `NATInv`,
`BucketInv`, `MeshInv`.

### Mail

Any tenants, each once (`OrderAssumption`), and any relation of patterns.
`AccountsInv`, `CertInv`, `RelayInv`, `DKIMInv`, `FragmentsInv` (what each stage has
put in place, for the run's tenants in the order they were named, whatever it could
not read before) and `BehindInv` (the servers run with what is on disk, or the run is
about to restart them, or a restart is owed).

### Keycloak

Any groups, at least one (`GroupsAssumption`), and any finite set of users
(`UsersAssumption`). `RealmCalls`, `UserCall`, `JoinCall` and `ConsoleCalls` say that
every request leaves a realm, and `EffectsType` the same of those whose answer is lost.

- `PhaseInv`, `LoopInv`: a phase belongs to its command, and a loop is over what the
  workspace asks for;
- `GroupsInv`, `ClientsInv`: how far tenant apply has come with the realm, its groups
  and clients and their mappers;
- `UsersInv`: how far users apply has come, the groups in `left` excepted for the user
  it is at (`UserReady`);
- `ThemeInv`: Keycloak is restarted with the workspace's theme on the host;
- `ReportInv`: what a success left stays so until the console is used, or the command's
  report is withdrawn by an edit, a rebuild or a new command.

All but the first two and `ThemeInv` hold only while the console is not used
(`touched`): the commands hold what they have read (`seen`) and do not look again.

In all modules the assumptions on `None` say that it is none of the values it
stands beside; TLC evaluates every assumption on the component's run.

### Only model-checked

- `RetriesDeliverFiles`, `RetriesSucceedUnlessClash`, `GatesComeUp`, `AllAnswered`,
  both `RetriesProvision`, `RetriesReconcile` and `RetriesBringUp`: liveness under
  fairness is out of the prover's reach.
- `ForwardReachesContainer` and `MembershipReconciled`, which do not hold (Findings).

## Findings

Two statements of the repository's own comments and documents that the code does
not keep; each has a run with a counterexample.

1. `postgrest_forward`: "`postgrestPort` indexes into THIS list, not the raw
   tenant-id list", but `reconcileConfigd` passes the raw list: with a tenant
   without PostgREST sorting first, the forwards are off by one.
2. `keycloak_membership`: "`mksrv users apply <id>` reconciles membership"
   (`docs/reference/rbac.md`). `EnsureUsers` only adds: a group taken out of the
   users file stays with the user.

## What the modules show besides

Behaviour that a property names as an exception, so that it is exactly delimited:

- **Restarts owed** (`StaleOnlyAfterAbort`, `FailsOnlyAfterAbort`). Whether
  `DeployStack` restarts depends on `quadletChanged` of this run only. After a run
  cut off between a quadlet write and the restart, later runs succeed with units
  on the old definition, or fail if the unit was never generated.
- **Fragments and a failed dial** (`ImplementsReconciler`, `RetriesDeliverFiles`).
  `deployHost` drops the error of dialing the edge; the run succeeds with the
  fragments on the wrong host, and a later one with a working dial repairs it.
- **An inserted tenant** (`RetriesSucceedUnlessClash`). A tenant that sorts first
  takes a port another container holds; the first restart fails and the others
  never move.
- **Gates after a move** (`ForeignGateOnlyAfterMove`). Gate ports are counted over
  all tenants and nothing of a removed tenant is torn down, so after a removal or
  a single-tenant addition a hostname may be served by another tenant's gate.
- **Endpoint names** (`OkMeansServed` of `TenantWeb`). `lab.<domain>` of tenant
  `acme` is removed as stale when the loop comes to tenant `acme-lab`.
- **Reset ids.** `EnsureString` takes any failed read for absence; one throttled
  read resets a rotated signing key id, or replaces a RoleID. `provisionOpenBaoTenants`
  does the same with a SecretID (`GetSecretID`), though its comment says that it "never
  regenerates a live SecretID" (`openbao_tenant.go:277`); no property forbids either,
  only that what is stored in the end logs in.
- **OpenBao** (`TokenLostOnlyByCut`, `Shadowed`). A cut between `operator init`
  and the puts loses the root token and the recovery keys for good. The clean-up
  of the old policy of `hg-dev` deletes the dev tier of `hg`, until `hg` is applied
  again after it.
- **Databases.** The recorded primary is dialed first, whoever leads: while it is
  down, every apply fails. A switchover by bootstrap leaves `postgres.json` stale
  until the next `ensurePrimary`. Each apply revokes the `SELECT` grants to
  `mksrv_anon` that `docs/reference/rbac.md` tells the team to make;
  `public_schema_create` is granted and never revoked. A deploy of the cache stack
  puts the seed `users.acl` back until the next apply.
- **Redis and backups** (`OkMeansReady`, `GapsHaveACause`). A Redis that started from a
  torn `users.acl` does not know the user mksrv; it refuses every later load, and the
  applies report success with the right file beside a server that has not read it,
  until Redis is restarted. A backup whose `pg_dump` failed for a database reports
  success, with a line in a log.
- **Keycloak.** Claim mappers are only created: a changed role keeps its old value
  (ADR 0026 speaks of rewriting the mapper). A user renamed in the console makes
  every later `users apply` fail with 409.
- **Fleet.** A base host bootstrapped alone never gets NAT, because of its marker
  (`NATMissing`). This can also befall a fleet that has grown already (`lone`): lose
  the base host, be cut off after it was recreated, take the private hosts out of the
  workspace, bootstrap the base host, put them back; the apply after that succeeds,
  because the private hosts have their markers, and they have no way out. It takes
  five events, beyond the bound of the run; the attempt to prove `OkMeansUp` showed it. Host keys are matched by substring (`KeyInTheWay`). A bucket
  left bare by a cut stays bare (`bareCut`).
- **Mail.** Generated hashes are salted anew, so the server restarts on every
  apply though the comment says "only if it changed". When the last tenant stops
  hosting mail, its mailboxes stay. The pattern `16-mta-sts-<id>-*` also finds
  fragments of tenants whose id continues `<id>-`, as for web endpoints. A torn
  fragment takes Caddy down at the next reload. After the first issue of the
  certificate one failed read of it is enough for the restart to be skipped and the run
  to succeed. A run that died between issuing and installing makes the next one fail,
  if the script is the same: acme.sh has its certificate and will not issue another
  until it is due or forced.

Read in the source, and in no run: `mksrv.lock` is left alone by an apply that
finds nothing to change, and updated before the fleet part has run; two mail
addresses of a tenant with one local part share a password parameter.

## Not modelled

- The text of files, templates, Caddy and systemd syntax, JSON: contents are
  opaque values. Whether a rendering is *right* is out of scope; whether it
  arrives and is run is not. This includes the Headscale policy.
- Terraform's own state, AWS, container images: external. `Fleet` has what an
  apply, a destroy and a lock do to the instances.
- Token parsing and signature checks, the random generator.
- Workspace loading, validation, scaffolding and rendering, capacity sums: pure
  functions over one workspace without state or order; a model would repeat their
  conditions.
- The engine cache: two processes may extract at once, but both write the files
  of the same version; only the moment between `RemoveAll` and `Rename` is open.
- `stop`/`rsync`/`start` of a volume migration, run by hand; restores from backup.
- Commands that only print; `HOST` and `--stack` arguments; hosts that exist
  already (`provider: existing`).
- The stages of tenant apply are one module each and not composed: they share the
  run's first-error exit, which every module has as a failure before, between and
  after its steps, and little else: each reads the workspace, SSM and its own services.

## Plan

`PostgREST` and `TenantWeb` for several ids named in any order, as `OpenBao`,
`Databases` and `Mail` have them.
