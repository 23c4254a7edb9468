----------------------------- MODULE Databases -----------------------------
(***************************************************************************)
(* The tenants' data stores: the Patroni cluster (internal/cli/postgres.go *)
(* and the database stage of `tenant apply`, database.go), the shared      *)
(* Redis (cache.go) and the nightly backup (backup.go).                    *)
(*                                                                         *)
(* The leader of the cluster moves by itself; mksrv remembers one member   *)
(* in postgres.json and starts every run from it.  The SQL of a tenant is  *)
(* a script that psql runs statement by statement and that may end after   *)
(* any of them.  Redis reads its users from a file that two commands       *)
(* write: `tenant apply` with the tenants, a stack deploy without.         *)
(*                                                                         *)
(* Simplifications.                                                        *)
(*  - One operator at a time; the stages of tenant apply in between are    *)
(*    places where it may fail.                                            *)
(*  - What a leader has committed is on every member.                      *)
(*  - Passwords are written once (ConfigdRollout has EnsureRandom) and not *)
(*    told apart; pgAdmin's server list, whose failure is only a warning,  *)
(*    is left out.                                                         *)
(***************************************************************************)
EXTENDS Naturals, Sequences, FiniteSets

CONSTANTS
    Order,     \* all possible tenants, in sorted order
    Nodes,     \* the hosts that carry postgres, in sorted order
    None,      \* nothing there
    MaxEvents  \* bound: failures, cut-off commands, switchovers, deploys, edits, grants

TenantID == {Order[k] : k \in 1..Len(Order)}
Node   == {Nodes[k] : k \in 1..Len(Nodes)}

ASSUME OrderAssumption == \A j, k \in 1..Len(Order) : j # k => Order[j] # Order[k]
ASSUME NodesAssumption ==
    /\ Len(Nodes) >= 3 /\ Len(Nodes) % 2 = 1
    /\ \A j, k \in 1..Len(Nodes) : j # k => Nodes[j] # Nodes[k]
    /\ None \notin Node
ASSUME EventsAssumption == MaxEvents \in Nat
ASSUME AdminAssumption == "mksrv" \notin TenantID

Fact == {"login", "auth", "database", "open", "connect", "public", "schema", "app", "anon", "hook"}
User == TenantID \cup {"mksrv"}

ASSUME NoneAssumption == \A S \in SUBSET User : S # None

VARIABLES
    want,      \* the workspace: who consumes database and cache, public_schema_create
    up,        \* the cluster members that run
    leader,    \* the member that takes writes
    app,       \* the database and role of the operator's own app exist
    buckets,   \* the cluster-wide roles exist
    db,        \* what there is of each tenant's database
    recorded,  \* the primary in postgres.json
    aclFile,   \* the users in Redis's file, None if it cannot be parsed
    acl,       \* the users Redis runs with, None if it does not run
    env,       \* backup.env
    \* the current command
    phase,
    sel,       \* the tenants it was called for
    pending,   \* those whose database is still to be done
    conn,      \* the member it works on
    \* history and bounds
    moved,     \* the leader changed after the last DDL of an apply
    cut,       \* the tenants whose script ended half-way and was not repeated
    torn,      \* an upload of Redis's file was cut short and not yet made good
    ready,     \* the tenants whose database an apply reported ready
    done,      \* the last command that reported success: for whom, or a backup with
               \* which databases and whose dumps failed
    events

workspace == <<want>>
cluster   == <<up, leader, moved>>
store     == <<app, buckets, db, cut>>
redis     == <<aclFile, acl, torn>>
backup    == <<env, ready>>
local     == <<sel, pending, conn>>
dataVars  == <<workspace, cluster, store, recorded, redis, backup, phase, local, done, events>>

Env == [pg : Node \cup {None}, pass : BOOLEAN, dbs : SUBSET TenantID, bao : BOOLEAN, repo : BOOLEAN]

(***************************************************************************)
(* Type correctness.                                                       *)
(***************************************************************************)
DataTypeOK ==
    /\ want \in [TenantID -> [db : BOOLEAN, cache : BOOLEAN, public : BOOLEAN]]
    /\ up \subseteq Node
    /\ leader \in up \cup {None}
    /\ app \in BOOLEAN /\ buckets \in BOOLEAN
    /\ db \in [TenantID -> SUBSET Fact]
    /\ recorded \in Node \cup {None}
    /\ aclFile \in (SUBSET User) \cup {None}
    /\ acl \in (SUBSET User) \cup {None}
    /\ env \in Env \cup {None}
    /\ phase \in {"idle", "health", "app", "record", "switchover", "settle",
                  "check", "roles", "sql", "acl", "load", "backup"}
    /\ sel \subseteq TenantID
    /\ pending \subseteq TenantID
    /\ conn \in Node \cup {None}
    /\ moved \in BOOLEAN /\ torn \in BOOLEAN /\ ready \subseteq TenantID
    /\ cut \subseteq TenantID
    /\ done \in [cmd : {"bootstrap", "apply", "backup"}, sel : SUBSET TenantID,
                 failed : SUBSET TenantID] \cup {None}
    /\ events \in 0..MaxEvents

----------------------------------------------------------------------------
DBConsumers    == {t \in TenantID : want[t].db}
CacheConsumers == {t \in TenantID : want[t].cache}

DataInit ==
    /\ want \in [TenantID -> {[db |-> TRUE, cache |-> TRUE, public |-> FALSE]}]
    /\ up = Node
    /\ leader = Nodes[1]
    /\ app = FALSE /\ buckets = FALSE
    /\ db = [t \in TenantID |-> {}]
    /\ recorded = None
    /\ aclFile = {"mksrv"} /\ acl = {"mksrv"}
    /\ env = None
    /\ phase = "idle" /\ sel = {} /\ pending = {} /\ conn = None
    /\ moved = FALSE /\ cut = {} /\ torn = FALSE /\ ready = {}
    /\ done = None
    /\ events = 0

Event == events < MaxEvents /\ events' = events + 1

Leave == phase' = "idle" /\ sel' = {} /\ pending' = {} /\ conn' = None

Error == Leave /\ UNCHANGED done

Return(cmd) == Leave /\ done' = [cmd |-> cmd, sel |-> sel, failed |-> {}]

\* SQL that changes something goes through on the member the command works on.
Writable == conn = leader /\ conn \in up

----------------------------------------------------------------------------
(* postgres bootstrap                                                      *)

\* The first member is dialed.
StartBootstrap ==
    /\ phase = "idle"
    /\ Nodes[1] \in up
    /\ phase' = "health"
    /\ done' = None
    /\ UNCHANGED <<workspace, cluster, store, recorded, redis, backup, local, events>>

\* waitForPatroni: one leader, and as many healthy members as there are hosts.
Healthy == leader # None /\ up = Node

Rows ==
    /\ phase = "health"
    /\ Healthy
    /\ conn' = leader
    /\ phase' = "app"
    /\ UNCHANGED <<workspace, cluster, store, recorded, redis, backup, sel, pending, done, events>>

NotHealthy ==
    /\ phase \in {"health", "settle"}
    /\ ~Healthy
    /\ Error
    /\ UNCHANGED <<workspace, cluster, store, recorded, redis, backup, events>>

ProvisionAppDatabase ==
    /\ phase = "app"
    /\ Writable
    /\ app' = TRUE
    /\ phase' = "record"
    /\ UNCHANGED <<workspace, cluster, buckets, db, cut, recorded, redis, backup, local, done, events>>

\* writePostgres, whose failure is only a warning.
Record ==
    /\ phase = "record"
    /\ \/ recorded' = conn /\ UNCHANGED events
       \/ Event /\ UNCHANGED recorded
    /\ Return("bootstrap")
    /\ UNCHANGED <<workspace, cluster, store, redis, backup>>

\* With --switchover: the primary is recorded before it is switched away from.
RecordThenSwitch ==
    /\ phase = "record"
    /\ Event
    /\ recorded' = conn
    /\ phase' = "switchover"
    /\ UNCHANGED <<workspace, cluster, store, redis, backup, local, done>>

Switchover ==
    /\ phase = "switchover"
    /\ conn \in up
    /\ leader # None
    /\ leader' \in up \ {leader}
    /\ moved' = TRUE
    /\ phase' = "settle"
    /\ UNCHANGED <<workspace, up, store, recorded, redis, backup, local, done, events>>

Settled ==
    /\ phase = "settle"
    /\ Healthy
    /\ Return("bootstrap")
    /\ UNCHANGED <<workspace, cluster, store, recorded, redis, backup, events>>

----------------------------------------------------------------------------
(* tenant apply: provisionDatabases                                        *)

\* pgConn: the recorded primary is dialed, whatever the cluster says.
StartApply(S) ==
    /\ phase = "idle"
    /\ S # {}
    /\ recorded \in up
    /\ sel' = S
    /\ pending' = S \cap DBConsumers
    /\ conn' = recorded
    /\ phase' = "check"
    /\ done' = None
    /\ UNCHANGED <<workspace, cluster, store, recorded, redis, backup, events>>

\* Mutant: the member in postgres.json is taken for the leader.
Leader_Recorded == conn

\* patroniLeaderIP and hostNameForPrivateIP.
Leader == leader

\* ensurePrimary moves to the leader the cluster reports and corrects the record; any problem,
\* and any failure to write the record, is passed over.
EnsurePrimary ==
    /\ phase = "check"
    /\ \/ /\ conn \in up /\ Leader # None
          /\ conn' = Leader
          /\ \/ recorded' = Leader /\ UNCHANGED events
             \/ recorded # Leader /\ Event /\ UNCHANGED recorded
       \/ conn \in up /\ Leader = None /\ UNCHANGED <<conn, recorded, events>>
       \/ conn \in up /\ Leader # conn /\ Event /\ UNCHANGED <<conn, recorded>>
       \/ conn \notin up /\ UNCHANGED <<conn, recorded, events>>
    /\ phase' = "roles"
    /\ UNCHANGED <<workspace, cluster, store, redis, backup, sel, pending, done>>

\* globalRBACRolesSQL, also when none of the tenants consumes database.
GlobalRBACRoles ==
    /\ phase = "roles"
    /\ Writable
    /\ buckets' = TRUE
    /\ moved' = FALSE
    /\ phase' = "sql"
    /\ UNCHANGED <<workspace, up, leader, app, db, cut, recorded, redis, backup, local, done, events>>

\* The statements that tell a half-done database from a whole one, in the script's order.
Statements ==
    <<"login", "auth", "database", "close", "connect", "public", "schema", "app", "hide", "hook">>

\* Those among the first n that the script of t has.
tenantDatabaseSQL(t, n) ==
    {Statements[k] : k \in 1..n} \ (IF want[t].public THEN {} ELSE {"public"})

\* A new database may be connected to by every role until the next statement revokes that.
Adds(s, d) ==
    CASE s = "database" -> IF s \in d THEN {} ELSE {"database", "open"}
      [] s \in {"close", "hide"} -> {}
      [] OTHER -> {s}

\* "hide" takes SELECT on all tables from the role of requests without a token.
Dels(s) ==
    CASE s = "close" -> {"open"}
      [] s = "hide"  -> {"anon"}
      [] OTHER -> {}

\* Database d after the statements S of its script.
After(d, S) == (d \cup UNION {Adds(s, d) : s \in S}) \ UNION {Dels(s) : s \in S}

\* Mutant: what an earlier run has created is taken to be whole.
RunSQL_IfAbsent(t) ==
    /\ db' = [db EXCEPT ![t] = IF "database" \in @ THEN @
                               ELSE After(@, tenantDatabaseSQL(t, 10))]
    /\ cut' = cut \ {t}

\* psql runs the whole script.
RunSQL(t) ==
    /\ db' = [db EXCEPT ![t] = After(@, tenantDatabaseSQL(t, 10))]
    /\ cut' = cut \ {t}

\* The tenants are taken in the order they were named in.
TenantDatabase ==
    /\ phase = "sql"
    /\ Writable
    /\ \E t \in pending : RunSQL(t) /\ pending' = pending \ {t}
    /\ UNCHANGED <<workspace, cluster, app, buckets, recorded, redis, backup>>
    /\ UNCHANGED <<phase, sel, conn, done, events>>

\* ON_ERROR_STOP, a lost connection or a failover ends the script after n statements.
TenantDatabaseCut ==
    /\ phase = "sql"
    /\ Writable
    /\ Event
    /\ \E t \in pending, n \in 0..9 :
          /\ db' = [db EXCEPT ![t] = After(@, tenantDatabaseSQL(t, n))]
          /\ cut' = cut \cup {t}
    /\ Error
    /\ UNCHANGED <<workspace, cluster, app, buckets, recorded, redis, backup>>

\* A replica refuses to write, a member that is down cannot be reached.
ReadOnly ==
    /\ \/ phase \in {"app", "roles"}
       \/ phase = "sql" /\ pending # {}
    /\ ~Writable
    /\ Error
    /\ UNCHANGED <<workspace, cluster, store, recorded, redis, backup, events>>

NoSwitchover ==
    /\ phase = "switchover"
    /\ conn \notin up \/ leader = None
    /\ Error
    /\ UNCHANGED <<workspace, cluster, store, recorded, redis, backup, events>>

----------------------------------------------------------------------------
(* tenant apply: provisionRedis                                            *)

\* Without a consumer among the tenants of this run nothing is written.
SkipRedis ==
    /\ phase = "sql"
    /\ pending = {}
    /\ sel \cap CacheConsumers = {}
    /\ phase' = "backup"
    /\ UNCHANGED <<workspace, cluster, store, recorded, redis, backup, local, done, events>>

ToRedis ==
    /\ phase = "sql"
    /\ pending = {}
    /\ sel \cap CacheConsumers # {}
    /\ phase' = "acl"
    /\ UNCHANGED <<workspace, cluster, store, recorded, redis, backup, local, done, events>>

\* The users of the file: every consumer in the workspace.
Lines == {"mksrv"} \cup CacheConsumers

WriteACL ==
    /\ phase = "acl"
    /\ aclFile' = Lines
    /\ phase' = "load"
    /\ UNCHANGED <<workspace, cluster, store, recorded, acl, torn, backup, local, done, events>>

\* An upload that is cut short: nothing, the first lines, or a line Redis cannot
\* parse.  A user whose line lost its end and still parses counts as missing.
WriteACLTorn ==
    /\ phase = "acl"
    /\ Event
    /\ \/ aclFile' = None
       \/ aclFile' = {}
       \/ \E k \in 0..Len(Order) :
             aclFile' = {"mksrv"} \cup {Order[j] : j \in {i \in 1..k : want[Order[i]].cache}}
    /\ torn' = TRUE
    /\ Error
    /\ UNCHANGED <<workspace, cluster, store, recorded, acl, backup>>

\* Redis runs and knows the user mksrv.
AdminServed == IF acl = None THEN FALSE ELSE "mksrv" \in acl

\* ACL LOAD as user mksrv.  A Redis with none of the users read the default user's line,
\* which turns that user off, or an empty file, and then lets everyone in as default.
LoadACL ==
    /\ phase = "load"
    /\ AdminServed \/ acl = {}
    /\ aclFile # None
    /\ acl' = aclFile
    /\ torn' = FALSE
    /\ phase' = "backup"
    /\ UNCHANGED <<workspace, cluster, store, recorded, aclFile, backup, local, done, events>>

\* Redis refuses: it does not know mksrv, or cannot parse the file.  redis-cli, without
\* -e, prints the error and exits with 0: the apply goes on, and Redis has its old users.
LoadRefused ==
    /\ phase = "load"
    /\ acl # None
    /\ ~AdminServed \/ aclFile = None
    /\ phase' = "backup"
    /\ UNCHANGED <<workspace, cluster, store, recorded, redis, backup, local, done, events>>

\* podman exec fails when the container does not run.
RedisDown ==
    /\ phase = "load"
    /\ acl = None
    /\ Error
    /\ UNCHANGED <<workspace, cluster, store, recorded, redis, backup, events>>

----------------------------------------------------------------------------
(* tenant apply: provisionBackup; backup run                               *)

\* Mutant: only the tenants of this run.
DBs_Selected == sel \cap DBConsumers

\* The databases to dump: those of all tenants.
DBs == DBConsumers

\* An unreadable password and a failing OpenBao are passed over; then the file is written.
WriteBackupEnv ==
    /\ phase = "backup"
    /\ \E e \in [pg : {conn}, pass : BOOLEAN, dbs : {DBs}, bao : BOOLEAN, repo : {TRUE}] :
          /\ env' = e
          /\ IF e.pass /\ e.bao THEN UNCHANGED events ELSE Event
    /\ ready' = ready \cup (sel \cap DBConsumers)
    /\ Return("apply")
    /\ UNCHANGED <<workspace, cluster, store, recorded, redis>>

\* The keys are sorted: BAO_*, DBS, PG_PRIMARY_IP, PG_SUPERPASS, RESTIC_REPOSITORY.
WriteBackupEnvTorn ==
    /\ phase = "backup"
    /\ Event
    /\ \E k \in 0..4 :
          env' = [bao  |-> k >= 1,
                  dbs  |-> IF k >= 2 THEN DBs ELSE {},
                  pg   |-> IF k >= 3 THEN conn ELSE None,
                  pass |-> k >= 4,
                  repo |-> FALSE]
    /\ Error
    /\ UNCHANGED <<workspace, cluster, store, recorded, redis, ready>>

\* The databases backup.sh gets out when pg_dump fails for those in bad, which it only logs.
Dumped(bad) ==
    IF env.pass /\ env.pg \in up THEN {t \in env.dbs \ bad : "database" \in db[t]} ELSE {}

\* The script dumps what it can and goes on to restic, which needs the repository's name.
Backup ==
    /\ phase = "idle"
    /\ env # None
    /\ env.repo
    /\ \E bad \in SUBSET env.dbs :
          /\ done' = [cmd |-> "backup", sel |-> Dumped(bad), failed |-> bad]
          /\ IF bad = {} THEN UNCHANGED events ELSE Event
    /\ UNCHANGED <<workspace, cluster, store, recorded, redis, backup, phase, local>>

----------------------------------------------------------------------------
(* Failures and the world outside                                          *)

\* The command fails, loses its connection or dies between two steps.
Cut ==
    /\ phase # "idle"
    /\ Event
    /\ Error
    /\ UNCHANGED <<workspace, cluster, store, recorded, redis, backup>>

\* The members agree among themselves (raft), by majority.
Majority(S) == 2 * Cardinality(S) > Cardinality(Node)

\* A leader that is left without a majority steps down.
NodeDown(n) ==
    /\ Event
    /\ n \in up
    /\ up' = up \ {n}
    /\ leader' = IF leader # n /\ Majority(up') THEN leader ELSE None
    /\ moved' = (moved \/ leader' # leader)
    /\ done' = None
    /\ UNCHANGED <<workspace, store, recorded, redis, backup, phase, local>>

NodeUp(n) ==
    /\ n \in Node \ up
    /\ up' = up \cup {n}
    /\ done' = None
    /\ UNCHANGED <<workspace, leader, moved, store, recorded, redis, backup, phase, local, events>>

\* Patroni elects a leader while a majority runs.
Elect ==
    /\ leader = None
    /\ Majority(up)
    /\ leader' \in up
    /\ UNCHANGED <<workspace, up, moved, store, recorded, redis, backup, phase, local, done, events>>

\* A rolling restart moves the leader.
Failover ==
    /\ Event
    /\ leader # None
    /\ leader' \in up \ {leader}
    /\ moved' = TRUE
    /\ done' = None
    /\ UNCHANGED <<workspace, up, store, recorded, redis, backup, phase, local>>

\* A deploy of the cache stack writes the seed of the file; Redis is not told.
DeployCache ==
    /\ phase = "idle"
    /\ Event
    /\ aclFile' = {"mksrv"}
    /\ done' = None
    /\ UNCHANGED <<workspace, cluster, store, recorded, acl, torn, backup, phase, local>>

\* Redis reads its file when it starts, and does not start with one it cannot parse.
RedisRestarts ==
    /\ acl # aclFile
    /\ acl' = aclFile
    /\ done' = None
    /\ UNCHANGED <<workspace, cluster, store, recorded, aclFile, torn, backup, phase, local, events>>

\* The team publishes a table: GRANT SELECT ... TO mksrv_anon.
Publish(t) ==
    /\ phase = "idle"
    /\ Event
    /\ {"connect", "schema"} \subseteq db[t]
    /\ "anon" \notin db[t]
    /\ db' = [db EXCEPT ![t] = @ \cup {"anon"}]
    /\ done' = None
    /\ UNCHANGED <<workspace, cluster, app, buckets, cut, recorded, redis, backup, phase, local>>

EditTenant(t) ==
    /\ phase = "idle"
    /\ Event
    /\ \E w \in [db : BOOLEAN, cache : BOOLEAN, public : BOOLEAN] :
          /\ w # want[t]
          /\ want' = [want EXCEPT ![t] = w]
          /\ ready' = IF w.db THEN ready ELSE ready \ {t}
    /\ done' = None
    /\ UNCHANGED <<cluster, store, recorded, redis, env, phase, local>>

----------------------------------------------------------------------------
Step ==
    \/ Rows \/ NotHealthy \/ ProvisionAppDatabase \/ Record \/ Switchover \/ NoSwitchover
    \/ Settled
    \/ EnsurePrimary \/ GlobalRBACRoles \/ TenantDatabase \/ ReadOnly
    \/ SkipRedis \/ ToRedis \/ WriteACL \/ LoadACL \/ LoadRefused
    \/ RedisDown \/ WriteBackupEnv

DataNext ==
    \/ StartBootstrap
    \/ \E S \in SUBSET TenantID : StartApply(S)
    \/ Step \/ RecordThenSwitch
    \/ TenantDatabaseCut \/ WriteACLTorn \/ WriteBackupEnvTorn
    \/ Backup
    \/ Cut
    \/ \E n \in Node : NodeDown(n) \/ NodeUp(n)
    \/ Elect \/ Failover
    \/ DeployCache \/ RedisRestarts
    \/ \E t \in TenantID : Publish(t) \/ EditTenant(t)

DataSpec == DataInit /\ [][DataNext]_dataVars

(***************************************************************************)
(* A command goes on by itself, Patroni elects by itself, and the operator *)
(* runs bootstrap and a full tenant apply again and again.                 *)
(***************************************************************************)
DataFairSpec ==
    /\ DataSpec
    /\ WF_dataVars(Step) /\ WF_dataVars(Elect)
    /\ SF_dataVars(StartBootstrap) /\ SF_dataVars(StartApply(TenantID))

----------------------------------------------------------------------------
\* t's database has everything its team and PostgREST need, and is closed to others; no
\* table is readable without a token, the ones its team had published included.
Whole(t) ==
    /\ {"login", "auth", "database", "connect", "schema", "app", "hook"} \subseteq db[t]
    /\ "open" \notin db[t] /\ "anon" \notin db[t]
    /\ want[t].public => "public" \in db[t]

(***************************************************************************)
(* A tenant apply that reported success left every database it was called  *)
(* for whole, every consumer of the cache in Redis, and a backup           *)
(* environment that names the leader, unless the leader moved after the    *)
(* last statement.  Redis may lack the consumers only if it had started    *)
(* from a torn file without its admin: it then refused to load the right   *)
(* one, which is in place for its next start.                              *)
(***************************************************************************)
OkMeansReady ==
    (done # None /\ done.cmd = "apply") =>
        /\ \A t \in done.sel : want[t].db => Whole(t)
        /\ done.sel \cap CacheConsumers # {} =>
              /\ aclFile = {"mksrv"} \cup CacheConsumers
              /\ acl = aclFile \/ (torn /\ ~AdminServed)
        /\ env.pg = leader \/ moved

(***************************************************************************)
(* What is missing between runs has a cause.  A database is open to the    *)
(* logins of other tenants only if its script was cut off and not          *)
(* repeated; Redis is down or without its admin only after a torn upload;  *)
(* and a backup that reported success misses a database reported ready     *)
(* only if its password could not be read, its member is down, or pg_dump  *)
(* failed for that database, which is logged and nothing more.             *)
(***************************************************************************)
GapsHaveACause ==
    /\ \A t \in TenantID : "open" \in db[t] => t \in cut
    /\ AdminServed \/ torn
    /\ (done # None /\ done.cmd = "backup") =>
          ready \subseteq done.sel \cup done.failed \/ ~env.pass \/ env.pg \notin up

\* An apply can dial the cluster, and the cluster can have a leader.
Reachable == recorded \in up /\ Majority(up)

(***************************************************************************)
(* However runs are cut off and the leader moves, an operator who repeats  *)
(* bootstrap and tenant apply gets every database, whatever becomes of     *)
(* Redis, and every user into Redis, unless it stays without its admin.    *)
(* The member in postgres.json must not stay down (it is dialed first,     *)
(* whoever leads), nor the majority of the members.                        *)
(***************************************************************************)
RetriesProvision ==
    \/ <>[]~Reachable
    \/ /\ []<>(\A t \in DBConsumers : Whole(t))
       /\ <>[]~AdminServed \/ []<>(CacheConsumers # {} => acl = Lines)

=============================================================================
