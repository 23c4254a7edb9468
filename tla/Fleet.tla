------------------------------- MODULE Fleet -------------------------------
(***************************************************************************)
(* The fleet from nothing to running: `mksrv apply` (infra.go, aws.go,     *)
(* hosts.go), its parts `apply --infra-only`, `host trust`, `bootstrap`    *)
(* and `deploy`, then `mesh`, `destroy` and `unlock`.  The commands talk   *)
(* through files in the workspace: outputs.json (the addresses), the       *)
(* pinned host keys in known_hosts and mesh.json.                          *)
(*                                                                         *)
(* Simplifications.                                                        *)
(*  - One command at a time, and over all hosts: HOST arguments and        *)
(*    --stack are left out.  apply runs with --trust-hosts; without it, it *)
(*    is --infra-only followed by bootstrap and deploy.                    *)
(*  - All hosts are AWS hosts; one carries base and identity.  Deploying   *)
(*    a host's stacks is one step here; StackDeploy has its inside.  That  *)
(*    pulling images needs a way out is left out: a bootstrapped host has  *)
(*    had one, and whether it has lost it is in `lone`.                    *)
(*  - Terraform brings up or takes down one instance at a time; a host     *)
(*    taken down takes its data volume with it.                            *)
(*  - mksrv.lock, which apply writes and nothing but a warning reads, and  *)
(*    the Headscale users, which mesh makes sure of first, are left out.   *)
(***************************************************************************)
EXTENDS Naturals, Sequences, FiniteSets

CONSTANTS
    Order,      \* the hosts by name, a sequence
    Base,       \* the host with the base stack: public, the others' way in and out
    BaseAddr,   \* its address, kept over rebuilds
    Pool,       \* the addresses of private hosts
    Inside,     \* <<a, b>>: the text of address b is part of that of a
    None,       \* nothing there
    MaxEvents   \* bound: cuts, lost hosts, destroys, edits of the workspace or of known_hosts

Host     == {Order[k] : k \in 1..Len(Order)}
Addr     == Pool \cup {BaseAddr}
Key      == Host \X Nat
Instance == [addr : Addr, key : Key]
Settings == 3   \* versioning, encryption, public-access block
Cmd      == {"apply", "infra", "destroy", "trust", "bootstrap", "deploy", "mesh"}

ASSUME OrderAssumption ==
    Order \in Seq(Host) /\ \A j, k \in 1..Len(Order) : Order[j] = Order[k] => j = k
ASSUME BaseAssumption == Base \in Host /\ BaseAddr \notin Pool
ASSUME PoolAssumption == IsFiniteSet(Pool) /\ Cardinality(Pool) >= Len(Order) - 1
ASSUME InsideAssumption == Inside \subseteq Addr \X Addr
ASSUME NoneAssumption == None \notin Nat \cup Addr \cup Host \cup Cmd \cup Instance
ASSUME EventsAssumption == MaxEvents \in Nat

VARIABLES
    ws,        \* the workspace: its hosts and its revision
    bucket,    \* the state bucket: the settings made so far, or None
    table,     \* the lock table exists
    tfLock,    \* Terraform's state lock is held
    inst,      \* per host, its instance (address and host key), or None
    disk,      \* per host, what its instance carries
    made,      \* per host, how many instances it has had
    outputs,   \* outputs.json: the address of every host (none without the file)
    known,     \* known_hosts, a sequence of lines
    mesh,      \* mesh.json: the tailnet address of every host
    \* the current command
    pc,
    cmd,
    todo,      \* hosts still to be gone through
    joined,    \* tailnet addresses collected so far
    \* history and bounds
    strayed,   \* a key was enrolled for another host than the one it belongs to
    lone,      \* the base host was bootstrapped as the only one while others were left from before
    bareCut,   \* a run was cut off while it made the bucket
    unwritten, \* the last mesh run could not write mesh.json
    done,      \* the last command that reported success, if nothing happened since
    events

cloud == <<bucket, table, tfLock, inst, disk, made>>
files == <<outputs, known, mesh>>
hist  == <<strayed, lone, bareCut, unwritten>>
vars  == <<ws, cloud, files, pc, cmd, todo, joined, hist, done, events>>

(***************************************************************************)
(* Type correctness.                                                       *)
(***************************************************************************)
TypeOK ==
    /\ ws \in [hosts : {H \in SUBSET Host : Base \in H}, rev : Nat]
    /\ bucket \in (0..Settings) \cup {None}
    /\ table \in BOOLEAN /\ tfLock \in BOOLEAN
    /\ inst \in [Host -> Instance \cup {None}]
    /\ disk \in [Host -> [marker : BOOLEAN, nat : BOOLEAN, host : Host \cup {None},
                          rev : Nat \cup {None}, node : BOOLEAN]]
    /\ made \in [Host -> Nat]
    /\ outputs \in [Host -> Addr \cup {None}]
    /\ known \in Seq(Instance)
    /\ mesh \in [Host -> Key \cup {None}]
    /\ pc \in {"idle", "bucket", "settings", "table", "plan", "tofu", "outputs", "remove",
               "open", "trust", "bootstrap", "deploy", "users", "join"}
    /\ cmd \in Cmd \cup {None}
    /\ todo \subseteq Host
    /\ joined \in [Host -> Key \cup {None}]
    /\ strayed \in BOOLEAN /\ lone \in BOOLEAN /\ bareCut \in BOOLEAN /\ unwritten \in BOOLEAN
    /\ done \in Cmd \cup {None}
    /\ events \in 0..MaxEvents

----------------------------------------------------------------------------
Fresh  == [marker |-> FALSE, nat |-> FALSE, host |-> None, rev |-> None, node |-> FALSE]
Nobody == [h \in Host |-> None]

Init ==
    /\ ws \in [hosts : {H \in SUBSET Host : Base \in H}, rev : {0}]
    /\ bucket = None /\ table = FALSE /\ tfLock = FALSE
    /\ inst = Nobody
    /\ disk = [h \in Host |-> Fresh]
    /\ made = [h \in Host |-> 0]
    /\ outputs = Nobody /\ known = <<>> /\ mesh = Nobody
    /\ pc = "idle" /\ cmd = None /\ todo = {} /\ joined = Nobody
    /\ strayed = FALSE /\ lone = FALSE /\ bareCut = FALSE /\ unwritten = FALSE
    /\ done = None
    /\ events = 0

Event == events < MaxEvents /\ events' = events + 1

Leave  == pc' = "idle" /\ cmd' = None /\ todo' = {} /\ joined' = Nobody
Error  == Leave /\ UNCHANGED done
Return == Leave /\ done' = cmd

Go(from, to) == pc = from /\ pc' = to /\ UNCHANGED <<ws, cmd, joined, done, events>>

----------------------------------------------------------------------------
(* apply, apply --infra-only and destroy: the infrastructure               *)

Start(c) ==
    /\ pc = "idle"
    /\ cmd' = c
    /\ pc' = IF c \in {"apply", "infra", "destroy"} THEN "bucket" ELSE "open"
    /\ done' = None
    /\ IF c = "destroy" THEN Event ELSE UNCHANGED events
    /\ UNCHANGED <<ws, cloud, files, todo, joined, hist>>

\* ensureBucket looks at nothing but the bucket's existence.
BucketThere ==
    /\ bucket # None
    /\ Go("bucket", "table")
    /\ UNCHANGED <<cloud, files, todo, hist>>

CreateBucket ==
    /\ bucket = None
    /\ Go("bucket", "settings")
    /\ bucket' = 0
    /\ UNCHANGED <<table, tfLock, inst, disk, made, files, todo, hist>>

PutBucketSetting ==
    /\ bucket # None
    /\ Go("settings", IF bucket + 1 = Settings THEN "table" ELSE "settings")
    /\ bucket' = bucket + 1
    /\ UNCHANGED <<table, tfLock, inst, disk, made, files, todo, hist>>

EnsureTable ==
    /\ Go("table", "plan")
    /\ table' = TRUE
    /\ UNCHANGED <<bucket, tfLock, inst, disk, made, files, todo, hist>>

Planned  == IF cmd = "destroy" THEN {} ELSE ws.hosts
Standing == {h \in Host : inst[h] # None}

\* terraform plan, then apply with the lock; an unchanged plan leads straight to the outputs.
Plan ==
    /\ ~tfLock
    /\ Go("plan", IF Planned = Standing /\ cmd # "destroy" THEN "outputs" ELSE "tofu")
    /\ tfLock' = (Planned # Standing \/ cmd = "destroy")
    /\ UNCHANGED <<bucket, table, inst, disk, made, files, todo, hist>>

Addrs(h) ==
    IF h = Base THEN {BaseAddr} ELSE Pool \ {inst[g].addr : g \in Standing}

TofuCreate(h) ==
    /\ h \in Planned \ Standing
    /\ Go("tofu", "tofu")
    /\ \E a \in Addrs(h) : inst' = [inst EXCEPT ![h] = [addr |-> a, key |-> <<h, made[h]>>]]
    /\ disk' = [disk EXCEPT ![h] = Fresh]
    /\ made' = [made EXCEPT ![h] = @ + 1]
    /\ UNCHANGED <<bucket, table, tfLock, files, todo, hist>>

TofuDestroy(h) ==
    /\ h \in Standing \ Planned
    /\ Go("tofu", "tofu")
    /\ inst' = [inst EXCEPT ![h] = None]
    /\ disk' = [disk EXCEPT ![h] = Fresh]
    /\ UNCHANGED <<bucket, table, tfLock, made, files, todo, hist>>

TofuDone ==
    /\ Planned = Standing
    /\ Go("tofu", IF cmd = "destroy" THEN "remove" ELSE "outputs")
    /\ tfLock' = FALSE
    /\ UNCHANGED <<bucket, table, inst, disk, made, files, todo, hist>>

\* apply goes on with the fleet, --infra-only ends here.
WriteInfraOutputs ==
    /\ pc = "outputs"
    /\ outputs' = [h \in Host |-> IF inst[h] = None THEN None ELSE inst[h].addr]
    /\ IF cmd = "apply" THEN pc' = "open" /\ UNCHANGED <<cmd, todo, joined, done>> ELSE Return
    /\ UNCHANGED <<ws, cloud, known, mesh, hist, events>>

RemoveOutputs ==
    /\ pc = "remove"
    /\ outputs' = Nobody
    /\ Return
    /\ UNCHANGED <<ws, cloud, known, mesh, hist, events>>

\* unlock, with the lock's id from Terraform's message.
Unlock ==
    /\ pc = "idle" /\ tfLock
    /\ tfLock' = FALSE
    /\ UNCHANGED <<ws, bucket, table, inst, disk, made, files, pc, cmd, todo, joined, hist, done, events>>

----------------------------------------------------------------------------
(* The hosts                                                               *)

ByName(g, h) == \E j, k \in 1..Len(Order) : j < k /\ Order[j] = g /\ Order[k] = h

\* Mutant: every command goes through the hosts by name.
Precedes_ByName(g, h) == ByName(g, h)

\* The base host first, then by name; mesh goes through the hosts by name.
Precedes(g, h) == IF cmd # "mesh" /\ Base \in {g, h} THEN g = Base ELSE ByName(g, h)

\* The loop of the command is at h.
Turn(h) == h \in todo /\ \A g \in todo \ {h} : Precedes(h, g)

\* What a command does with each host: apply trusts, bootstraps and deploys it.
FirstStage == IF cmd = "apply" THEN "trust" ELSE IF cmd = "mesh" THEN "users" ELSE cmd
LastStage  == IF cmd = "apply" THEN "deploy" ELSE cmd

\* openFleet needs an address for every host of the workspace.
AddressesKnown == \A h \in ws.hosts : outputs[h] # None

OpenFleet ==
    /\ AddressesKnown
    /\ Go("open", FirstStage)
    /\ todo' = ws.hosts
    /\ UNCHANGED <<cloud, files, hist>>

\* The next stage for host h, or the next host, or the end.
Advance(h) ==
    \/ /\ pc = LastStage /\ todo = {h}
       /\ Return
    \/ /\ pc = LastStage /\ todo # {h}
       /\ pc' = FirstStage
       /\ todo' = todo \ {h}
       /\ UNCHANGED <<cmd, joined, done>>
    \/ /\ pc # LastStage
       /\ pc' = IF pc = "trust" THEN "bootstrap" ELSE "deploy"
       /\ UNCHANGED <<cmd, todo, joined, done>>

\* The instance that answers at the address outputs.json has for h.
At(h) == {m \in Standing : inst[m].addr = outputs[h]}

Line(h, m) == [addr |-> outputs[h], key |-> inst[m].key]

\* Mutant: any key will do for an address that has a line.
KeyTrusted_AnyKey(h, m) == \E k \in 1..Len(known) : known[k].addr = outputs[h]

\* The handshake compares the key with the lines of exactly this address.
KeyTrusted(h, m) == \E k \in 1..Len(known) : known[k] = Line(h, m)

\* A private host is reached through the base host.
BastionUp(h) == h # Base => \E m \in At(Base) : KeyTrusted(Base, m)

Dialed(h) == {m \in At(h) : BastionUp(h) /\ KeyTrusted(h, m)}

\* The k-th line has the address of h somewhere in its text.
Mentions(k, h) == known[k].addr = outputs[h] \/ <<known[k].addr, outputs[h]>> \in Inside

Unlisted(h) == \A k \in 1..Len(known) : ~Mentions(k, h)

\* Trust compares with the first line that mentions the address.
MayTrust(h, m) ==
    \/ Unlisted(h)
    \/ \E k \in 1..Len(known) :
          Mentions(k, h) /\ known[k] = Line(h, m) /\ \A j \in 1..(k - 1) : ~Mentions(j, h)

Trust ==
    /\ pc = "trust"
    /\ \E h \in Host :
          /\ Turn(h)
          /\ BastionUp(h)
          /\ \E m \in At(h) :
                /\ MayTrust(h, m)
                /\ known' = IF Unlisted(h) THEN Append(known, Line(h, m)) ELSE known
                /\ strayed' = (strayed \/ m # h)
          /\ Advance(h)
    /\ UNCHANGED <<ws, cloud, outputs, mesh, lone, bareCut, unwritten, events>>

NAT(h) == h = Base /\ Cardinality(ws.hosts) > 1

\* Private hosts get their packages through the base host.
Egress(m) == m = Base \/ disk[Base].nat

\* Mutant: the script goes on when a command of it fails.
BootstrapOK_NoErrexit(m) == TRUE

\* The script ends early where its marker is.
BootstrapOK(m) == disk[m].marker \/ Egress(m)

Bootstrapped(h, m) ==
    IF disk[m].marker THEN disk ELSE [disk EXCEPT ![m].marker = TRUE, ![m].nat = NAT(h)]

\* The base host gets no NAT although another host has been bootstrapped before.
BootstrapsAlone(h, m) ==
    m = Base /\ ~disk[m].marker /\ ~NAT(h) /\ \E g \in Host \ {Base} : disk[g].marker

Bootstrap ==
    /\ pc = "bootstrap"
    /\ \E h \in Host :
          /\ Turn(h)
          /\ \E m \in Dialed(h) :
                /\ BootstrapOK(m)
                /\ disk' = Bootstrapped(h, m)
                /\ lone' = (lone \/ BootstrapsAlone(h, m))
          /\ Advance(h)
    /\ UNCHANGED <<ws, bucket, table, tfLock, inst, made, files, strayed, bareCut, unwritten, events>>

\* Needs podman, which bootstrap installs.
DeployHost ==
    /\ pc = "deploy"
    /\ \E h \in Host :
          /\ Turn(h)
          /\ \E m \in Dialed(h) :
                disk[m].marker /\ disk' = [disk EXCEPT ![m].host = h, ![m].rev = ws.rev]
          /\ Advance(h)
    /\ UNCHANGED <<ws, bucket, table, tfLock, inst, made, files, hist, events>>

----------------------------------------------------------------------------
(* mesh                                                                    *)

HeadscaleUp == \E m \in Dialed(Base) : disk[m].rev # None

EnsureUsers ==
    /\ HeadscaleUp
    /\ Go("users", "join")
    /\ UNCHANGED <<cloud, files, todo, hist>>

\* A key from Headscale, then the node's unit on the host; a node keeps its address.
MayJoin(h, m) == HeadscaleUp /\ disk[m].marker

JoinMesh ==
    /\ pc = "join"
    /\ \E h \in Host :
          /\ Turn(h)
          /\ \E m \in Dialed(h) :
                /\ MayJoin(h, m)
                /\ disk' = [disk EXCEPT ![m].node = TRUE]
                /\ joined' = [joined EXCEPT ![h] = inst[m].key]
          /\ todo' = todo \ {h}
    /\ UNCHANGED <<ws, bucket, table, tfLock, inst, made, files, pc, cmd, hist, done, events>>

\* mesh.json is written once all have joined; failing to is a warning.
WriteMeshIPs ==
    /\ pc = "join" /\ todo = {}
    /\ \/ mesh' = joined /\ unwritten' = FALSE /\ UNCHANGED events
       \/ Event /\ unwritten' = TRUE /\ UNCHANGED mesh
    /\ Return
    /\ UNCHANGED <<ws, cloud, outputs, known, strayed, lone, bareCut>>

----------------------------------------------------------------------------
(* Failures and the world outside                                          *)

\* What ends a command by itself.
Refusal ==
    CASE pc = "plan"      -> tfLock
      [] pc = "open"      -> ~AddressesKnown
      [] pc = "trust"     -> \E h \in Host : Turn(h) /\ (~BastionUp(h) \/ \A m \in At(h) : ~MayTrust(h, m))
      [] pc = "bootstrap" -> \E h \in Host : Turn(h) /\ \A m \in Dialed(h) : ~BootstrapOK(m)
      [] pc = "deploy"    -> \E h \in Host : Turn(h) /\ \A m \in Dialed(h) : ~disk[m].marker
      [] pc = "users"     -> ~HeadscaleUp
      [] pc = "join"      -> \E h \in Host : Turn(h) /\ \A m \in Dialed(h) : ~MayJoin(h, m)
      [] OTHER            -> FALSE

Refused ==
    /\ Refusal
    /\ Error
    /\ UNCHANGED <<ws, cloud, files, hist, events>>

\* A call fails or the command dies; Terraform gives the lock back only in the first case.
Cut ==
    /\ pc # "idle"
    /\ Event
    /\ Error
    /\ tfLock' \in IF pc = "tofu" THEN BOOLEAN ELSE {tfLock}
    /\ bareCut' = (bareCut \/ pc = "settings")
    /\ UNCHANGED <<ws, bucket, table, inst, disk, made, files, strayed, lone, unwritten>>

\* Instances are terminated.
LoseHosts ==
    /\ pc = "idle"
    /\ Event
    /\ \E S \in (SUBSET Standing) \ {{}} :
          /\ inst' = [h \in Host |-> IF h \in S THEN None ELSE inst[h]]
          /\ disk' = [h \in Host |-> IF h \in S THEN Fresh ELSE disk[h]]
    /\ done' = None
    /\ UNCHANGED <<ws, bucket, table, tfLock, made, files, pc, cmd, todo, joined, hist>>

\* The workspace's hosts or anything else in it changes.
EditWorkspace ==
    /\ pc = "idle"
    /\ Event
    /\ \E H \in SUBSET Host : Base \in H /\ ws' = [hosts |-> H, rev |-> ws.rev + 1]
    /\ done' = None
    /\ UNCHANGED <<cloud, files, pc, cmd, todo, joined, hist>>

\* The operator removes a line of known_hosts, as Trust's error says.
EditKnownHosts ==
    /\ pc = "idle"
    /\ Event
    /\ \E k \in 1..Len(known) : 
          known' = [j \in 1..(Len(known) - 1) |-> IF j < k THEN known[j] ELSE known[j + 1]]
    /\ done' = None
    /\ UNCHANGED <<ws, cloud, outputs, mesh, pc, cmd, todo, joined, hist>>

----------------------------------------------------------------------------
Step ==
    \/ BucketThere \/ CreateBucket \/ PutBucketSetting \/ EnsureTable \/ Plan
    \/ (\E h \in Host : TofuCreate(h) \/ TofuDestroy(h)) \/ TofuDone
    \/ WriteInfraOutputs \/ RemoveOutputs
    \/ OpenFleet \/ Trust \/ Bootstrap \/ DeployHost
    \/ EnsureUsers \/ JoinMesh \/ WriteMeshIPs
    \/ Refused

Next ==
    \/ \E c \in Cmd : Start(c)
    \/ Step \/ Unlock
    \/ Cut \/ LoseHosts \/ EditWorkspace \/ EditKnownHosts

Spec == Init /\ [][Next]_vars

(***************************************************************************)
(* A command goes on by itself; the operator runs apply again and again,   *)
(* and unlock when Terraform reports a lock nobody holds.                  *)
(***************************************************************************)
FairSpec == Spec /\ WF_vars(Step) /\ SF_vars(Start("apply")) /\ SF_vars(Unlock)

----------------------------------------------------------------------------
\* Every host of the workspace is there, bootstrapped, and runs its own stacks.
Up ==
    /\ Standing = ws.hosts
    /\ AddressesKnown
    /\ \A h \in ws.hosts :
          /\ At(h) = {h} /\ Dialed(h) = {h}
          /\ disk[h].marker /\ disk[h].host = h /\ disk[h].rev = ws.rev

\* Private hosts have a way out.
WayOut == Cardinality(ws.hosts) > 1 => disk[Base].nat

(***************************************************************************)
(* An apply that reported success left every host of the workspace up and  *)
(* reachable, private ones with a way out through the base host unless     *)
(* that one was bootstrapped as the only host while others were left from  *)
(* before, and the state bucket protected unless a run was cut off while   *)
(* making it; a mesh run left mesh.json with every host's address unless   *)
(* it warned.                                                              *)
(***************************************************************************)
OkMeansUp ==
    /\ done = "apply" => Up /\ (WayOut \/ lone) /\ (bucket = Settings \/ bareCut)
    /\ done = "mesh" /\ ~unwritten =>
          \A h \in ws.hosts : \A m \in At(h) : mesh[h] = inst[m].key /\ disk[m].node

(***************************************************************************)
(* However old outputs.json is and whoever has got an address since, a     *)
(* host's stacks reach another host's instance only if that instance's key *)
(* was enrolled under the wrong name: the pinned keys protect the others.  *)
(***************************************************************************)
ForeignOnlyIfStrayed ==
    (\E m \in Host : disk[m].host \notin {None, m}) => strayed

\* A line of known_hosts, of an earlier instance or of a longer address, is in the way.
KeyInTheWay ==
    \E h \in ws.hosts : \E m \in At(h) : ~MayTrust(h, m)

\* The base host was bootstrapped when it was the only one, and its marker keeps it so.
NATMissing ==
    disk[Base].marker /\ ~disk[Base].nat /\ \E h \in ws.hosts : ~disk[h].marker

(***************************************************************************)
(* An operator who repeats apply and releases stale locks gets the fleet   *)
(* up after any number of failures, unless a line of known_hosts is in the *)
(* way or the base host was bootstrapped alone before the fleet grew.      *)
(***************************************************************************)
RetriesBringUp == <>[](KeyInTheWay \/ NATMissing) \/ []<>(Up /\ (WayOut \/ lone))

=============================================================================
