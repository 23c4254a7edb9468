---------------------------- MODULE FleetProofs ----------------------------
(***************************************************************************)
(* Proofs about Fleet, for any number of hosts and addresses, any overlap  *)
(* of the addresses' texts and any number of failures.                     *)
(***************************************************************************)
EXTENDS Fleet, FiniteSetTheorems, TLAPS

USE DEF cloud, files, hist

----------------------------------------------------------------------------
(***************************************************************************)
(* The inductive invariant.                                                *)
(***************************************************************************)

Stage == {"trust", "bootstrap", "deploy"}

\* Which commands are in which phase; a success is reported between commands.
PhaseInv ==
    /\ pc # "idle" => done = None
    /\ pc \in {"bucket", "settings", "table", "plan", "tofu"} => cmd \in {"apply", "infra", "destroy"}
    /\ pc = "outputs" => cmd \in {"apply", "infra"}
    /\ pc = "remove" => cmd = "destroy" /\ Standing = {}
    /\ pc = "open" => cmd \in Cmd \ {"infra", "destroy"}
    /\ pc \in Stage => cmd \in {"apply", pc}
    /\ pc \in {"users", "join"} => cmd = "mesh"

\* A key names the host of its instance and is never used again, two instances
\* never share an address, and only the base host has its own.
InstanceInv ==
    /\ \A h \in Standing : /\ inst[h].key[1] = h /\ inst[h].key[2] < made[h]
                           /\ inst[h].addr = BaseAddr <=> h = Base
    /\ \A g, h \in Standing : inst[g].addr = inst[h].addr => g = h
    /\ \A k \in 1..Len(known) : known[k].key[2] < made[known[k].key[1]]

\* outputs.json, however old, never has one address for two hosts.
OutputsInv == \A g, h \in Host : outputs[g] = outputs[h] => g = h \/ outputs[g] = None

\* Unless a key strayed: while the instance of an enrolled key stands, outputs.json
\* has its address for its own host.
EnrolledInv ==
    ~strayed => \A m \in Standing : \A k \in 1..Len(known) :
                       known[k].key = inst[m].key => outputs[m] = inst[m].addr

\* The state bucket is unprotected only while it is made, or after a cut.
BucketInv ==
    /\ pc = "settings" => bucket \in 0..(Settings - 1)
    /\ pc # "settings" => bucket \in {None, Settings} \/ bareCut
    /\ pc \in {"table", "plan", "tofu", "outputs"} => bucket # None
    /\ (cmd = "apply" /\ pc \in Stage \cup {"open"}) \/ done = "apply" => bucket # None

\* The addresses are those of the instances that stand.
Current == \A h \in Host : outputs[h] = IF inst[h] = None THEN None ELSE inst[h].addr

\* What apply has done for the hosts it has been through, and for the one it is at.
Served(h) == KeyTrusted(h, h) /\ disk[h].marker /\ disk[h].host = h /\ disk[h].rev = ws.rev

\* The hosts still to be gone through are hosts of the workspace.
TodoInv == todo \subseteq ws.hosts /\ (pc = "idle" => todo = {})

ApplyInv ==
    /\ pc = "outputs" => Standing = ws.hosts
    /\ (cmd = "apply" /\ pc \in Stage \cup {"open"}) \/ done = "apply" => Standing = ws.hosts /\ Current
    /\ (cmd = "apply" /\ pc \in Stage) => \A h \in ws.hosts \ todo : Served(h)
    /\ (cmd = "apply" /\ pc \in {"bootstrap", "deploy"}) => \A h \in Host : Turn(h) => KeyTrusted(h, h)
    /\ (cmd = "apply" /\ pc = "deploy") => \A h \in Host : Turn(h) => disk[h].marker
    /\ done = "apply" => \A h \in ws.hosts : Served(h)

\* The base host lacks NAT beside a bootstrapped private host only if it was
\* bootstrapped after that one.
NATInv ==
    (disk[Base].marker /\ ~disk[Base].nat /\ \E h \in Host \ {Base} : disk[h].marker) => lone

Member(f, h) == \A m \in At(h) : f[h] = inst[m].key /\ disk[m].node

MeshInv ==
    /\ pc = "users" => todo = ws.hosts
    /\ pc = "join" => \A h \in ws.hosts \ todo : Member(joined, h)
    /\ (done = "mesh" /\ ~unwritten) => \A h \in ws.hosts : Member(mesh, h)

IInv == /\ TypeOK /\ PhaseInv /\ InstanceInv /\ OutputsInv /\ EnrolledInv /\ BucketInv
        /\ TodoInv /\ ApplyInv /\ NATInv /\ MeshInv /\ ForeignOnlyIfStrayed

----------------------------------------------------------------------------
(***************************************************************************)
(* Facts about the operators.                                              *)
(***************************************************************************)

\* What a host's instance carries.
Disk == [marker : BOOLEAN, nat : BOOLEAN, host : Host \cup {None}, rev : Nat \cup {None},
         node : BOOLEAN]

\* An event counts up to the bound.
LEMMA EventType == ASSUME TypeOK, Event PROVE events' \in 0..MaxEvents
BY EventsAssumption DEF TypeOK, Event

\* The loop of a command is at one host.
LEMMA OneTurn ==
    ASSUME NEW g \in Host, NEW h \in Host, Turn(g), Turn(h)
    PROVE  g = h
<1> SUFFICES ASSUME g # h PROVE FALSE
  OBVIOUS
<1>1. Precedes(g, h) /\ Precedes(h, g)
  BY DEF Turn
<1>2. CASE cmd # "mesh" /\ Base \in {g, h}
  BY <1>1, <1>2 DEF Precedes
<1>3. CASE ~(cmd # "mesh" /\ Base \in {g, h})
  <2>1. PICK j, k \in 1..Len(Order) : j < k /\ Order[j] = g /\ Order[k] = h
    BY <1>1, <1>3 DEF Precedes, ByName
  <2>2. PICK m, n \in 1..Len(Order) : m < n /\ Order[m] = h /\ Order[n] = g
    BY <1>1, <1>3 DEF Precedes, ByName
  <2>3. j = n /\ k = m
    BY <2>1, <2>2, OrderAssumption
  <2>4. Len(Order) \in Nat
    BY OrderAssumption
  <2> QED BY <2>1, <2>2, <2>3, <2>4
<1> QED BY <1>2, <1>3

\* The end of a command, and the next host or stage, keep the types of its memory.
LEMMA LeaveType ==
    ASSUME Leave
    PROVE  pc' = "idle" /\ cmd' = None /\ todo' \subseteq Host /\ joined' \in [Host -> Key \cup {None}]
BY DEF Leave, Nobody

LEMMA AdvanceType ==
    ASSUME TypeOK, PhaseInv, pc \in Stage, NEW h \in Host, Advance(h)
    PROVE  /\ pc' \in Stage \cup {"idle"}
           /\ cmd' \in Cmd \cup {None}
           /\ todo' \subseteq Host
           /\ joined' \in [Host -> Key \cup {None}]
           /\ done' \in Cmd \cup {None}
<1>1. cmd \in {"apply", pc}
  BY DEF PhaseInv
<1>2. CASE Return
  BY <1>2, LeaveType DEF Return, TypeOK, Stage
<1>3. CASE ~Return
  BY <1>1, <1>3 DEF Advance, TypeOK, Stage, LastStage, FirstStage
<1> QED BY <1>2, <1>3

\* A host that is dialled stands, answers at the address of outputs.json and has
\* a line of its own in known_hosts.
LEMMA DialedFacts ==
    ASSUME NEW h \in Host, NEW m \in Dialed(h)
    PROVE  /\ m \in Standing /\ m \in Host /\ m \in At(h) /\ inst[m].addr = outputs[h]
           /\ \E k \in 1..Len(known) : known[k] = Line(h, m)
BY DEF Dialed, At, Standing, KeyTrusted

\* An instance that stands is a record.
LEMMA StandingType ==
    ASSUME TypeOK, NEW m \in Standing
    PROVE  inst[m] \in Instance /\ m \in Host
BY DEF TypeOK, Standing

\* Removing a line of known_hosts leaves only lines that were there.
LEMMA KnownShrinks ==
    ASSUME TypeOK, EditKnownHosts
    PROVE  \A k \in 1..Len(known') : \E j \in 1..Len(known) : known'[k] = known[j]
<1>1. PICK k \in 1..Len(known) :
         known' = [j \in 1..(Len(known) - 1) |-> IF j < k THEN known[j] ELSE known[j + 1]]
  BY DEF EditKnownHosts
<1>2. Len(known) \in Nat /\ Len(known') = Len(known) - 1
  BY <1>1 DEF TypeOK
<1> QED BY <1>1, <1>2

\* Where a command may end by itself.
LEMMA RefusedPhase ==
    Refused => pc \in {"plan", "open", "trust", "bootstrap", "deploy", "users", "join"}
BY DEF Refused, Refusal

\* With current addresses every host of the workspace answers at its own.
LEMMA AtSelf ==
    ASSUME TypeOK, InstanceInv, Standing = ws.hosts, Current, NEW h \in ws.hosts
    PROVE  At(h) = {h}
<1>1. h \in Standing /\ h \in Host /\ outputs[h] = inst[h].addr
  BY DEF TypeOK, Current, Standing
<1>2. \A m \in Standing : inst[m].addr = inst[h].addr => m = h
  BY <1>1 DEF InstanceInv
<1> QED BY <1>1, <1>2 DEF At

\* At most one instance answers at an address.
LEMMA AtOne ==
    ASSUME InstanceInv, NEW h \in Host, NEW m \in At(h), NEW n \in At(h)
    PROVE  m = n
BY DEF At, InstanceInv

\* Enrolling a key keeps the others, and the host it was enrolled for is trusted.
LEMMA TrustKeeps ==
    ASSUME TypeOK, NEW h \in Host, NEW m \in At(h), MayTrust(h, m),
           known' = IF Unlisted(h) THEN Append(known, Line(h, m)) ELSE known,
           UNCHANGED <<inst, outputs>>
    PROVE  /\ KeyTrusted(h, m)'
           /\ \A g \in Host : KeyTrusted(g, g) => KeyTrusted(g, g)'
<1>1. Line(h, m)' = Line(h, m) /\ \A g \in Host : Line(g, g)' = Line(g, g)
  BY DEF Line
<1>2. Len(known) \in Nat /\ known \in Seq(Instance)
  BY DEF TypeOK
<1>3. \A k \in 1..Len(known) : k \in 1..Len(known') /\ known'[k] = known[k]
  BY <1>2
<1>4. CASE Unlisted(h)
  <2>1. Len(known) + 1 \in 1..Len(known') /\ known'[Len(known) + 1] = Line(h, m)
    BY <1>2, <1>4
  <2> QED BY <1>1, <1>3, <2>1 DEF KeyTrusted
<1>5. CASE ~Unlisted(h)
  <2>1. \E k \in 1..Len(known) : known[k] = Line(h, m)
    BY <1>5 DEF MayTrust
  <2> QED BY <1>1, <1>3, <2>1 DEF KeyTrusted
<1> QED BY <1>4, <1>5

----------------------------------------------------------------------------
(***************************************************************************)
(* Type correctness.                                                       *)
(***************************************************************************)

\* Every initial state is well typed.
LEMMA TypeInit == Init => TypeOK
<1> SUFFICES ASSUME Init PROVE TypeOK
  OBVIOUS
<1>1. table \in BOOLEAN /\ tfLock \in BOOLEAN /\ strayed \in BOOLEAN /\ lone \in BOOLEAN
      /\ bareCut \in BOOLEAN /\ unwritten \in BOOLEAN
  BY Zenon DEF Init
<1>2. ws \in [hosts : {H \in SUBSET Host : Base \in H}, rev : Nat]
  BY DEF Init
<1>3. Fresh \in Disk
  BY DEF Fresh, Disk
<1>4. disk \in [Host -> Disk]
  BY <1>3 DEF Init
<1>5. events \in 0..MaxEvents
  BY EventsAssumption DEF Init
<1> QED BY <1>1, <1>2, <1>4, <1>5 DEF Init, TypeOK, Disk, Nobody

\* Every step of a command or of the world outside keeps the types.
LEMMA TypeStep == TypeOK /\ PhaseInv /\ BucketInv /\ Next => TypeOK'
<1> SUFFICES ASSUME TypeOK, PhaseInv, BucketInv, Next PROVE TypeOK'
  OBVIOUS
<1>1. ASSUME NEW c \in Cmd, Start(c) PROVE TypeOK'
  BY <1>1, EventType DEF Start, TypeOK, Cmd
<1>2. CASE BucketThere
  BY <1>2 DEF BucketThere, Go, TypeOK
<1>3. CASE CreateBucket
  BY <1>3 DEF CreateBucket, Go, TypeOK, Settings
<1>4. CASE PutBucketSetting
  <2>1. bucket' \in (0..Settings) \cup {None}
    BY <1>4, NoneAssumption DEF PutBucketSetting, Go, BucketInv, Settings
  <2> QED BY <1>4, <2>1 DEF PutBucketSetting, Go, TypeOK
<1>5. CASE EnsureTable
  <2>1. table' \in BOOLEAN
    BY <1>5, Zenon DEF EnsureTable
  <2> QED BY <1>5, <2>1 DEF EnsureTable, Go, TypeOK
<1>6. CASE Plan
  <2>1. tfLock' \in BOOLEAN
    BY <1>6, Zenon DEF Plan
  <2> QED BY <1>6, <2>1 DEF Plan, Go, TypeOK
<1>7. ASSUME NEW h \in Host, TofuCreate(h) PROVE TypeOK'
  <2>1. PICK a \in Addrs(h) : inst' = [inst EXCEPT ![h] = [addr |-> a, key |-> <<h, made[h]>>]]
    BY <1>7 DEF TofuCreate
  <2>2. [addr |-> a, key |-> <<h, made[h]>>] \in Instance
    BY <2>1 DEF Addrs, Addr, Instance, Key, TypeOK
  <2>3. inst' \in [Host -> Instance \cup {None}]
    BY <2>1, <2>2 DEF TypeOK
  <2>4. disk' \in [Host -> Disk]
    BY <1>7 DEF TofuCreate, TypeOK, Fresh, Disk
  <2>5. made' \in [Host -> Nat]
    BY <1>7 DEF TofuCreate, TypeOK
  <2> QED BY <1>7, <2>3, <2>4, <2>5 DEF TofuCreate, Go, TypeOK, Disk
<1>8. ASSUME NEW h \in Host, TofuDestroy(h) PROVE TypeOK'
  <2>1. disk' \in [Host -> Disk]
    BY <1>8 DEF TofuDestroy, TypeOK, Fresh, Disk
  <2> QED BY <1>8, <2>1 DEF TofuDestroy, Go, TypeOK, Disk
<1>9. CASE TofuDone
  <2>1. tfLock' \in BOOLEAN
    BY <1>9, Zenon DEF TofuDone
  <2> QED BY <1>9, <2>1 DEF TofuDone, Go, TypeOK
<1>10. CASE WriteInfraOutputs
  <2>1. outputs' \in [Host -> Addr \cup {None}]
    BY <1>10 DEF WriteInfraOutputs, TypeOK, Instance
  <2>2. CASE cmd = "apply"
    BY <1>10, <2>1, <2>2 DEF WriteInfraOutputs, TypeOK
  <2>3. CASE cmd # "apply"
    BY <1>10, <2>1, <2>3, LeaveType DEF WriteInfraOutputs, Return, PhaseInv, TypeOK
  <2> QED BY <2>2, <2>3
<1>11. CASE RemoveOutputs
  <2>1. outputs' \in [Host -> Addr \cup {None}]
    BY <1>11 DEF RemoveOutputs, Nobody
  <2> QED BY <1>11, <2>1, LeaveType DEF RemoveOutputs, Return, PhaseInv, TypeOK
<1>12. CASE OpenFleet
  BY <1>12 DEF OpenFleet, Go, FirstStage, TypeOK, PhaseInv, Cmd
<1>13. CASE Trust
  <2>1. PICK h \in Host, m \in Host :
           /\ m \in At(h)
           /\ known' = IF Unlisted(h) THEN Append(known, Line(h, m)) ELSE known
           /\ strayed' = (strayed \/ m # h)
           /\ Advance(h)
    BY <1>13 DEF Trust, At, Standing
  <2>2. Line(h, m) \in Instance
    BY <2>1, StandingType DEF Line, At, Instance, TypeOK
  <2>3. known' \in Seq(Instance)
    BY <2>1, <2>2 DEF TypeOK
  <2>4. strayed' \in BOOLEAN
    BY <2>1, Zenon
  <2>5. pc \in Stage
    BY <1>13 DEF Trust, Stage
  <2> QED BY <1>13, <2>1, <2>3, <2>4, <2>5, AdvanceType DEF Trust, TypeOK, Stage
<1>14. CASE Bootstrap
  <2>1. PICK h \in Host, m \in Host :
           /\ m \in Dialed(h)
           /\ disk' = Bootstrapped(h, m)
           /\ lone' = (lone \/ BootstrapsAlone(h, m))
           /\ Advance(h)
    BY <1>14, DialedFacts DEF Bootstrap
  <2>2. disk[m] \in Disk /\ m \in Host
    BY <2>1, DialedFacts DEF TypeOK, Disk
  <2>3. NAT(h) \in BOOLEAN
    BY DEF NAT
  <2>4. [disk[m] EXCEPT !.marker = TRUE, !.nat = NAT(h)] \in Disk
    BY <2>2, <2>3 DEF Disk
  <2>5. disk' \in [Host -> Disk]
    BY <2>1, <2>2, <2>4 DEF Bootstrapped, TypeOK, Disk
  <2>6. lone' \in BOOLEAN
    BY <2>1, Zenon
  <2>7. pc \in Stage
    BY <1>14 DEF Bootstrap, Stage
  <2> QED BY <1>14, <2>1, <2>5, <2>6, <2>7, AdvanceType DEF Bootstrap, TypeOK, Stage, Disk
<1>15. CASE DeployHost
  <2>1. PICK h \in Host, m \in Host :
           /\ m \in Dialed(h)
           /\ disk' = [disk EXCEPT ![m].host = h, ![m].rev = ws.rev]
           /\ Advance(h)
    BY <1>15, DialedFacts DEF DeployHost
  <2>2. disk[m] \in Disk /\ m \in Host /\ ws.rev \in Nat
    BY <2>1, DialedFacts DEF TypeOK, Disk
  <2>3. [disk[m] EXCEPT !.host = h, !.rev = ws.rev] \in Disk
    BY <2>2 DEF Disk
  <2>4. disk' \in [Host -> Disk]
    BY <2>1, <2>2, <2>3 DEF TypeOK, Disk
  <2>5. pc \in Stage
    BY <1>15 DEF DeployHost, Stage
  <2> QED BY <1>15, <2>1, <2>4, <2>5, AdvanceType DEF DeployHost, TypeOK, Stage, Disk
<1>16. CASE EnsureUsers
  BY <1>16 DEF EnsureUsers, Go, TypeOK
<1>17. CASE JoinMesh
  <2>1. PICK h \in Host, m \in Host :
           /\ m \in Dialed(h)
           /\ disk' = [disk EXCEPT ![m].node = TRUE]
           /\ joined' = [joined EXCEPT ![h] = inst[m].key]
           /\ todo' = todo \ {h}
    BY <1>17, DialedFacts DEF JoinMesh
  <2>2. disk[m] \in Disk /\ m \in Host /\ inst[m] \in Instance
    BY <2>1, DialedFacts, StandingType DEF TypeOK, Disk
  <2>3. [disk[m] EXCEPT !.node = TRUE] \in Disk
    BY <2>2 DEF Disk
  <2>4. disk' \in [Host -> Disk]
    BY <2>1, <2>2, <2>3 DEF TypeOK, Disk
  <2>5. joined' \in [Host -> Key \cup {None}]
    BY <2>1, <2>2 DEF TypeOK, Instance
  <2> QED BY <1>17, <2>1, <2>4, <2>5 DEF JoinMesh, TypeOK, Disk
<1>18. CASE WriteMeshIPs
  <2>1. unwritten' \in BOOLEAN
    BY <1>18, Zenon DEF WriteMeshIPs
  <2>2. events' \in 0..MaxEvents
    BY <1>18, EventType DEF WriteMeshIPs, TypeOK
  <2> QED BY <1>18, <2>1, <2>2, LeaveType DEF WriteMeshIPs, Return, PhaseInv, TypeOK
<1>19. CASE Refused
  BY <1>19, LeaveType DEF Refused, Error, TypeOK
<1>20. CASE Unlock
  <2>1. tfLock' \in BOOLEAN
    BY <1>20, Zenon DEF Unlock
  <2> QED BY <1>20, <2>1 DEF Unlock, TypeOK
<1>21. CASE Cut
  <2>1. tfLock' \in BOOLEAN /\ bareCut' \in BOOLEAN
    BY <1>21, Zenon DEF Cut, TypeOK
  <2>2. events' \in 0..MaxEvents
    BY <1>21, EventType DEF Cut
  <2> QED BY <1>21, <2>1, <2>2, LeaveType DEF Cut, Error, TypeOK
<1>22. CASE LoseHosts
  <2>1. Fresh \in Disk
    BY DEF Fresh, Disk
  <2>2. disk' \in [Host -> Disk]
    BY <1>22, <2>1 DEF LoseHosts, TypeOK, Disk
  <2>3. inst' \in [Host -> Instance \cup {None}]
    BY <1>22 DEF LoseHosts, TypeOK
  <2>4. events' \in 0..MaxEvents
    BY <1>22, EventType DEF LoseHosts
  <2> QED BY <1>22, <2>2, <2>3, <2>4 DEF LoseHosts, TypeOK, Disk
<1>23. CASE EditWorkspace
  <2>1. ws' \in [hosts : {H \in SUBSET Host : Base \in H}, rev : Nat]
    BY <1>23 DEF EditWorkspace, TypeOK
  <2>2. events' \in 0..MaxEvents
    BY <1>23, EventType DEF EditWorkspace
  <2> QED BY <1>23, <2>1, <2>2 DEF EditWorkspace, TypeOK
<1>24. CASE EditKnownHosts
  <2>1. PICK k \in 1..Len(known) :
           known' = [j \in 1..(Len(known) - 1) |-> IF j < k THEN known[j] ELSE known[j + 1]]
    BY <1>24 DEF EditKnownHosts
  <2>2. Len(known) - 1 \in Nat
    BY <2>1 DEF TypeOK
  <2>3. \A j \in 1..(Len(known) - 1) : (IF j < k THEN known[j] ELSE known[j + 1]) \in Instance
    BY <2>1, <2>2 DEF TypeOK
  <2>4. known' \in Seq(Instance)
    BY <2>1, <2>2, <2>3
  <2>5. events' \in 0..MaxEvents
    BY <1>24, EventType DEF EditKnownHosts
  <2> QED BY <1>24, <2>4, <2>5 DEF EditKnownHosts, TypeOK
<1> QED BY <1>1, <1>2, <1>3, <1>4, <1>5, <1>6, <1>7, <1>8, <1>9, <1>10, <1>11, <1>12, <1>13,
    <1>14, <1>15, <1>16, <1>17, <1>18, <1>19, <1>20, <1>21, <1>22, <1>23, <1>24 DEF Next,
    Step

----------------------------------------------------------------------------
(***************************************************************************)
(* Which actions touch what.                                               *)
(***************************************************************************)

\* Instances come and go with Terraform, or are lost.
LEMMA InstanceFrame ==
    ASSUME Next
    PROVE  \/ UNCHANGED <<inst, made>>
           \/ \E h \in Host : TofuCreate(h) \/ TofuDestroy(h)
           \/ LoseHosts
BY DEF Next, Step, Start, BucketThere, CreateBucket, PutBucketSetting, EnsureTable, Plan,
    TofuDone, OpenFleet, EnsureUsers, Go, Refused, Error, Unlock, Cut, WriteInfraOutputs,
    RemoveOutputs, Trust, Bootstrap, DeployHost, JoinMesh, WriteMeshIPs, EditWorkspace,
    EditKnownHosts

\* outputs.json is written after an apply of the infrastructure and removed after a destroy.
LEMMA OutputsFrame ==
    ASSUME Next
    PROVE  \/ UNCHANGED <<outputs>>
           \/ WriteInfraOutputs
           \/ RemoveOutputs
BY DEF Next, Step, Start, BucketThere, CreateBucket, PutBucketSetting, EnsureTable, Plan,
    TofuDone, OpenFleet, EnsureUsers, Go, Refused, Error, Unlock, Cut, TofuCreate,
    TofuDestroy, Trust, Bootstrap, DeployHost, JoinMesh, WriteMeshIPs, LoseHosts,
    EditWorkspace, EditKnownHosts

\* Keys are enrolled by Trust and removed by the operator.
LEMMA KnownFrame ==
    ASSUME Next
    PROVE  \/ UNCHANGED <<known, strayed>>
           \/ Trust
           \/ EditKnownHosts
BY DEF Next, Step, Start, BucketThere, CreateBucket, PutBucketSetting, EnsureTable, Plan,
    TofuDone, OpenFleet, EnsureUsers, Go, Refused, Error, Unlock, Cut, TofuCreate,
    TofuDestroy, WriteInfraOutputs, RemoveOutputs, Bootstrap, DeployHost, JoinMesh,
    WriteMeshIPs, LoseHosts, EditWorkspace

\* What a host carries changes with its instance, or by bootstrap, deploy and mesh.
LEMMA DiskFrame ==
    ASSUME Next
    PROVE  \/ UNCHANGED <<disk, lone>>
           \/ \E h \in Host : TofuCreate(h) \/ TofuDestroy(h)
           \/ LoseHosts
           \/ Bootstrap
           \/ DeployHost
           \/ JoinMesh
BY DEF Next, Step, Start, BucketThere, CreateBucket, PutBucketSetting, EnsureTable, Plan,
    TofuDone, OpenFleet, EnsureUsers, Go, Refused, Error, Unlock, Cut, WriteInfraOutputs,
    RemoveOutputs, Trust, WriteMeshIPs, EditWorkspace, EditKnownHosts

\* Only the operator changes the workspace.
LEMMA WorkspaceFrame ==
    ASSUME Next
    PROVE  \/ UNCHANGED <<ws>>
           \/ EditWorkspace
BY DEF Next, Step, Start, BucketThere, CreateBucket, PutBucketSetting, EnsureTable, Plan,
    TofuDone, OpenFleet, EnsureUsers, Go, Refused, Error, Unlock, Cut, TofuCreate,
    TofuDestroy, WriteInfraOutputs, RemoveOutputs, Trust, Bootstrap, DeployHost, JoinMesh,
    WriteMeshIPs, LoseHosts, EditKnownHosts

----------------------------------------------------------------------------
(***************************************************************************)
(* The other parts of the invariant, one lemma each.                       *)
(***************************************************************************)

\* A command stays within its phases.
LEMMA PhaseStep == TypeOK /\ PhaseInv /\ Next => PhaseInv'
<1> SUFFICES ASSUME TypeOK, PhaseInv, Next PROVE PhaseInv'
  OBVIOUS
<1>1. ASSUME NEW c \in Cmd, Start(c) PROVE PhaseInv'
  BY <1>1 DEF Start, Event, Cmd, PhaseInv, Stage
<1>2. CASE BucketThere
  BY <1>2 DEF BucketThere, Go, PhaseInv, Stage
<1>3. CASE CreateBucket
  BY <1>3 DEF CreateBucket, Go, PhaseInv, Stage
<1>4. CASE PutBucketSetting
  BY <1>4 DEF PutBucketSetting, Go, PhaseInv, Stage
<1>5. CASE EnsureTable
  BY <1>5 DEF EnsureTable, Go, PhaseInv, Stage
<1>6. CASE Plan
  BY <1>6 DEF Plan, Go, PhaseInv, Stage
<1>7. ASSUME NEW h \in Host, TofuCreate(h) PROVE PhaseInv'
  BY <1>7 DEF TofuCreate, Go, PhaseInv, Stage
<1>8. ASSUME NEW h \in Host, TofuDestroy(h) PROVE PhaseInv'
  BY <1>8 DEF TofuDestroy, Go, PhaseInv, Stage
<1>9. CASE TofuDone
  BY <1>9 DEF TofuDone, Go, Planned, Standing, PhaseInv, Stage
<1>10. CASE WriteInfraOutputs
  BY <1>10 DEF WriteInfraOutputs, Return, Leave, Cmd, PhaseInv, Stage
<1>11. CASE RemoveOutputs
  BY <1>11 DEF RemoveOutputs, Return, Leave, PhaseInv, Stage
<1>12. CASE OpenFleet
  BY <1>12 DEF OpenFleet, Go, FirstStage, Cmd, PhaseInv, Stage
<1>13. CASE Trust
  <2>1. PICK h \in Host : Advance(h)
    BY <1>13 DEF Trust
  <2> QED BY <1>13, <2>1, NoneAssumption DEF Trust, Advance, Return, Leave, FirstStage,
      LastStage,
          PhaseInv, Stage, Cmd
<1>14. CASE Bootstrap
  <2>1. PICK h \in Host : Advance(h)
    BY <1>14 DEF Bootstrap
  <2> QED BY <1>14, <2>1, NoneAssumption DEF Bootstrap, Advance, Return, Leave, FirstStage,
      LastStage,
          PhaseInv, Stage, Cmd
<1>15. CASE DeployHost
  <2>1. PICK h \in Host : Advance(h)
    BY <1>15 DEF DeployHost
  <2> QED BY <1>15, <2>1, NoneAssumption DEF DeployHost, Advance, Return, Leave, FirstStage,
      LastStage,
          PhaseInv, Stage, Cmd
<1>16. CASE EnsureUsers
  BY <1>16 DEF EnsureUsers, Go, PhaseInv, Stage
<1>17. CASE JoinMesh
  BY <1>17 DEF JoinMesh, PhaseInv, Stage
<1>18. CASE WriteMeshIPs
  BY <1>18 DEF WriteMeshIPs, Return, Leave, PhaseInv, Stage
<1>19. CASE Refused
  BY <1>19 DEF Refused, Error, Leave, PhaseInv, Stage
<1>20. CASE Unlock
  BY <1>20 DEF Unlock, PhaseInv, Stage
<1>21. CASE Cut
  BY <1>21 DEF Cut, Error, Leave, PhaseInv, Stage
<1>22. CASE LoseHosts
  BY <1>22 DEF LoseHosts, PhaseInv, Stage
<1>23. CASE EditWorkspace
  BY <1>23 DEF EditWorkspace, PhaseInv, Stage
<1>24. CASE EditKnownHosts
  BY <1>24 DEF EditKnownHosts, PhaseInv, Stage
<1> QED BY <1>1, <1>2, <1>3, <1>4, <1>5, <1>6, <1>7, <1>8, <1>9, <1>10, <1>11, <1>12, <1>13,
    <1>14, <1>15, <1>16, <1>17, <1>18, <1>19, <1>20, <1>21, <1>22, <1>23, <1>24 DEF Next,
    Step

\* Keys and addresses tell the instances apart.
LEMMA InstanceStep == TypeOK /\ InstanceInv /\ Next => InstanceInv'
<1> SUFFICES ASSUME TypeOK, InstanceInv, Next PROVE InstanceInv'
  OBVIOUS
<1>1. ASSUME NEW h \in Host, TofuCreate(h) PROVE InstanceInv'
  <2>1. PICK a \in Addrs(h) : inst' = [inst EXCEPT ![h] = [addr |-> a, key |-> <<h, made[h]>>]]
    BY <1>1 DEF TofuCreate
  <2>2. made' = [made EXCEPT ![h] = made[h] + 1] /\ known' = known
    BY <1>1 DEF TofuCreate
  <2>3. Standing' = Standing \cup {h} /\ h \notin Standing
    <3>1. [addr |-> a, key |-> <<h, made[h]>>] \in Instance
      BY <2>1 DEF Addrs, Addr, Instance, Key, TypeOK
    <3>2. inst'[h] # None
      BY <2>1, <3>1, NoneAssumption DEF TypeOK
    <3> QED BY <1>1, <2>1, <3>2 DEF TofuCreate, Standing, TypeOK
  <2>4. inst'[h].addr = a /\ inst'[h].key[1] = h /\ inst'[h].key[2] = made[h]
    BY <2>1 DEF TypeOK
  <2>5. \A g \in Standing : inst'[g] = inst[g] /\ g # h
    BY <2>1, <2>3 DEF TypeOK
  <2>6. made'[h] = made[h] + 1 /\ made[h] \in Nat /\ \A g \in Host \ {h} : made'[g] = made[g]
    BY <2>2 DEF TypeOK
  <2>7. a = BaseAddr <=> h = Base
    BY <2>1, BaseAssumption DEF Addrs
  <2>8. \A g \in Standing : inst[g].addr # a
    BY <2>1, <2>3, <2>7 DEF Addrs, InstanceInv
  <2>9. \A k \in 1..Len(known) : known[k].key[2] < made'[known[k].key[1]]
    <3> SUFFICES ASSUME NEW k \in 1..Len(known) PROVE known[k].key[2] < made'[known[k].key[1]]
      OBVIOUS
    <3>1. known[k] \in Instance
      BY DEF TypeOK
    <3>2. known[k].key[1] \in Host /\ known[k].key[2] \in Nat
      BY <3>1 DEF Instance, Key
    <3>3. made[known[k].key[1]] \in Nat
      BY <3>2 DEF TypeOK
    <3>4. known[k].key[2] < made[known[k].key[1]]
      BY DEF InstanceInv
    <3> QED BY <2>6, <3>2, <3>3, <3>4
  <2>10. \A g \in Standing : g \in Host
    BY DEF Standing
  <2> QED BY <2>2, <2>3, <2>4, <2>5, <2>6, <2>7, <2>8, <2>9, <2>10 DEF InstanceInv
<1>2. ASSUME UNCHANGED <<made, known>>, Standing' \subseteq Standing,
             \A g \in Standing' : inst'[g] = inst[g]
      PROVE  InstanceInv'
  BY <1>2 DEF InstanceInv
<1>3. ASSUME NEW h \in Host, TofuDestroy(h) PROVE InstanceInv'
  BY <1>2, <1>3 DEF TofuDestroy, Standing, TypeOK
<1>4. CASE LoseHosts
  BY <1>2, <1>4 DEF LoseHosts, Standing, TypeOK
<1>5. CASE Trust
  <2>1. PICK h \in Host, m \in Standing :
           known' = IF Unlisted(h) THEN Append(known, Line(h, m)) ELSE known
    BY <1>5 DEF Trust, At
  <2>2. inst[m] \in Instance /\ Line(h, m).key = inst[m].key
    BY StandingType DEF Line
  <2>3. inst[m].key[2] < made[inst[m].key[1]]
    BY DEF InstanceInv
  <2>4. \A k \in 1..Len(known') : known'[k].key[2] < made[known'[k].key[1]]
    BY <2>1, <2>2, <2>3 DEF InstanceInv, TypeOK
  <2> QED BY <1>5, <2>4 DEF Trust, InstanceInv, Standing
<1>6. CASE EditKnownHosts
  <2>1. \A k \in 1..Len(known') : \E j \in 1..Len(known) : known'[k] = known[j]
    BY <1>6, KnownShrinks
  <2> QED BY <1>6, <2>1 DEF EditKnownHosts, InstanceInv, Standing
<1>7. CASE UNCHANGED <<inst, made, known>>
  BY <1>7 DEF InstanceInv, Standing
<1> QED BY <1>1, <1>3, <1>4, <1>5, <1>6, <1>7, InstanceFrame, KnownFrame DEF Trust,
    EditKnownHosts

\* outputs.json is a picture of instances with different addresses.
LEMMA OutputsStep == TypeOK /\ InstanceInv /\ OutputsInv /\ Next => OutputsInv'
<1> SUFFICES ASSUME TypeOK, InstanceInv, OutputsInv, Next PROVE OutputsInv'
  OBVIOUS
<1>1. CASE WriteInfraOutputs
  BY <1>1 DEF WriteInfraOutputs, OutputsInv, InstanceInv, Standing
<1>2. CASE RemoveOutputs
  BY <1>2 DEF RemoveOutputs, OutputsInv, Nobody
<1> QED BY <1>1, <1>2, OutputsFrame DEF OutputsInv

\* Neither a new instance nor a new outputs.json parts an enrolled key from its host.
LEMMA EnrolledStep ==
    TypeOK /\ PhaseInv /\ InstanceInv /\ EnrolledInv /\ Next => EnrolledInv'
<1> SUFFICES ASSUME TypeOK, PhaseInv, InstanceInv, EnrolledInv, Next,
                    ~strayed', NEW m \in Standing', NEW k \in 1..Len(known'),
                    known'[k].key = inst'[m].key
             PROVE  outputs'[m] = inst'[m].addr
  BY DEF EnrolledInv
<1>1. ASSUME ~strayed, NEW n \in Standing, NEW j \in 1..Len(known), known[j].key = inst[n].key
      PROVE  outputs[n] = inst[n].addr
  BY <1>1 DEF EnrolledInv
<1>2. ASSUME NEW h \in Host, TofuCreate(h) PROVE outputs'[m] = inst'[m].addr
  <2>1. PICK a \in Addrs(h) : inst' = [inst EXCEPT ![h] = [addr |-> a, key |-> <<h, made[h]>>]]
    BY <1>2 DEF TofuCreate
  <2>2. UNCHANGED <<known, outputs, strayed>>
    BY <1>2 DEF TofuCreate
  <2>3. m # h
    <3> SUFFICES ASSUME m = h PROVE FALSE
      OBVIOUS
    <3>1. known[k].key = <<h, made[h]>>
      BY <2>1, <2>2 DEF TypeOK
    <3>2. known[k].key[2] < made[known[k].key[1]]
      BY <2>2 DEF InstanceInv
    <3> QED BY <3>1, <3>2 DEF TypeOK
  <2>4. m \in Standing /\ inst'[m] = inst[m]
    BY <2>1, <2>3 DEF Standing, TypeOK
  <2> QED BY <1>1, <2>2, <2>4
<1>3. ASSUME m \in Standing, inst'[m] = inst[m], UNCHANGED <<known, outputs, strayed>>
      PROVE  outputs'[m] = inst'[m].addr
  BY <1>1, <1>3
<1>4. ASSUME NEW h \in Host, TofuDestroy(h) PROVE outputs'[m] = inst'[m].addr
  BY <1>3, <1>4 DEF TofuDestroy, Standing, TypeOK
<1>5. CASE LoseHosts
  <2>1. m \in Standing /\ inst'[m] = inst[m]
    BY <1>5 DEF LoseHosts, Standing
  <2> QED BY <1>3, <1>5, <2>1 DEF LoseHosts
<1>6. CASE EditKnownHosts
  <2>1. PICK j \in 1..Len(known) : known'[k] = known[j]
    BY <1>6, KnownShrinks
  <2>2. UNCHANGED <<inst, outputs, strayed>> /\ Standing' = Standing
    BY <1>6 DEF EditKnownHosts, Standing
  <2> QED BY <1>1, <2>1, <2>2
<1>7. CASE WriteInfraOutputs
  BY <1>7 DEF WriteInfraOutputs, Standing
<1>8. CASE RemoveOutputs
  BY <1>8 DEF RemoveOutputs, PhaseInv, Standing
<1>9. CASE Trust
  <2>1. PICK h \in Host, n \in Standing :
           /\ inst[n].addr = outputs[h]
           /\ known' = IF Unlisted(h) THEN Append(known, Line(h, n)) ELSE known
           /\ strayed' = (strayed \/ n # h)
    BY <1>9 DEF Trust, At
  <2>2. ~strayed /\ n = h
    BY <2>1
  <2>3. UNCHANGED <<inst, outputs>> /\ m \in Standing
    BY <1>9 DEF Trust, Standing
  <2>4. CASE k \in 1..Len(known) /\ known'[k] = known[k]
    BY <1>1, <2>2, <2>3, <2>4
  <2>5. CASE known'[k] = Line(h, n)
    <3>1. inst[m].key = inst[n].key
      BY <2>3, <2>5 DEF Line
    <3>2. m = n
      BY <2>3, <3>1 DEF InstanceInv
    <3> QED BY <2>1, <2>2, <2>3, <3>2
  <2> QED BY <2>1, <2>4, <2>5 DEF TypeOK
<1>10. CASE UNCHANGED <<inst, known, strayed, outputs>>
  BY <1>3, <1>10 DEF Standing
<1> QED BY <1>2, <1>4, <1>5, <1>6, <1>7, <1>8, <1>9, <1>10, InstanceFrame, OutputsFrame,
    KnownFrame
     DEF WriteInfraOutputs, RemoveOutputs, Trust, EditKnownHosts

\* Every path to a finished apply goes through the settings of a new bucket.
LEMMA BucketStep == TypeOK /\ PhaseInv /\ BucketInv /\ Next => BucketInv'
<1> SUFFICES ASSUME TypeOK, PhaseInv, BucketInv, Next PROVE BucketInv'
  OBVIOUS
<1>1. ASSUME NEW c \in Cmd, Start(c) PROVE BucketInv'
  BY <1>1, NoneAssumption DEF Start, Event, PhaseInv, BucketInv, Stage, Settings, Cmd, TypeOK
<1>2. CASE BucketThere
  BY <1>2, NoneAssumption DEF BucketThere, Go, PhaseInv, BucketInv, Stage, Settings, Cmd, TypeOK
<1>3. CASE CreateBucket
  BY <1>3, NoneAssumption DEF CreateBucket, Go, PhaseInv, BucketInv, Stage, Settings, Cmd,
      TypeOK
<1>4. CASE PutBucketSetting
  BY <1>4, NoneAssumption DEF PutBucketSetting, Go, PhaseInv, BucketInv, Stage, Settings,
      Cmd, TypeOK
<1>5. CASE EnsureTable
  BY <1>5, NoneAssumption DEF EnsureTable, Go, PhaseInv, BucketInv, Stage, Settings, Cmd, TypeOK
<1>6. CASE Plan
  BY <1>6, NoneAssumption DEF Plan, Go, PhaseInv, BucketInv, Stage, Settings, Cmd, TypeOK
<1>7. ASSUME NEW h \in Host, TofuCreate(h) PROVE BucketInv'
  BY <1>7, NoneAssumption DEF TofuCreate, Go, PhaseInv, BucketInv, Stage, Settings, Cmd, TypeOK
<1>8. ASSUME NEW h \in Host, TofuDestroy(h) PROVE BucketInv'
  BY <1>8, NoneAssumption DEF TofuDestroy, Go, PhaseInv, BucketInv, Stage, Settings, Cmd, TypeOK
<1>9. CASE TofuDone
  BY <1>9, NoneAssumption DEF TofuDone, Go, PhaseInv, BucketInv, Stage, Settings, Cmd, TypeOK
<1>10. CASE WriteInfraOutputs
  BY <1>10, NoneAssumption DEF WriteInfraOutputs, Return, Leave, PhaseInv, BucketInv, Stage,
      Settings, Cmd, TypeOK
<1>11. CASE RemoveOutputs
  BY <1>11, NoneAssumption DEF RemoveOutputs, Return, Leave, PhaseInv, BucketInv, Stage,
      Settings, Cmd, TypeOK
<1>12. CASE OpenFleet
  BY <1>12, NoneAssumption DEF OpenFleet, Go, FirstStage, PhaseInv, BucketInv, Stage,
      Settings, Cmd, TypeOK
<1>13. CASE Trust
  <2>1. PICK h \in Host : Advance(h)
    BY <1>13 DEF Trust
  <2> QED BY <1>13, <2>1, NoneAssumption DEF Trust, Advance, Return, Leave, FirstStage,
      LastStage,
          PhaseInv, BucketInv, Stage, Cmd
<1>14. CASE Bootstrap
  <2>1. PICK h \in Host : Advance(h)
    BY <1>14 DEF Bootstrap
  <2> QED BY <1>14, <2>1, NoneAssumption DEF Bootstrap, Advance, Return, Leave, FirstStage,
      LastStage,
          PhaseInv, BucketInv, Stage, Cmd
<1>15. CASE DeployHost
  <2>1. PICK h \in Host : Advance(h)
    BY <1>15 DEF DeployHost
  <2> QED BY <1>15, <2>1, NoneAssumption DEF DeployHost, Advance, Return, Leave, FirstStage,
      LastStage,
          PhaseInv, BucketInv, Stage, Cmd
<1>16. CASE EnsureUsers
  BY <1>16, NoneAssumption DEF EnsureUsers, Go, PhaseInv, BucketInv, Stage, Settings, Cmd,
      TypeOK
<1>17. CASE JoinMesh
  BY <1>17, NoneAssumption DEF JoinMesh, PhaseInv, BucketInv, Stage, Settings, Cmd, TypeOK
<1>18. CASE WriteMeshIPs
  BY <1>18, NoneAssumption DEF WriteMeshIPs, Return, Leave, PhaseInv, BucketInv, Stage,
      Settings, Cmd, TypeOK
<1>19. CASE Refused
  BY <1>19, RefusedPhase, NoneAssumption DEF Refused, Error, Leave, PhaseInv, BucketInv,
      Stage, Settings, Cmd, TypeOK
<1>20. CASE Unlock
  BY <1>20, NoneAssumption DEF Unlock, PhaseInv, BucketInv, Stage, Settings, Cmd, TypeOK
<1>21. CASE Cut
  BY <1>21, NoneAssumption DEF Cut, Error, Leave, PhaseInv, BucketInv, Stage, Settings, Cmd,
      TypeOK
<1>22. CASE LoseHosts
  BY <1>22, NoneAssumption DEF LoseHosts, PhaseInv, BucketInv, Stage, Settings, Cmd, TypeOK
<1>23. CASE EditWorkspace
  BY <1>23, NoneAssumption DEF EditWorkspace, PhaseInv, BucketInv, Stage, Settings, Cmd, TypeOK
<1>24. CASE EditKnownHosts
  BY <1>24, NoneAssumption DEF EditKnownHosts, PhaseInv, BucketInv, Stage, Settings, Cmd, TypeOK
<1> QED BY <1>1, <1>2, <1>3, <1>4, <1>5, <1>6, <1>7, <1>8, <1>9, <1>10, <1>11, <1>12, <1>13,
    <1>14, <1>15, <1>16, <1>17, <1>18, <1>19, <1>20, <1>21, <1>22, <1>23, <1>24 DEF Next,
    Step

\* A host's stacks go to the instance whose key was enrolled for it.
LEMMA ForeignStep ==
    TypeOK /\ OutputsInv /\ EnrolledInv /\ ForeignOnlyIfStrayed /\ Next => ForeignOnlyIfStrayed'
<1> SUFFICES ASSUME TypeOK, OutputsInv, EnrolledInv, ForeignOnlyIfStrayed, Next,
                    NEW m \in Host, ~strayed'
             PROVE  disk'[m].host \in {None, m}
  BY DEF ForeignOnlyIfStrayed
<1>1. ~strayed
  BY KnownFrame DEF Trust, EditKnownHosts
<1>2. disk[m].host \in {None, m}
  BY <1>1 DEF ForeignOnlyIfStrayed
<1>3. ASSUME NEW h \in Host, TofuCreate(h) \/ TofuDestroy(h) PROVE disk'[m].host \in {None, m}
  <2>1. disk' = [disk EXCEPT ![h] = Fresh]
    BY <1>3 DEF TofuCreate, TofuDestroy
  <2> QED BY <1>2, <2>1 DEF Fresh, TypeOK
<1>4. CASE LoseHosts
  BY <1>2, <1>4 DEF LoseHosts, Fresh
<1>5. CASE Bootstrap
  <2>1. PICK h \in Host, n \in Host : disk' = Bootstrapped(h, n)
    BY <1>5, DialedFacts DEF Bootstrap
  <2> QED BY <1>2, <2>1 DEF Bootstrapped, TypeOK
<1>6. CASE DeployHost
  <2>1. PICK h \in Host, n \in Host : /\ n \in Dialed(h)
                                      /\ disk' = [disk EXCEPT ![n].host = h, ![n].rev = ws.rev]
    BY <1>6, DialedFacts DEF DeployHost
  <2>2. outputs[n] = inst[n].addr /\ inst[n].addr = outputs[h] /\ inst[n] \in Instance
    <3>1. n \in Standing /\ inst[n].addr = outputs[h]
      BY <2>1, DialedFacts
    <3>2. PICK k \in 1..Len(known) : known[k] = Line(h, n)
      BY <2>1, DialedFacts
    <3>3. known[k].key = inst[n].key
      BY <3>2 DEF Line
    <3> QED BY <1>1, <3>1, <3>3, StandingType DEF EnrolledInv
  <2>3. n = h
    BY <2>2, NoneAssumption DEF OutputsInv, Instance
  <2>4. CASE m = n
    BY <2>1, <2>3, <2>4 DEF TypeOK
  <2>5. CASE m # n
    BY <1>2, <2>1, <2>5 DEF TypeOK
  <2> QED BY <2>4, <2>5
<1>7. CASE JoinMesh
  <2>1. PICK n \in Host : disk' = [disk EXCEPT ![n].node = TRUE]
    BY <1>7, DialedFacts DEF JoinMesh
  <2> QED BY <1>2, <2>1 DEF TypeOK
<1> QED BY <1>2, <1>3, <1>4, <1>5, <1>6, <1>7, DiskFrame

\* A private host is bootstrapped only through a base host with NAT.
LEMMA NATStep == TypeOK /\ NATInv /\ Next => NATInv'
<1> SUFFICES ASSUME TypeOK, NATInv, Next, NEW g \in Host \ {Base},
                    disk'[Base].marker, ~disk'[Base].nat, disk'[g].marker
             PROVE  lone'
  BY DEF NATInv
<1>1. ASSUME disk[Base].marker, ~disk[Base].nat, disk[g].marker PROVE lone
  BY <1>1 DEF NATInv
<1>2. Base \in Host
  BY BaseAssumption
<1>3. ASSUME NEW h \in Host, TofuCreate(h) \/ TofuDestroy(h) PROVE lone'
  <2>1. disk' = [disk EXCEPT ![h] = Fresh] /\ UNCHANGED lone
    BY <1>3 DEF TofuCreate, TofuDestroy
  <2> QED BY <1>1, <1>2, <2>1 DEF Fresh, TypeOK
<1>4. CASE LoseHosts
  <2>1. PICK S : disk' = [h \in Host |-> IF h \in S THEN Fresh ELSE disk[h]]
    BY <1>4 DEF LoseHosts
  <2> QED BY <1>1, <1>2, <1>4, <2>1 DEF LoseHosts, Fresh
<1>5. CASE Bootstrap
  <2>1. PICK h \in Host, m \in Host : /\ BootstrapOK(m)
                                      /\ disk' = Bootstrapped(h, m)
                                      /\ lone' = (lone \/ BootstrapsAlone(h, m))
    BY <1>5, DialedFacts DEF Bootstrap
  <2>2. CASE disk[m].marker
    BY <1>1, <2>1, <2>2 DEF Bootstrapped
  <2>3. CASE ~disk[m].marker /\ m = Base
    <3>1. disk'[Base].nat = NAT(h) /\ disk'[g] = disk[g]
      BY <1>2, <2>1, <2>3 DEF Bootstrapped, TypeOK
    <3> QED BY <2>1, <2>3, <3>1 DEF BootstrapsAlone
  <2>4. CASE ~disk[m].marker /\ m # Base
    <3>1. disk'[Base] = disk[Base]
      BY <1>2, <2>1, <2>4 DEF Bootstrapped, TypeOK
    <3> QED BY <2>1, <2>4, <3>1 DEF BootstrapOK, Egress
  <2> QED BY <2>2, <2>3, <2>4
<1>6. CASE DeployHost
  <2>1. PICK h \in Host, m \in Host : disk' = [disk EXCEPT ![m].host = h, ![m].rev = ws.rev]
    BY <1>6, DialedFacts DEF DeployHost
  <2>2. \A n \in Host : disk'[n].marker = disk[n].marker /\ disk'[n].nat = disk[n].nat
    BY <2>1 DEF TypeOK
  <2> QED BY <1>1, <1>2, <1>6, <2>2 DEF DeployHost
<1>7. CASE JoinMesh
  <2>1. PICK m \in Host : disk' = [disk EXCEPT ![m].node = TRUE]
    BY <1>7, DialedFacts DEF JoinMesh
  <2>2. \A n \in Host : disk'[n].marker = disk[n].marker /\ disk'[n].nat = disk[n].nat
    BY <2>1 DEF TypeOK
  <2> QED BY <1>1, <1>2, <1>7, <2>2 DEF JoinMesh
<1> QED BY <1>1, <1>3, <1>4, <1>5, <1>6, <1>7, DiskFrame

\* A command goes through the hosts of the workspace.
LEMMA TodoStep == TypeOK /\ PhaseInv /\ TodoInv /\ Next => TodoInv'
<1> SUFFICES ASSUME TypeOK, PhaseInv, TodoInv, Next PROVE TodoInv'
  OBVIOUS
<1>1. ASSUME NEW c \in Cmd, Start(c) PROVE TodoInv'
  BY <1>1 DEF Start, Event, PhaseInv, TodoInv, TypeOK
<1>2. CASE BucketThere
  BY <1>2 DEF BucketThere, Go, PhaseInv, TodoInv, TypeOK
<1>3. CASE CreateBucket
  BY <1>3 DEF CreateBucket, Go, PhaseInv, TodoInv, TypeOK
<1>4. CASE PutBucketSetting
  BY <1>4 DEF PutBucketSetting, Go, PhaseInv, TodoInv, TypeOK
<1>5. CASE EnsureTable
  BY <1>5 DEF EnsureTable, Go, PhaseInv, TodoInv, TypeOK
<1>6. CASE Plan
  BY <1>6 DEF Plan, Go, PhaseInv, TodoInv, TypeOK
<1>7. ASSUME NEW h \in Host, TofuCreate(h) PROVE TodoInv'
  BY <1>7 DEF TofuCreate, Go, PhaseInv, TodoInv, TypeOK
<1>8. ASSUME NEW h \in Host, TofuDestroy(h) PROVE TodoInv'
  BY <1>8 DEF TofuDestroy, Go, PhaseInv, TodoInv, TypeOK
<1>9. CASE TofuDone
  BY <1>9 DEF TofuDone, Go, PhaseInv, TodoInv, TypeOK
<1>10. CASE WriteInfraOutputs
  BY <1>10 DEF WriteInfraOutputs, Return, Leave, PhaseInv, TodoInv, TypeOK
<1>11. CASE RemoveOutputs
  BY <1>11 DEF RemoveOutputs, Return, Leave, PhaseInv, TodoInv, TypeOK
<1>12. CASE OpenFleet
  BY <1>12 DEF OpenFleet, Go, FirstStage, Cmd, PhaseInv, TodoInv, TypeOK
<1>13. CASE Trust
  <2>1. PICK h \in Host : Advance(h)
    BY <1>13 DEF Trust
  <2> QED BY <1>13, <2>1 DEF Trust, Advance, Return, Leave, FirstStage, LastStage, PhaseInv,
      TodoInv,
          Stage, TypeOK, Cmd
<1>14. CASE Bootstrap
  <2>1. PICK h \in Host : Advance(h)
    BY <1>14 DEF Bootstrap
  <2> QED BY <1>14, <2>1 DEF Bootstrap, Advance, Return, Leave, FirstStage, LastStage,
      PhaseInv, TodoInv,
          Stage, TypeOK, Cmd
<1>15. CASE DeployHost
  <2>1. PICK h \in Host : Advance(h)
    BY <1>15 DEF DeployHost
  <2> QED BY <1>15, <2>1 DEF DeployHost, Advance, Return, Leave, FirstStage, LastStage,
      PhaseInv, TodoInv,
          Stage, TypeOK, Cmd
<1>16. CASE EnsureUsers
  BY <1>16 DEF EnsureUsers, Go, PhaseInv, TodoInv, TypeOK
<1>17. CASE JoinMesh
  BY <1>17 DEF JoinMesh, PhaseInv, TodoInv, TypeOK
<1>18. CASE WriteMeshIPs
  BY <1>18 DEF WriteMeshIPs, Return, Leave, PhaseInv, TodoInv, TypeOK
<1>19. CASE Refused
  BY <1>19 DEF Refused, Error, Leave, PhaseInv, TodoInv, TypeOK
<1>20. CASE Unlock
  BY <1>20 DEF Unlock, PhaseInv, TodoInv, TypeOK
<1>21. CASE Cut
  BY <1>21 DEF Cut, Error, Leave, PhaseInv, TodoInv, TypeOK
<1>22. CASE LoseHosts
  BY <1>22 DEF LoseHosts, PhaseInv, TodoInv, TypeOK
<1>23. CASE EditWorkspace
  BY <1>23 DEF EditWorkspace, PhaseInv, TodoInv, TypeOK
<1>24. CASE EditKnownHosts
  BY <1>24 DEF EditKnownHosts, PhaseInv, TodoInv, TypeOK
<1> QED BY <1>1, <1>2, <1>3, <1>4, <1>5, <1>6, <1>7, <1>8, <1>9, <1>10, <1>11, <1>12, <1>13,
    <1>14, <1>15, <1>16, <1>17, <1>18, <1>19, <1>20, <1>21, <1>22, <1>23, <1>24 DEF Next,
    Step

\* apply trusts, bootstraps and deploys one host after the other, each on its own instance.
LEMMA ApplyStep == TypeOK /\ PhaseInv /\ InstanceInv /\ TodoInv /\ ApplyInv /\ Next => ApplyInv'
<1> SUFFICES ASSUME TypeOK, PhaseInv, InstanceInv, TodoInv, ApplyInv, Next PROVE ApplyInv'
  OBVIOUS
<1>1. ASSUME NEW c \in Cmd, Start(c) PROVE ApplyInv'
  BY <1>1, NoneAssumption DEF Start, Event, PhaseInv, ApplyInv, Stage, Cmd
<1>2. CASE BucketThere
  BY <1>2, NoneAssumption DEF BucketThere, Go, PhaseInv, ApplyInv, Stage, Cmd
<1>3. CASE CreateBucket
  BY <1>3, NoneAssumption DEF CreateBucket, Go, PhaseInv, ApplyInv, Stage, Cmd
<1>4. CASE PutBucketSetting
  BY <1>4, NoneAssumption DEF PutBucketSetting, Go, PhaseInv, ApplyInv, Stage, Cmd
<1>5. CASE EnsureTable
  BY <1>5, NoneAssumption DEF EnsureTable, Go, PhaseInv, ApplyInv, Stage, Cmd
<1>6. CASE Plan
  <2>1. UNCHANGED <<ws, inst, done>> /\ done = None
    BY <1>6 DEF Plan, Go, PhaseInv
  <2>2. pc' = "outputs" => Standing' = ws'.hosts
    BY <1>6, <2>1 DEF Plan, Go, Planned, Standing
  <2> QED BY <1>6, <2>1, <2>2, NoneAssumption DEF Plan, Go, ApplyInv, Stage, Cmd
<1>7. ASSUME NEW h \in Host, TofuCreate(h) PROVE ApplyInv'
  BY <1>7, NoneAssumption DEF TofuCreate, Go, PhaseInv, ApplyInv, Stage, Cmd
<1>8. ASSUME NEW h \in Host, TofuDestroy(h) PROVE ApplyInv'
  BY <1>8, NoneAssumption DEF TofuDestroy, Go, PhaseInv, ApplyInv, Stage, Cmd
<1>9. CASE TofuDone
  <2>1. UNCHANGED <<ws, inst, done>> /\ done = None
    BY <1>9 DEF TofuDone, Go, PhaseInv
  <2>2. pc' = "outputs" => Standing' = ws'.hosts
    BY <1>9, <2>1 DEF TofuDone, Go, Planned, Standing
  <2> QED BY <1>9, <2>1, <2>2, NoneAssumption DEF TofuDone, Go, ApplyInv, Stage, Cmd
<1>10. CASE WriteInfraOutputs
  <2>1. Standing = ws.hosts /\ UNCHANGED <<ws, inst>> /\ done = None
    BY <1>10 DEF WriteInfraOutputs, ApplyInv, PhaseInv
  <2>2. Standing' = ws'.hosts /\ Current'
    BY <1>10, <2>1 DEF WriteInfraOutputs, Standing, Current
  <2>3. pc' \in {"open", "idle"} /\ done' # "apply"
    BY <1>10, <2>1, NoneAssumption DEF WriteInfraOutputs, Return, Leave, Cmd
  <2> QED BY <2>2, <2>3 DEF ApplyInv, Stage
<1>11. CASE RemoveOutputs
  BY <1>11, NoneAssumption DEF RemoveOutputs, Return, Leave, PhaseInv, ApplyInv, Stage, Cmd
<1>12. CASE OpenFleet
  <2>1. UNCHANGED <<ws, inst, outputs, cmd, done>> /\ todo' = ws.hosts /\ done = None /\ pc = "open"
    BY <1>12 DEF OpenFleet, Go, PhaseInv
  <2>2. cmd = "apply" => pc' = "trust" /\ Standing' = ws'.hosts /\ Current'
    BY <1>12, <2>1 DEF OpenFleet, Go, FirstStage, ApplyInv, Stage, Standing, Current
  <2>3. pc' # "outputs"
    BY <1>12 DEF OpenFleet, Go, FirstStage, PhaseInv, Cmd
  <2> QED BY <2>1, <2>2, <2>3, NoneAssumption DEF ApplyInv, Cmd
<1>13. CASE Trust
  <2>1. PICK h \in Host, m \in Host :
           /\ Turn(h) /\ m \in At(h) /\ MayTrust(h, m) /\ Advance(h)
           /\ known' = IF Unlisted(h) THEN Append(known, Line(h, m)) ELSE known
    BY <1>13 DEF Trust, At, Standing
  <2>2. UNCHANGED <<ws, inst, disk, outputs>> /\ pc = "trust" /\ done = None
    BY <1>13 DEF Trust, PhaseInv
  <2>3. CASE cmd = "apply"
    <3>1. pc' = "bootstrap" /\ UNCHANGED <<cmd, todo, done>>
      BY <2>1, <2>2, <2>3 DEF Advance, LastStage
    <3>2. Standing = ws.hosts /\ Current /\ \A g \in ws.hosts \ todo : Served(g)
      BY <2>2, <2>3 DEF ApplyInv, Stage
    <3>3. Standing' = ws'.hosts /\ Current'
      BY <2>2, <3>2 DEF Standing, Current
    <3>4. \A g \in Host : KeyTrusted(g, g) => KeyTrusted(g, g)'
      BY <2>1, <2>2, TrustKeeps
    <3>5. \A g \in ws'.hosts \ todo' : Served(g)'
      BY <2>2, <3>1, <3>2, <3>4 DEF Served, TypeOK
    <3>6. h \in ws.hosts
      BY <2>1, <3>2 DEF Turn, TodoInv
    <3>7. m = h
      BY <2>1, <3>2, <3>6, AtSelf
    <3>8. KeyTrusted(h, h)'
      BY <2>1, <2>2, <3>7, TrustKeeps
    <3>9. \A g \in Host : Turn(g)' => g = h
      BY <2>1, <3>1, OneTurn DEF Turn, Precedes
    <3> QED BY <2>2, <3>1, <3>3, <3>5, <3>8, <3>9, NoneAssumption DEF ApplyInv, Cmd
  <2>4. CASE cmd # "apply"
    <3>1. cmd = "trust" /\ cmd' # "apply" /\ done' # "apply" /\ pc' # "outputs"
      BY <2>1, <2>2, <2>4, NoneAssumption
         DEF PhaseInv, Stage, Advance, LastStage, FirstStage, Return, Leave, Cmd
    <3> QED BY <3>1 DEF ApplyInv
  <2> QED BY <2>3, <2>4
<1>14. CASE Bootstrap
  <2>1. PICK h \in Host, m \in Host :
           Turn(h) /\ m \in Dialed(h) /\ Advance(h) /\ disk' = Bootstrapped(h, m)
    BY <1>14, DialedFacts DEF Bootstrap
  <2>2. UNCHANGED <<ws, inst, known, outputs>> /\ pc = "bootstrap" /\ done = None
    BY <1>14 DEF Bootstrap, PhaseInv
  <2>3. CASE cmd = "apply"
    <3>1. pc' = "deploy" /\ UNCHANGED <<cmd, todo, done>>
      BY <2>1, <2>2, <2>3 DEF Advance, LastStage
    <3>2. Standing = ws.hosts /\ Current /\ \A g \in ws.hosts \ todo : Served(g)
      BY <2>2, <2>3 DEF ApplyInv, Stage
    <3>3. Standing' = ws'.hosts /\ Current' /\ \A g \in Host : KeyTrusted(g, g)' = KeyTrusted(g, g)
      BY <2>2, <3>2 DEF Standing, Current, KeyTrusted, Line
    <3>4. h \in ws.hosts
      BY <2>1, <3>2 DEF Turn, TodoInv
    <3>5. m = h
      BY <2>1, <3>2, <3>4, AtSelf, DialedFacts
    <3>6. disk'[h].marker /\ \A g \in Host \ {h} : disk'[g] = disk[g]
      BY <2>1, <3>5 DEF Bootstrapped, TypeOK
    <3>7. \A g \in ws'.hosts \ todo' : Served(g)'
      BY <2>1, <2>2, <3>1, <3>2, <3>3, <3>6 DEF Served, TypeOK, Turn
    <3>8. \A g \in Host : Turn(g)' => g = h
      BY <2>1, <3>1, OneTurn DEF Turn, Precedes
    <3>9. KeyTrusted(h, h)
      BY <2>1, <2>2, <2>3 DEF ApplyInv
    <3> QED BY <2>2, <3>1, <3>3, <3>6, <3>7, <3>8, <3>9, NoneAssumption DEF ApplyInv, Cmd
  <2>4. CASE cmd # "apply"
    <3>1. cmd = "bootstrap" /\ cmd' # "apply" /\ done' # "apply" /\ pc' # "outputs"
      BY <2>1, <2>2, <2>4, NoneAssumption
         DEF PhaseInv, Stage, Advance, LastStage, FirstStage, Return, Leave, Cmd
    <3> QED BY <3>1 DEF ApplyInv
  <2> QED BY <2>3, <2>4
<1>15. CASE DeployHost
  <2>1. PICK h \in Host, m \in Host :
           /\ Turn(h) /\ m \in Dialed(h) /\ Advance(h)
           /\ disk' = [disk EXCEPT ![m].host = h, ![m].rev = ws.rev]
    BY <1>15, DialedFacts DEF DeployHost
  <2>2. UNCHANGED <<ws, inst, known, outputs>> /\ pc = "deploy" /\ done = None
    BY <1>15 DEF DeployHost, PhaseInv
  <2>3. CASE cmd = "apply"
    <3>1. Standing = ws.hosts /\ Current /\ \A g \in ws.hosts \ todo : Served(g)
      BY <2>2, <2>3 DEF ApplyInv, Stage
    <3>2. Standing' = ws'.hosts /\ Current' /\ \A g \in Host : KeyTrusted(g, g)' = KeyTrusted(g, g)
      BY <2>2, <3>1 DEF Standing, Current, KeyTrusted, Line
    <3>3. h \in ws.hosts
      BY <2>1, <3>1 DEF Turn, TodoInv
    <3>4. m = h
      BY <2>1, <3>1, <3>3, AtSelf, DialedFacts
    <3>5. /\ disk'[h].marker = disk[h].marker /\ disk'[h].host = h /\ disk'[h].rev = ws.rev
          /\ \A g \in Host \ {h} : disk'[g] = disk[g]
      BY <2>1, <3>4 DEF TypeOK
    <3>6. KeyTrusted(h, h) /\ disk[h].marker
      BY <2>1, <2>2, <2>3 DEF ApplyInv
    <3>7. \A g \in (ws'.hosts \ todo) \cup {h} : Served(g)'
      <4>1. Served(h)'
        BY <2>2, <3>2, <3>5, <3>6 DEF Served
      <4>2. ASSUME NEW g \in ws.hosts \ todo PROVE Served(g)'
        <5>1. g \in Host \ {h} /\ Served(g)
          BY <2>1, <3>1, <4>2 DEF Turn, TypeOK
        <5> QED BY <2>2, <3>2, <3>5, <5>1 DEF Served
      <4> QED BY <2>2, <4>1, <4>2
    <3>8. CASE todo = {h}
      <4>1. pc' = "idle" /\ \A g \in ws'.hosts : Served(g)'
        BY <2>1, <2>2, <2>3, <3>7, <3>8 DEF Advance, LastStage, Return, Leave
      <4> QED BY <3>2, <4>1 DEF ApplyInv, Stage
    <3>9. CASE todo # {h}
      <4>1. pc' = "trust" /\ todo' = todo \ {h} /\ UNCHANGED <<cmd, done>>
        BY <2>1, <2>2, <2>3, <3>9 DEF Advance, LastStage, FirstStage
      <4> QED BY <2>2, <3>2, <3>7, <4>1, NoneAssumption DEF ApplyInv, Cmd
    <3> QED BY <3>8, <3>9
  <2>4. CASE cmd # "apply"
    <3>1. cmd = "deploy" /\ cmd' # "apply" /\ done' # "apply" /\ pc' # "outputs"
      BY <2>1, <2>2, <2>4, NoneAssumption
         DEF PhaseInv, Stage, Advance, LastStage, FirstStage, Return, Leave, Cmd
    <3> QED BY <3>1 DEF ApplyInv
  <2> QED BY <2>3, <2>4
<1>16. CASE EnsureUsers
  BY <1>16, NoneAssumption DEF EnsureUsers, Go, PhaseInv, ApplyInv, Stage, Cmd
<1>17. CASE JoinMesh
  BY <1>17, NoneAssumption DEF JoinMesh, PhaseInv, ApplyInv, Stage, Cmd
<1>18. CASE WriteMeshIPs
  BY <1>18, NoneAssumption DEF WriteMeshIPs, Return, Leave, PhaseInv, ApplyInv, Stage, Cmd
<1>19. CASE Refused
  <2>1. UNCHANGED <<ws, inst, disk, known, outputs, done>> /\ pc' = "idle"
    BY <1>19 DEF Refused, Error, Leave
  <2> QED BY <2>1 DEF ApplyInv, Stage, Standing, Current, Served, KeyTrusted, Line
<1>20. CASE Unlock
  <2>1. UNCHANGED <<ws, inst, disk, known, outputs, done>> /\ pc' = "idle"
    BY <1>20 DEF Unlock
  <2> QED BY <2>1 DEF ApplyInv, Stage, Standing, Current, Served, KeyTrusted, Line
<1>21. CASE Cut
  <2>1. UNCHANGED <<ws, inst, disk, known, outputs, done>> /\ pc' = "idle"
    BY <1>21 DEF Cut, Error, Leave
  <2> QED BY <2>1 DEF ApplyInv, Stage, Standing, Current, Served, KeyTrusted, Line
<1>22. CASE LoseHosts
  BY <1>22, NoneAssumption DEF LoseHosts, PhaseInv, ApplyInv, Stage, Cmd
<1>23. CASE EditWorkspace
  BY <1>23, NoneAssumption DEF EditWorkspace, PhaseInv, ApplyInv, Stage, Cmd
<1>24. CASE EditKnownHosts
  BY <1>24, NoneAssumption DEF EditKnownHosts, PhaseInv, ApplyInv, Stage, Cmd
<1> QED BY <1>1, <1>2, <1>3, <1>4, <1>5, <1>6, <1>7, <1>8, <1>9, <1>10, <1>11, <1>12, <1>13,
    <1>14, <1>15, <1>16, <1>17, <1>18, <1>19, <1>20, <1>21, <1>22, <1>23, <1>24 DEF Next,
    Step

\* mesh.json gets the node of every host that joined.
LEMMA MeshStep == TypeOK /\ PhaseInv /\ InstanceInv /\ TodoInv /\ MeshInv /\ Next => MeshInv'
<1> SUFFICES ASSUME TypeOK, PhaseInv, InstanceInv, TodoInv, MeshInv, Next PROVE MeshInv'
  OBVIOUS
<1>1. ASSUME NEW c \in Cmd, Start(c) PROVE MeshInv'
  BY <1>1, NoneAssumption DEF Start, Event, PhaseInv, MeshInv, Cmd
<1>2. CASE BucketThere
  BY <1>2, NoneAssumption DEF BucketThere, Go, PhaseInv, MeshInv, Cmd
<1>3. CASE CreateBucket
  BY <1>3, NoneAssumption DEF CreateBucket, Go, PhaseInv, MeshInv, Cmd
<1>4. CASE PutBucketSetting
  BY <1>4, NoneAssumption DEF PutBucketSetting, Go, PhaseInv, MeshInv, Cmd
<1>5. CASE EnsureTable
  BY <1>5, NoneAssumption DEF EnsureTable, Go, PhaseInv, MeshInv, Cmd
<1>6. CASE Plan
  BY <1>6, NoneAssumption DEF Plan, Go, PhaseInv, MeshInv, Cmd
<1>7. ASSUME NEW h \in Host, TofuCreate(h) PROVE MeshInv'
  BY <1>7, NoneAssumption DEF TofuCreate, Go, PhaseInv, MeshInv, Cmd
<1>8. ASSUME NEW h \in Host, TofuDestroy(h) PROVE MeshInv'
  BY <1>8, NoneAssumption DEF TofuDestroy, Go, PhaseInv, MeshInv, Cmd
<1>9. CASE TofuDone
  BY <1>9, NoneAssumption DEF TofuDone, Go, PhaseInv, MeshInv, Cmd
<1>10. CASE WriteInfraOutputs
  <2>1. done' # "mesh" /\ pc' \in {"open", "idle"}
    BY <1>10, NoneAssumption DEF WriteInfraOutputs, Return, Leave, PhaseInv, Cmd
  <2> QED BY <2>1 DEF MeshInv
<1>11. CASE RemoveOutputs
  BY <1>11, NoneAssumption DEF RemoveOutputs, Return, Leave, PhaseInv, MeshInv, Cmd
<1>12. CASE OpenFleet
  <2>1. UNCHANGED <<ws, done>> /\ todo' = ws.hosts /\ done = None /\ pc' # "join"
    BY <1>12 DEF OpenFleet, Go, FirstStage, PhaseInv, Cmd
  <2> QED BY <2>1, NoneAssumption DEF MeshInv, Cmd
<1>13. CASE Trust
  <2>1. PICK h \in Host : Advance(h)
    BY <1>13 DEF Trust
  <2>2. done' # "mesh" /\ pc' \notin {"users", "join"}
    BY <1>13, <2>1, NoneAssumption DEF Trust, Advance, Return, Leave, FirstStage, LastStage,
        PhaseInv,
       Stage, Cmd
  <2> QED BY <2>2 DEF MeshInv
<1>14. CASE Bootstrap
  <2>1. PICK h \in Host : Advance(h)
    BY <1>14 DEF Bootstrap
  <2>2. done' # "mesh" /\ pc' \notin {"users", "join"}
    BY <1>14, <2>1, NoneAssumption DEF Bootstrap, Advance, Return, Leave, FirstStage,
        LastStage, PhaseInv,
       Stage, Cmd
  <2> QED BY <2>2 DEF MeshInv
<1>15. CASE DeployHost
  <2>1. PICK h \in Host : Advance(h)
    BY <1>15 DEF DeployHost
  <2>2. done' # "mesh" /\ pc' \notin {"users", "join"}
    BY <1>15, <2>1, NoneAssumption DEF DeployHost, Advance, Return, Leave, FirstStage,
        LastStage, PhaseInv,
       Stage, Cmd
  <2> QED BY <2>2 DEF MeshInv
<1>16. CASE EnsureUsers
  <2>1. UNCHANGED <<ws, done, todo>> /\ todo = ws.hosts /\ done = None /\ pc' = "join"
    BY <1>16 DEF EnsureUsers, Go, MeshInv, PhaseInv
  <2> QED BY <2>1, NoneAssumption DEF MeshInv, Cmd
<1>17. CASE JoinMesh
  <2>1. PICK h \in Host, m \in Host :
           /\ m \in Dialed(h)
           /\ disk' = [disk EXCEPT ![m].node = TRUE]
           /\ joined' = [joined EXCEPT ![h] = inst[m].key]
           /\ todo' = todo \ {h}
    BY <1>17, DialedFacts DEF JoinMesh
  <2>2. UNCHANGED <<ws, inst, outputs, pc, done>> /\ pc = "join" /\ done = None
    BY <1>17 DEF JoinMesh, PhaseInv
  <2>3. \A g \in Host : At(g)' = At(g)
    BY <2>2 DEF At, Standing
  <2>4. ASSUME NEW g \in ws.hosts \ todo' PROVE Member(joined, g)'
    <3>1. CASE g = h
      <4>1. m \in At(h)
        BY <2>1, DialedFacts
      <4>2. \A n \in At(h) : n = m
        BY <4>1, AtOne
      <4>3. joined'[h] = inst[m].key /\ disk'[m].node
        BY <2>1 DEF TypeOK
      <4> QED BY <2>2, <2>3, <3>1, <4>2, <4>3 DEF Member
    <3>2. CASE g # h
      <4>1. Member(joined, g) /\ g \in Host
        BY <2>1, <2>2, <2>4, <3>2 DEF MeshInv, TypeOK
      <4>2. joined'[g] = joined[g] /\ \A n \in Host : disk[n].node => disk'[n].node
        BY <2>1, <3>2, <4>1 DEF TypeOK
      <4>3. At(g) \subseteq Host
        BY DEF At, Standing
      <4> QED BY <2>2, <2>3, <4>1, <4>2, <4>3 DEF Member
    <3> QED BY <3>1, <3>2
  <2> QED BY <2>2, <2>4, NoneAssumption DEF MeshInv, Cmd
<1>18. CASE WriteMeshIPs
  <2>1. \A h \in ws.hosts : Member(joined, h)
    BY <1>18 DEF WriteMeshIPs, MeshInv
  <2>2. UNCHANGED <<ws, inst, disk, outputs>> /\ pc' = "idle"
    BY <1>18 DEF WriteMeshIPs, Return, Leave
  <2>3. ~unwritten' => mesh' = joined
    BY <1>18 DEF WriteMeshIPs
  <2>4. ~unwritten' => \A h \in ws'.hosts : Member(mesh, h)'
    BY <2>1, <2>2, <2>3 DEF Member, At, Standing
  <2> QED BY <2>2, <2>4 DEF MeshInv
<1>19. CASE Refused
  <2>1. UNCHANGED <<ws, inst, disk, outputs, mesh, unwritten, done>> /\ pc' = "idle"
    BY <1>19 DEF Refused, Error, Leave
  <2> QED BY <2>1 DEF MeshInv, Member, At, Standing
<1>20. CASE Unlock
  <2>1. UNCHANGED <<ws, inst, disk, outputs, mesh, unwritten, done>> /\ pc' = "idle"
    BY <1>20 DEF Unlock
  <2> QED BY <2>1 DEF MeshInv, Member, At, Standing
<1>21. CASE Cut
  <2>1. UNCHANGED <<ws, inst, disk, outputs, mesh, unwritten, done>> /\ pc' = "idle"
    BY <1>21 DEF Cut, Error, Leave
  <2> QED BY <2>1 DEF MeshInv, Member, At, Standing
<1>22. CASE LoseHosts
  BY <1>22, NoneAssumption DEF LoseHosts, PhaseInv, MeshInv, Cmd
<1>23. CASE EditWorkspace
  BY <1>23, NoneAssumption DEF EditWorkspace, PhaseInv, MeshInv, Cmd
<1>24. CASE EditKnownHosts
  BY <1>24, NoneAssumption DEF EditKnownHosts, PhaseInv, MeshInv, Cmd
<1> QED BY <1>1, <1>2, <1>3, <1>4, <1>5, <1>6, <1>7, <1>8, <1>9, <1>10, <1>11, <1>12, <1>13,
    <1>14, <1>15, <1>16, <1>17, <1>18, <1>19, <1>20, <1>21, <1>22, <1>23, <1>24 DEF Next,
    Step

----------------------------------------------------------------------------
(***************************************************************************)
(* The invariant and what follows from it.                                 *)
(***************************************************************************)

\* The invariant holds before the first command.
LEMMA IInvInit == Init => IInv
<1> SUFFICES ASSUME Init PROVE IInv
  OBVIOUS
<1>1. TypeOK
  BY TypeInit
<1>2. Standing = {} /\ known = <<>> /\ pc = "idle" /\ done = None /\ todo = {} /\ bucket = None
  BY DEF Init, Standing, Nobody
<1>3. \A h \in Host : outputs[h] = None /\ disk[h] = Fresh
  BY DEF Init, Nobody
<1>4. PhaseInv /\ InstanceInv /\ OutputsInv /\ EnrolledInv
  BY <1>2, <1>3 DEF PhaseInv, Stage, InstanceInv, OutputsInv, EnrolledInv
<1>5. BucketInv /\ TodoInv /\ ApplyInv /\ MeshInv
  BY <1>2, NoneAssumption DEF BucketInv, TodoInv, ApplyInv, MeshInv, Stage, Cmd
<1>6. NATInv /\ ForeignOnlyIfStrayed
  BY <1>3, BaseAssumption DEF NATInv, ForeignOnlyIfStrayed, Fresh
<1> QED BY <1>1, <1>4, <1>5, <1>6 DEF IInv

\* Doing nothing keeps the invariant.
LEMMA IInvStutter == ASSUME IInv, UNCHANGED vars PROVE IInv'
<1>1. UNCHANGED <<ws, bucket, table, tfLock, inst, disk, made, outputs, known, mesh, pc, cmd, todo,
                  joined, strayed, lone, bareCut, unwritten, done, events>>
  BY DEF vars
<1>2. TypeOK' /\ PhaseInv' /\ BucketInv' /\ TodoInv'
  BY <1>1 DEF IInv, TypeOK, PhaseInv, BucketInv, TodoInv, Standing
<1>3. InstanceInv' /\ OutputsInv' /\ EnrolledInv' /\ NATInv' /\ ForeignOnlyIfStrayed'
  BY <1>1 DEF IInv, InstanceInv, OutputsInv, EnrolledInv, NATInv, ForeignOnlyIfStrayed, Standing
<1>4. ApplyInv'
  BY <1>1 DEF IInv, ApplyInv, Standing, Current, Served, KeyTrusted, Line, Turn, Precedes
<1>5. MeshInv'
  BY <1>1 DEF IInv, MeshInv, Member, At, Standing
<1> QED BY <1>2, <1>3, <1>4, <1>5 DEF IInv

\* The inductive invariant holds in every state of the fleet.
THEOREM Inductive == Spec => []IInv
<1>1. IInv /\ [Next]_vars => IInv'
  <2> SUFFICES ASSUME IInv, [Next]_vars PROVE IInv'
    OBVIOUS
  <2>1. CASE Next
    BY <2>1, TypeStep, PhaseStep, InstanceStep, OutputsStep, EnrolledStep, BucketStep, TodoStep,
       ApplyStep, NATStep, MeshStep, ForeignStep DEF IInv
  <2>2. CASE UNCHANGED vars
    BY <2>2, IInvStutter
  <2> QED BY <2>1, <2>2
<1> QED BY <1>1, IInvInit, PTL DEF Spec

\* Every variable of the fleet keeps to its domain; that no fourth setting of the
\* state bucket is made is part of the argument.
THEOREM TypeCorrect == Spec => []TypeOK
<1>1. IInv => TypeOK
  BY DEF IInv
<1> QED BY <1>1, Inductive, PTL

\* Whatever hosts were lost, rebuilt or given each other's addresses, a deploy
\* reaches another host's instance only if a key was enrolled under the wrong name.
THEOREM Foreign == Spec => []ForeignOnlyIfStrayed
<1>1. IInv => ForeignOnlyIfStrayed
  BY DEF IInv
<1> QED BY <1>1, Inductive, PTL

\* An apply that reported success left every host of the workspace up on its own
\* instance, and a mesh run left mesh.json complete.
THEOREM UpAfterApply == Spec => []OkMeansUp
<1>1. IInv => OkMeansUp
  <2> SUFFICES ASSUME IInv PROVE OkMeansUp
    OBVIOUS
  <2>1. ASSUME done = "apply" PROVE Up /\ (WayOut \/ lone) /\ (bucket = Settings \/ bareCut)
    <3>1. Standing = ws.hosts /\ Current /\ \A h \in ws.hosts : Served(h)
      BY <2>1 DEF IInv, ApplyInv
    <3>2. Base \in ws.hosts /\ ws.hosts \subseteq Host
      BY DEF IInv, TypeOK
    <3>3. \A h \in ws.hosts : At(h) = {h}
      BY <3>1, AtSelf DEF IInv
    <3>4. \A h \in ws.hosts : Dialed(h) = {h}
      BY <3>1, <3>2, <3>3 DEF Dialed, BastionUp, Served
    <3>5. AddressesKnown
      <4> SUFFICES ASSUME NEW h \in ws.hosts PROVE outputs[h] # None
        BY DEF AddressesKnown
      <4>1. h \in Standing /\ inst[h] \in Instance
        BY <3>1, StandingType DEF IInv
      <4> QED BY <3>1, <4>1, NoneAssumption DEF Current, Standing, Instance
    <3>6. Up
      BY <3>1, <3>3, <3>4, <3>5 DEF Up, Served
    <3>7. WayOut \/ lone
      <4> SUFFICES ASSUME Cardinality(ws.hosts) > 1, ~disk[Base].nat PROVE lone
        BY DEF WayOut
      <4>1. Cardinality({Base}) = 1
        BY FS_Singleton
      <4>2. ws.hosts # {Base}
        BY <4>1
      <4>3. PICK h \in ws.hosts : h # Base
        BY <3>2, <4>2
      <4> QED BY <3>1, <3>2, <4>3 DEF IInv, NATInv, Served
    <3>8. bucket = Settings \/ bareCut
      BY <2>1, NoneAssumption DEF IInv, BucketInv, PhaseInv, Cmd
    <3> QED BY <3>6, <3>7, <3>8
  <2>2. ASSUME done = "mesh", ~unwritten
        PROVE  \A h \in ws.hosts : \A m \in At(h) : mesh[h] = inst[m].key /\ disk[m].node
    BY <2>2 DEF IInv, MeshInv, Member
  <2> QED BY <2>1, <2>2 DEF OkMeansUp
<1> QED BY <1>1, Inductive, PTL
=============================================================================
