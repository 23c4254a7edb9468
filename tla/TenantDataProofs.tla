------------------------- MODULE TenantDataProofs -------------------------
(***************************************************************************)
(* Proofs about what serves the tenants' data: PostgREST, for any number   *)
(* of tenants, edits and failures, and then Databases.                     *)
(***************************************************************************)
EXTENDS PostgREST, Databases, FiniteSetTheorems, TLAPS

USE DEF hosts

----------------------------------------------------------------------------
(***************************************************************************)
(* The inductive invariant.                                                *)
(***************************************************************************)

\* The tenants of this run that get a container.
Deployed == selected \cap OfKind("on")

\* A loop is over the tenants it was started for, and success ends a run.
PhaseInv ==
    /\ pc = "teardown" => todo \subseteq selected \cap OfKind("off")
    /\ pc \in {"unit", "fragment", "restart"} => todo \subseteq Deployed
    /\ pc # "idle" => result # "ok"

\* A port of the data host is published by one container.
OneEach == \A t, u \in Tenant : (listening[t] # 0 /\ listening[t] = listening[u]) => t = u

\* How far a run has got with the tenants it deploys, whatever happened before it.
WrittenInv ==
    /\ pc \in {"unit", "fragment"} =>
          \A t \in Deployed \ todo : unit[t] = Assigned(t) /\ fragment[t] = Assigned(t)
    /\ pc = "fragment" => \A t \in Tenant : Turn(t) => unit[t] = Assigned(t)
    /\ pc = "restart" => \A t \in Deployed : /\ unit[t] = Assigned(t) /\ fragment[t] = Assigned(t)
                                             /\ t \notin todo => listening[t] = Assigned(t)
    /\ (pc \in {"health", "roster"} \/ result = "ok") =>
          \A t \in Deployed : /\ fragment[t] = Assigned(t) /\ listening[t] = Assigned(t)
                              /\ caddy[t] = Assigned(t)

\* While nothing has failed, the three files and processes of a tenant this run is not
\* busy with name one port, and outside the loops Caddy has them loaded.
SyncInv ==
    ~failed =>
        /\ pc \in {"idle", "apply", "teardown", "health", "roster"} => unit = listening /\ fragment = unit
        /\ pc \in {"unit", "fragment"} =>
              \A t \in Tenant \ Deployed : unit[t] = listening[t] /\ fragment[t] = unit[t]
        /\ pc = "restart" => fragment = unit /\ \A t \in Tenant \ todo : listening[t] = unit[t]
        /\ pc \in {"idle", "apply", "health", "roster"} => caddy = fragment

IInv == TypeOK /\ PhaseInv /\ OneEach /\ WrittenInv /\ SyncInv

----------------------------------------------------------------------------
(***************************************************************************)
(* Facts about the operators.                                              *)
(***************************************************************************)

\* Ports are within the range set aside for them, and a container's is never 0.
LEMMA PortRange ==
    ASSUME NEW ids \in SUBSET Tenant, NEW t \in Tenant
    PROVE  /\ postgrestPort(ids, t) \in Port
           /\ t \in ids => postgrestPort(ids, t) # 0
<1>1. t \in Nat /\ N \in Nat /\ 1 <= t /\ t <= N
  BY NAssumption DEF Tenant
<1> DEFINE below == {u \in ids : u < t}
<1>2. below \subseteq 1..(t - 1) /\ (t - 1) \in Nat
  <2>1. ASSUME NEW u \in ids, u < t PROVE u \in 1..(t - 1)
    <3>1. u \in 1..N
      BY DEF Tenant
    <3> QED BY <1>1, <2>1, <3>1
  <2>2. below \subseteq 1..(t - 1)
    BY <2>1
  <2> QED BY <1>1, <2>2
<1>3. IsFiniteSet(1..(t - 1)) /\ Cardinality(1..(t - 1)) = t - 1
  BY <1>1, <1>2, FS_Interval
<1>4. IsFiniteSet(below) /\ Cardinality(below) <= t - 1
  BY <1>2, <1>3, FS_Subset
<1>5. Cardinality(below) \in Nat
  BY <1>4, FS_CardinalityType
<1> HIDE DEF below
<1>6. postgrestPort(ids, t) = IF t \in ids THEN postgrestBasePort + Cardinality(below) ELSE 0
  BY DEF postgrestPort, below
<1> QED BY <1>1, <1>4, <1>5, <1>6 DEF Port, postgrestBasePort

\* No two tenants are given the same port: the later one has the other among those
\* before it.
LEMMA PortsDiffer ==
    ASSUME NEW ids \in SUBSET Tenant, NEW t \in Tenant, NEW u \in Tenant,
           postgrestPort(ids, t) # 0, postgrestPort(ids, t) = postgrestPort(ids, u)
    PROVE  t = u
<1>1. ASSUME NEW x \in ids, NEW y \in ids, x < y
      PROVE  postgrestPort(ids, x) # postgrestPort(ids, y)
  <2> DEFINE below(z) == {v \in ids : v < z}
  <2>1. x \in 1..N /\ y \in 1..N /\ N \in Nat /\ 1 \in Int /\ N \in Int
    BY NAssumption DEF Tenant
  <2>2. IsFiniteSet(1..N) /\ \A z : below(z) \in SUBSET (1..N)
    <3>1. IsFiniteSet(1..N)
      BY <2>1, FS_Interval
    <3> QED BY <3>1 DEF Tenant
  <2>3. IsFiniteSet(below(x)) /\ IsFiniteSet(below(y))
    BY <2>2, FS_Subset
  <2>4. below(x) \subseteq below(y) /\ x \in below(y) /\ x \notin below(x)
    <3>1. ASSUME NEW v \in ids, v < x PROVE v < y
      <4>1. v \in 1..N
        BY DEF Tenant
      <4> QED BY <1>1, <2>1, <3>1, <4>1
    <3>2. below(x) \subseteq below(y)
      BY <3>1
    <3>3. x \in below(y)
      BY <1>1
    <3>4. x \notin below(x)
      <4>1. ~(x < x)
        BY <2>1
      <4> QED BY <4>1
    <3> QED BY <3>2, <3>3, <3>4
  <2>5. Cardinality(below(x)) \in Nat /\ Cardinality(below(y)) \in Nat
    BY <2>3, FS_CardinalityType
  <2>6. Cardinality(below(x)) # Cardinality(below(y))
    BY <2>3, <2>4, FS_Subset
  <2>7. /\ postgrestPort(ids, x) = postgrestBasePort + Cardinality(below(x))
        /\ postgrestPort(ids, y) = postgrestBasePort + Cardinality(below(y))
    BY DEF postgrestPort
  <2> HIDE DEF below
  <2> QED BY <2>5, <2>6, <2>7 DEF postgrestBasePort
<1>2. t \in ids /\ u \in ids
  BY DEF postgrestPort
<1>3. t \in Nat /\ u \in Nat
  BY NAssumption DEF Tenant
<1> QED BY <1>1, <1>2, <1>3

\* The port of a tenant that gets a container lies in the range.
LEMMA AssignedRange ==
    ASSUME NEW t \in Tenant
    PROVE  Assigned(t) \in Port /\ (t \in OfKind("on") => Assigned(t) # 0)
BY PortRange DEF Assigned, postgrestConsumerIDs, OfKind

\* What a run computes from the workspace stays the same while that does.
LEMMA SameWorkspace ==
    ASSUME UNCHANGED kind
    PROVE  /\ \A t \in Tenant : Assigned(t)' = Assigned(t)
           /\ OfKind("on")' = OfKind("on") /\ OfKind("off")' = OfKind("off")
           /\ selected' = selected => Deployed' = Deployed
BY DEF Assigned, postgrestPort, postgrestConsumerIDs, OfKind, Deployed

----------------------------------------------------------------------------
(***************************************************************************)
(* The parts of the invariant, one lemma each.                             *)
(***************************************************************************)

\* Only the operator changes the workspace.
LEMMA WorkspaceFrame ==
    ASSUME Next
    PROVE  UNCHANGED kind \/ \E t \in Tenant, k \in Kind : Edit(t, k)
BY DEF Next, RunStep, Edit, Begin, reconcilePostgREST, Teardown, TeardownDone, WriteUnit,
    WriteFragment, DaemonReload, Restart, RestartFails, ReloadCaddy, HealthCheck,
    reconcileConfigd, Abort, Reboot, CaddyReloads, Loop, Remove, Fault, Turn, Reloaded

\* A step keeps the types.
LEMMA TypeStep == TypeOK /\ Next => TypeOK'
<1> SUFFICES ASSUME TypeOK, Next PROVE TypeOK'
  OBVIOUS
<1>1. ASSUME NEW t \in Tenant, NEW k \in Kind, Edit(t, k) PROVE TypeOK'
  BY <1>1, BoundsAssumption DEF Edit, TypeOK
<1>2. ASSUME NEW ids \in SUBSET Tenant, Begin(ids) PROVE TypeOK'
  BY <1>2 DEF Begin, Phase, TypeOK
<1>3. CASE reconcilePostgREST
  BY <1>3 DEF reconcilePostgREST, Loop, Phase, TypeOK
<1>4. CASE Teardown
  <2>1. /\ unit' \in [Tenant -> Port] /\ listening' \in [Tenant -> Port] /\ fragment' \in [Tenant -> Port]
        /\ todo' \subseteq todo
    BY <1>4 DEF Teardown, Remove, Port, TypeOK
  <2>2. faults' \in 0..MaxFaults
    BY <1>4, BoundsAssumption DEF Teardown, Fault, TypeOK
  <2>3. failed' \in BOOLEAN
    BY <1>4, Zenon DEF Teardown, TypeOK
  <2> QED BY <1>4, <2>1, <2>2, <2>3 DEF Teardown, TypeOK
<1>5. CASE TeardownDone
  <2>1. faults' \in 0..MaxFaults /\ caddy' \in {caddy, fragment}
    BY <1>5, BoundsAssumption DEF TeardownDone, Fault, TypeOK
  <2>2. failed' \in BOOLEAN
    BY <1>5, Zenon DEF TeardownDone, TypeOK
  <2>3. pc' \in Phase /\ todo' \subseteq Tenant
    BY <1>5 DEF TeardownDone, Loop, Phase, TypeOK
  <2> QED BY <1>5, <2>1, <2>2, <2>3 DEF TeardownDone, TypeOK
<1>6. CASE WriteUnit
  BY <1>6, AssignedRange DEF WriteUnit, Phase, TypeOK
<1>7. CASE WriteFragment
  BY <1>7, AssignedRange DEF WriteFragment, Loop, Phase, TypeOK
<1>8. CASE DaemonReload
  BY <1>8 DEF DaemonReload, Loop, Phase, TypeOK
<1>9. CASE Restart
  BY <1>9 DEF Restart, Turn, Phase, TypeOK
<1>10. CASE RestartFails
  <2>1. listening' \in [Tenant -> Port] /\ pc' \in Phase
    BY <1>10 DEF RestartFails, Phase, Port, TypeOK
  <2>2. failed' \in BOOLEAN
    BY <1>10, Zenon DEF RestartFails
  <2> QED BY <1>10, <2>1, <2>2 DEF RestartFails, TypeOK
<1>11. CASE ReloadCaddy
  BY <1>11 DEF ReloadCaddy, Reloaded, Phase, TypeOK
<1>12. CASE HealthCheck
  BY <1>12 DEF HealthCheck, Phase, TypeOK
<1>13. CASE reconcileConfigd
  <2>1. forward' \in [Tenant -> Port]
    <3>1. Declared \in SUBSET Tenant
      BY DEF Declared
    <3>2. \A t \in Tenant : postgrestPort(Declared, t) \in Port
      BY <3>1, PortRange
    <3> QED BY <1>13, <3>2 DEF reconcileConfigd, Port
  <2> QED BY <1>13, <2>1 DEF reconcileConfigd, Phase, TypeOK
<1>14. CASE Abort
  <2>1. faults' \in 0..MaxFaults /\ pc' \in Phase
    BY <1>14, BoundsAssumption DEF Abort, Fault, Phase, TypeOK
  <2>2. failed' \in BOOLEAN
    BY <1>14, Zenon DEF Abort
  <2> QED BY <1>14, <2>1, <2>2 DEF Abort, TypeOK
<1>15. CASE Reboot
  <2>1. faults' \in 0..MaxFaults
    BY <1>15, BoundsAssumption DEF Reboot, Fault, TypeOK
  <2>2. listening' \in [Tenant -> Port]
    BY <1>15 DEF Reboot, Port, TypeOK
  <2> QED BY <1>15, <2>1, <2>2 DEF Reboot, TypeOK
<1>16. CASE CaddyReloads
  BY <1>16 DEF CaddyReloads, Phase, TypeOK
<1>17. Declared \subseteq Tenant /\ \A t \in Declared : {t} \subseteq Tenant
  BY DEF Declared
<1> QED BY <1>1, <1>2, <1>3, <1>4, <1>5, <1>6, <1>7, <1>8, <1>9, <1>10, <1>11, <1>12, <1>13,
    <1>14, <1>15, <1>16, <1>17 DEF Next, RunStep

\* A loop keeps to its tenants.
LEMMA PhaseStep == TypeOK /\ PhaseInv /\ Next => PhaseInv'
<1> SUFFICES ASSUME TypeOK, PhaseInv, Next PROVE PhaseInv'
  OBVIOUS
<1>1. ASSUME NEW t \in Tenant, NEW k \in Kind, Edit(t, k) PROVE PhaseInv'
  BY <1>1 DEF Edit, Deployed, PhaseInv, OfKind
<1>2. ASSUME NEW ids \in SUBSET Tenant, Begin(ids) PROVE PhaseInv'
  BY <1>2 DEF Begin, Deployed, PhaseInv, OfKind
<1>3. CASE reconcilePostgREST
  BY <1>3 DEF reconcilePostgREST, Loop, Deployed, PhaseInv, OfKind
<1>4. CASE Teardown
  BY <1>4 DEF Teardown, Remove, Fault, Turn, Deployed, PhaseInv, OfKind
<1>5. CASE TeardownDone
  BY <1>5 DEF TeardownDone, Loop, Fault, Deployed, PhaseInv, OfKind
<1>6. CASE WriteUnit
  BY <1>6 DEF WriteUnit, Turn, Deployed, PhaseInv, OfKind
<1>7. CASE WriteFragment
  BY <1>7 DEF WriteFragment, Turn, Loop, Deployed, PhaseInv, OfKind
<1>8. CASE DaemonReload
  BY <1>8 DEF DaemonReload, Loop, Deployed, PhaseInv, OfKind
<1>9. CASE Restart
  BY <1>9 DEF Restart, Turn, Deployed, PhaseInv, OfKind
<1>10. CASE RestartFails
  BY <1>10 DEF RestartFails, Turn, Deployed, PhaseInv, OfKind
<1>11. CASE ReloadCaddy
  BY <1>11 DEF ReloadCaddy, Reloaded, Deployed, PhaseInv, OfKind
<1>12. CASE HealthCheck
  BY <1>12 DEF HealthCheck, Deployed, PhaseInv, OfKind
<1>13. CASE reconcileConfigd
  BY <1>13 DEF reconcileConfigd, Deployed, PhaseInv, OfKind
<1>14. CASE Abort
  BY <1>14 DEF Abort, Fault, Deployed, PhaseInv, OfKind
<1>15. CASE Reboot
  BY <1>15 DEF Reboot, Fault, Deployed, PhaseInv, OfKind
<1>16. CASE CaddyReloads
  BY <1>16 DEF CaddyReloads, Deployed, PhaseInv, OfKind
<1>17. Declared \subseteq Tenant /\ \A t \in Declared : {t} \subseteq Tenant
  BY DEF Declared
<1> QED BY <1>1, <1>2, <1>3, <1>4, <1>5, <1>6, <1>7, <1>8, <1>9, <1>10, <1>11, <1>12, <1>13,
    <1>14, <1>15, <1>16, <1>17 DEF Next, RunStep

\* Ports of the data host change hands only when they are free.
LEMMA OneEachStep == TypeOK /\ OneEach /\ Next => OneEach'
<1> SUFFICES ASSUME TypeOK, OneEach, Next PROVE OneEach'
  OBVIOUS
<1>0. listening \in [Tenant -> Port] /\ unit \in [Tenant -> Port]
  BY DEF TypeOK
<1>1. ASSUME NEW t \in Tenant, listening' = [listening EXCEPT ![t] = 0] PROVE OneEach'
  BY <1>0, <1>1 DEF OneEach
<1>2. CASE listening' = listening
  BY <1>2 DEF OneEach
<1>3. CASE Teardown
  BY <1>1, <1>2, <1>3 DEF Teardown, Remove
<1>4. CASE Restart
  <2>1. PICK t \in Tenant : PortFree(t) /\ listening' = [listening EXCEPT ![t] = unit[t]]
    BY <1>4 DEF Restart
  <2> QED BY <1>0, <2>1 DEF OneEach, PortFree
<1>5. CASE RestartFails
  BY <1>1, <1>5 DEF RestartFails
<1>6. CASE Reboot
  <2>1. PICK won \in SUBSET {t \in Tenant : unit[t] # 0} :
          /\ \A t \in Tenant : unit[t] # 0 => Cardinality({u \in won : unit[u] = unit[t]}) = 1
          /\ listening' = [t \in Tenant |-> IF t \in won THEN unit[t] ELSE 0]
    BY <1>6 DEF Reboot
  <2>2. ASSUME NEW t \in won, NEW u \in won, unit[t] = unit[u] PROVE t = u
    <3> DEFINE same == {v \in won : unit[v] = unit[t]}
    <3>1. IsFiniteSet(Tenant) /\ same \in SUBSET Tenant
      <4>1. 1 \in Int /\ N \in Int
        BY NAssumption
      <4>2. IsFiniteSet(Tenant)
        BY <4>1, FS_Interval DEF Tenant
      <4> QED BY <4>2
    <3>2. IsFiniteSet(same)
      BY <3>1, FS_Subset
    <3>3. Cardinality(same) = 1
      BY <2>1
    <3>4. PICK x : same = {x}
      BY <3>2, <3>3, FS_Singleton
    <3>5. t \in same /\ u \in same
      BY <2>2
    <3> QED BY <3>4, <3>5
  <2> QED BY <2>1, <2>2 DEF OneEach
<1>7. \/ listening' = listening \/ Teardown \/ Restart \/ RestartFails \/ Reboot
  BY DEF Next, RunStep, Edit, Begin, reconcilePostgREST, TeardownDone, WriteUnit,
      WriteFragment, DaemonReload, ReloadCaddy, HealthCheck, reconcileConfigd, Abort,
      CaddyReloads, Loop, Fault
<1> QED BY <1>2, <1>3, <1>4, <1>5, <1>6, <1>7

\* What a run has gone through is as the workspace says.
LEMMA WrittenStep == TypeOK /\ PhaseInv /\ WrittenInv /\ Next => WrittenInv'
<1> SUFFICES ASSUME TypeOK, PhaseInv, WrittenInv, Next PROVE WrittenInv'
  OBVIOUS
<1>1. ASSUME NEW t \in Tenant, NEW k \in Kind, Edit(t, k) PROVE WrittenInv'
  BY <1>1 DEF Edit, PhaseInv, WrittenInv
<1>2. ASSUME NEW ids \in SUBSET Tenant, Begin(ids) PROVE WrittenInv'
  BY <1>2 DEF Begin, WrittenInv
<1>3. CASE reconcilePostgREST
  <2>1. /\ \A t \in Tenant : Assigned(t)' = Assigned(t)
        /\ Deployed' = Deployed /\ Deployed \subseteq Tenant
    BY <1>3, SameWorkspace DEF reconcilePostgREST, Deployed, OfKind
  <2> QED BY <1>3, <2>1 DEF reconcilePostgREST, Loop, PhaseInv, WrittenInv, Deployed, OfKind
<1>4. CASE Teardown
  BY <1>4 DEF Teardown, PhaseInv, WrittenInv
<1>5. CASE TeardownDone
  <2>1. /\ \A t \in Tenant : Assigned(t)' = Assigned(t)
        /\ Deployed' = Deployed /\ Deployed \subseteq Tenant
    BY <1>5, SameWorkspace DEF TeardownDone, Deployed, OfKind
  <2> QED BY <1>5, <2>1 DEF TeardownDone, Loop, Fault, PhaseInv, WrittenInv, Deployed, OfKind
<1>6. CASE WriteUnit
  <2>1. /\ \A t \in Tenant : Assigned(t)' = Assigned(t)
        /\ Deployed' = Deployed /\ Deployed \subseteq Tenant
    BY <1>6, SameWorkspace DEF WriteUnit, Deployed, OfKind
  <2>2. PICK t \in Tenant : Turn(t) /\ unit' = [unit EXCEPT ![t] = Assigned(t)]
    BY <1>6 DEF WriteUnit
  <2>3. \A u \in Tenant : unit'[u] = IF u = t THEN Assigned(t) ELSE unit[u]
    BY <2>2 DEF TypeOK
  <2>4. \A u \in Tenant : Turn(u)' => u = t
    BY <1>6, <2>2 DEF WriteUnit, Turn, Tenant
  <2>5. t \in todo /\ todo' = todo /\ fragment' = fragment
          /\ pc = "unit" /\ pc' = "fragment" /\ result' = result
    BY <1>6, <2>2 DEF WriteUnit, Turn
  <2> QED BY <2>1, <2>3, <2>4, <2>5 DEF PhaseInv, WrittenInv
<1>7. CASE WriteFragment
  <2>1. /\ \A t \in Tenant : Assigned(t)' = Assigned(t)
        /\ Deployed' = Deployed /\ Deployed \subseteq Tenant
    BY <1>7, SameWorkspace DEF WriteFragment, Deployed, OfKind
  <2>2. PICK t \in Tenant : /\ Turn(t) /\ fragment' = [fragment EXCEPT ![t] = Assigned(t)]
                              /\ todo' = todo \ {t}
    BY <1>7 DEF WriteFragment, Loop
  <2>3. \A u \in Tenant : fragment'[u] = IF u = t THEN Assigned(t) ELSE fragment[u]
    BY <2>2 DEF TypeOK
  <2>4. pc = "fragment" /\ pc' = "unit" /\ unit' = unit /\ result' = result
    BY <1>7 DEF WriteFragment, Loop
  <2>5. unit[t] = Assigned(t) /\ \A u \in Deployed \ todo : unit[u] = Assigned(u) /\ fragment[u] = Assigned(u)
    BY <2>2, <2>4 DEF WrittenInv
  <2> QED BY <2>1, <2>2, <2>3, <2>4, <2>5 DEF PhaseInv, WrittenInv
<1>8. CASE DaemonReload
  <2>1. /\ \A t \in Tenant : Assigned(t)' = Assigned(t)
        /\ Deployed' = Deployed /\ Deployed \subseteq Tenant
    BY <1>8, SameWorkspace DEF DaemonReload, Deployed, OfKind
  <2> QED BY <1>8, <2>1 DEF DaemonReload, Loop, PhaseInv, WrittenInv, Deployed, TypeOK
<1>9. CASE Restart
  <2>1. /\ \A t \in Tenant : Assigned(t)' = Assigned(t)
        /\ Deployed' = Deployed /\ Deployed \subseteq Tenant
    BY <1>9, SameWorkspace DEF Restart, Deployed, OfKind
  <2>2. PICK t \in Tenant : /\ listening' = [listening EXCEPT ![t] = unit[t]]
                              /\ todo' = todo \ {t} /\ t \in todo
    BY <1>9 DEF Restart, Turn
  <2>3. \A u \in Tenant : listening'[u] = IF u = t THEN unit[t] ELSE listening[u]
    BY <2>2 DEF TypeOK
  <2>4. pc = "restart" /\ pc' = "restart" /\ UNCHANGED <<unit, fragment, result>>
    BY <1>9 DEF Restart
  <2> QED BY <2>1, <2>2, <2>3, <2>4 DEF PhaseInv, WrittenInv
<1>10. CASE RestartFails
  <2>1. /\ \A t \in Tenant : Assigned(t)' = Assigned(t)
        /\ Deployed' = Deployed /\ Deployed \subseteq Tenant
    BY <1>10, SameWorkspace DEF RestartFails, Deployed, OfKind
  <2> QED BY <1>10, <2>1 DEF RestartFails, Turn, PhaseInv, WrittenInv
<1>11. CASE ReloadCaddy
  <2>1. /\ \A t \in Tenant : Assigned(t)' = Assigned(t)
        /\ Deployed' = Deployed /\ Deployed \subseteq Tenant
    BY <1>11, SameWorkspace DEF ReloadCaddy, Deployed, OfKind
  <2> QED BY <1>11, <2>1 DEF ReloadCaddy, Reloaded, PhaseInv, WrittenInv, Deployed, TypeOK
<1>12. CASE HealthCheck
  <2>1. /\ \A t \in Tenant : Assigned(t)' = Assigned(t)
        /\ Deployed' = Deployed /\ Deployed \subseteq Tenant
    BY <1>12, SameWorkspace DEF HealthCheck, Deployed, OfKind
  <2> QED BY <1>12, <2>1 DEF HealthCheck, PhaseInv, WrittenInv
<1>13. CASE reconcileConfigd
  <2>1. /\ \A t \in Tenant : Assigned(t)' = Assigned(t)
        /\ Deployed' = Deployed /\ Deployed \subseteq Tenant
    BY <1>13, SameWorkspace DEF reconcileConfigd, Deployed, OfKind
  <2> QED BY <1>13, <2>1 DEF reconcileConfigd, PhaseInv, WrittenInv
<1>14. CASE Abort
  <2>1. /\ \A t \in Tenant : Assigned(t)' = Assigned(t)
        /\ Deployed' = Deployed /\ Deployed \subseteq Tenant
    BY <1>14, SameWorkspace DEF Abort, Deployed, OfKind
  <2> QED BY <1>14, <2>1 DEF Abort, Fault, PhaseInv, WrittenInv
<1>15. CASE Reboot
  <2>1. /\ \A t \in Tenant : Assigned(t)' = Assigned(t)
        /\ Deployed' = Deployed /\ Deployed \subseteq Tenant
    BY <1>15, SameWorkspace DEF Reboot, Deployed, OfKind
  <2> QED BY <1>15, <2>1 DEF Reboot, Fault, PhaseInv, WrittenInv
<1>16. CASE CaddyReloads
  <2>1. /\ \A t \in Tenant : Assigned(t)' = Assigned(t)
        /\ Deployed' = Deployed /\ Deployed \subseteq Tenant
    BY <1>16, SameWorkspace DEF CaddyReloads, Deployed, OfKind
  <2> QED BY <1>16, <2>1 DEF CaddyReloads, PhaseInv, WrittenInv, Turn
<1>17. Declared \subseteq Tenant /\ \A t \in Declared : {t} \subseteq Tenant
  BY DEF Declared
<1> QED BY <1>1, <1>2, <1>3, <1>4, <1>5, <1>6, <1>7, <1>8, <1>9, <1>10, <1>11, <1>12, <1>13,
    <1>14, <1>15, <1>16, <1>17 DEF Next, RunStep

\* A run that does not fail leaves every tenant with one port.
LEMMA SyncStep == TypeOK /\ PhaseInv /\ OneEach /\ WrittenInv /\ SyncInv /\ Next => SyncInv'
<1> SUFFICES ASSUME TypeOK, PhaseInv, OneEach, WrittenInv, SyncInv, Next PROVE SyncInv'
  OBVIOUS
<1>1. ASSUME NEW t \in Tenant, NEW k \in Kind, Edit(t, k) PROVE SyncInv'
  BY <1>1 DEF Edit, SyncInv
<1>2. ASSUME NEW ids \in SUBSET Tenant, Begin(ids) PROVE SyncInv'
  BY <1>2 DEF Begin, SyncInv
<1>3. CASE reconcilePostgREST
  BY <1>3 DEF reconcilePostgREST, Loop, SyncInv
<1>4. CASE Teardown
  <2>1. PICK t \in Tenant : \/ Remove(t, {"stop", "unit", "fragment"}) /\ UNCHANGED failed
                            \/ failed'
    BY <1>4 DEF Teardown
  <2>2. pc = "teardown" /\ pc' = "teardown"
    BY <1>4 DEF Teardown
  <2>3. CASE failed'
    BY <2>3 DEF SyncInv
  <2>4. CASE Remove(t, {"stop", "unit", "fragment"}) /\ UNCHANGED failed
    <3>1. /\ listening' = [listening EXCEPT ![t] = 0] /\ unit' = [unit EXCEPT ![t] = 0]
          /\ fragment' = [fragment EXCEPT ![t] = 0]
      BY <2>4 DEF Remove
    <3> QED BY <2>2, <2>4, <3>1 DEF SyncInv
  <2> QED BY <2>1, <2>3, <2>4
<1>5. CASE TeardownDone
  <2>1. Deployed' = Deployed /\ Deployed \subseteq Tenant
    BY <1>5, SameWorkspace DEF TeardownDone, Deployed, OfKind
  <2> QED BY <1>5, <2>1 DEF TeardownDone, Loop, SyncInv
<1>6. CASE WriteUnit
  <2>1. Deployed' = Deployed /\ Deployed \subseteq Tenant
    BY <1>6, SameWorkspace DEF WriteUnit, Deployed, OfKind
  <2>2. \A u \in Tenant \ Deployed : unit'[u] = unit[u]
    BY <1>6 DEF WriteUnit, Turn, PhaseInv, TypeOK
  <2> QED BY <1>6, <2>1, <2>2 DEF WriteUnit, SyncInv
<1>7. CASE WriteFragment
  <2>1. Deployed' = Deployed /\ Deployed \subseteq Tenant
    BY <1>7, SameWorkspace DEF WriteFragment, Deployed, OfKind
  <2>2. \A u \in Tenant \ Deployed : fragment'[u] = fragment[u]
    BY <1>7 DEF WriteFragment, Turn, PhaseInv, TypeOK
  <2> QED BY <1>7, <2>1, <2>2 DEF WriteFragment, Loop, SyncInv
<1>8. CASE DaemonReload
  <2>1. Deployed' = Deployed /\ Deployed \subseteq Tenant
    BY <1>8, SameWorkspace DEF DaemonReload, Deployed, OfKind
  <2>2. \A t \in Deployed : unit[t] = fragment[t]
    BY <1>8 DEF DaemonReload, WrittenInv
  <2>3. pc = "unit" /\ pc' = "restart" /\ UNCHANGED <<unit, fragment, listening, failed>> /\ todo' = Deployed
    BY <1>8 DEF DaemonReload, Loop, Deployed
  <2>4. ASSUME ~failed PROVE fragment = unit /\ \A t \in Tenant \ Deployed : listening[t] = unit[t]
    <3>1. \A t \in Tenant : fragment[t] = unit[t]
      BY <2>1, <2>2, <2>3, <2>4 DEF SyncInv
    <3> QED BY <2>3, <2>4, <3>1 DEF SyncInv, TypeOK
  <2> QED BY <2>1, <2>3, <2>4 DEF SyncInv
<1>9. CASE Restart
  <2>1. PICK t \in Tenant : /\ listening' = [listening EXCEPT ![t] = unit[t]]
                              /\ todo' = todo \ {t}
    BY <1>9 DEF Restart
  <2>2. \A u \in Tenant : listening'[u] = IF u = t THEN unit[t] ELSE listening[u]
    BY <2>1 DEF TypeOK
  <2> QED BY <1>9, <2>1, <2>2 DEF Restart, SyncInv
<1>10. CASE RestartFails
  BY <1>10 DEF RestartFails, SyncInv
<1>11. CASE ReloadCaddy
  <2>1. ~failed => fragment = unit /\ \A t \in Tenant : listening[t] = unit[t]
    BY <1>11 DEF ReloadCaddy, SyncInv
  <2>2. ~failed => unit = listening
    BY <2>1 DEF TypeOK
  <2> QED BY <1>11, <2>1, <2>2 DEF ReloadCaddy, Reloaded, SyncInv
<1>12. CASE HealthCheck
  BY <1>12 DEF HealthCheck, SyncInv
<1>13. CASE reconcileConfigd
  BY <1>13 DEF reconcileConfigd, SyncInv
<1>14. CASE Abort
  BY <1>14 DEF Abort, Fault, SyncInv
<1>15. CASE Reboot
  <2>1. PICK won \in SUBSET {t \in Tenant : unit[t] # 0} :
          /\ \A t \in Tenant : unit[t] # 0 => Cardinality({u \in won : unit[u] = unit[t]}) = 1
          /\ listening' = [t \in Tenant |-> IF t \in won THEN unit[t] ELSE 0]
    BY <1>15 DEF Reboot
  <2>2. ASSUME ~failed, NEW t \in Tenant, unit[t] # 0 PROVE t \in won
    <3>1. unit = listening
      BY <1>15, <2>2 DEF Reboot, SyncInv
    <3>2. {u \in won : unit[u] = unit[t]} # {}
      BY <2>1, <2>2, FS_EmptySet
    <3> QED BY <2>2, <3>1, <3>2 DEF OneEach
  <2>3. ~failed => listening' = unit
    BY <2>1, <2>2 DEF TypeOK
  <2> QED BY <1>15, <2>3 DEF Reboot, SyncInv
<1>16. CASE CaddyReloads
  <2>1. Deployed' = Deployed /\ Deployed \subseteq Tenant
    BY <1>16, SameWorkspace DEF CaddyReloads, Deployed, OfKind
  <2> QED BY <1>16, <2>1 DEF CaddyReloads, SyncInv
<1>17. Declared \subseteq Tenant /\ \A t \in Declared : {t} \subseteq Tenant
  BY DEF Declared
<1> QED BY <1>1, <1>2, <1>3, <1>4, <1>5, <1>6, <1>7, <1>8, <1>9, <1>10, <1>11, <1>12, <1>13,
    <1>14, <1>15, <1>16, <1>17 DEF Next, RunStep

----------------------------------------------------------------------------
\* The invariant holds at the start,
LEMMA IInvInit == Init => IInv
<1> SUFFICES ASSUME Init PROVE IInv
  OBVIOUS
<1>1. \A t \in Tenant : Assigned(t) \in Port
  BY AssignedRange
<1>2. unit \in [Tenant -> Port]
  BY <1>1 DEF Init
<1>3. edits \in 0..MaxEdits /\ faults \in 0..MaxFaults
  BY BoundsAssumption DEF Init
<1>4. failed \in BOOLEAN
  BY Zenon DEF Init
<1>5. kind \in [Tenant -> Kind]
  BY DEF Init, Kind
<1>6. TypeOK
  BY <1>2, <1>3, <1>4, <1>5 DEF Init, TypeOK, Phase
<1>7. OneEach
  <2> SUFFICES ASSUME NEW t \in Tenant, NEW u \in Tenant, Assigned(t) # 0, Assigned(t) = Assigned(u)
               PROVE  t = u
    BY DEF Init, OneEach
  <2> QED BY PortsDiffer DEF Assigned, postgrestConsumerIDs, OfKind
<1>8. PhaseInv /\ WrittenInv /\ SyncInv
  BY DEF Init, PhaseInv, WrittenInv, SyncInv
<1> QED BY <1>6, <1>7, <1>8 DEF IInv

\* in a step that changes nothing,
LEMMA IInvStutter == IInv /\ UNCHANGED vars => IInv'
<1> SUFFICES ASSUME IInv, UNCHANGED vars PROVE IInv'
  OBVIOUS
<1>1. TypeOK' /\ PhaseInv' /\ OneEach' /\ SyncInv'
  BY DEF IInv, TypeOK, PhaseInv, OneEach, SyncInv, Deployed, OfKind, vars
<1>2. WrittenInv'
  BY SameWorkspace DEF IInv, WrittenInv, Deployed, OfKind, Turn, vars
<1> QED BY <1>1, <1>2 DEF IInv

\* and after every step.
LEMMA IInvStep == IInv /\ [Next]_vars => IInv'
BY TypeStep, PhaseStep, OneEachStep, WrittenStep, SyncStep, IInvStutter DEF IInv

(***************************************************************************)
(* The inductive invariant holds in every behaviour.                       *)
(***************************************************************************)
THEOREM Inductive == Spec => []IInv
BY IInvInit, IInvStep, PTL DEF Spec

(***************************************************************************)
(* Type correctness: every port, counted or stored, is in its range.       *)
(***************************************************************************)
THEOREM TypeCorrect == Spec => []TypeOK
<1>1. IInv => TypeOK
  BY DEF IInv
<1> QED BY <1>1, Inductive, PTL

(***************************************************************************)
(* After a tenant apply that returned no error each PostgREST tenant it    *)
(* was called for has a container on the port its vhost proxies to, and    *)
(* nobody else's is there.                                                 *)
(***************************************************************************)
THEOREM Served == Spec => []OkMeansServed
<1>1. IInv => OkMeansServed
  <2> SUFFICES ASSUME IInv, result = "ok", NEW t \in selected \cap postgrestConsumerIDs
               PROVE  /\ listening[t] = Assigned(t)
                      /\ caddy[t] = listening[t]
                      /\ \A u \in Tenant \ {t} : listening[u] # caddy[t]
    BY DEF OkMeansServed
  <2>1. t \in Deployed /\ t \in Tenant /\ t \in OfKind("on")
    BY DEF Deployed, postgrestConsumerIDs, OfKind
  <2>2. listening[t] = Assigned(t) /\ caddy[t] = Assigned(t)
    BY <2>1 DEF IInv, WrittenInv
  <2>3. Assigned(t) # 0
    BY <2>1, AssignedRange
  <2> QED BY <2>1, <2>2, <2>3 DEF IInv, OneEach
<1> QED BY <1>1, Inductive, PTL

(***************************************************************************)
(* Between runs, and as long as no run and no teardown has failed, no      *)
(* vhost leads to the container of another tenant.                         *)
(***************************************************************************)
THEOREM OthersData == Spec => []OthersDataOnlyAfterFailure
<1>1. IInv => OthersDataOnlyAfterFailure
  <2> SUFFICES ASSUME IInv, pc = "idle", ~failed, NEW t \in Tenant, NEW u \in Tenant,
                      caddy[t] # 0, listening[u] = caddy[t]
               PROVE  u = t
    BY DEF OthersDataOnlyAfterFailure
  <2>1. caddy = listening
    BY DEF IInv, SyncInv
  <2> QED BY <2>1 DEF IInv, OneEach
<1> QED BY <1>1, Inductive, PTL

----------------------------------------------------------------------------
(***************************************************************************)
(* Databases, for any number of tenants, any cluster Patroni accepts and   *)
(* any number of failures.  It shares no variable with PostgREST.          *)
(***************************************************************************)
USE DEF workspace, cluster, store, redis, backup, local

\* The phases of an apply after its first statement has gone through.
Writing == {"sql", "acl", "load", "backup"}

\* A command that runs has not reported yet; an apply has all its databases to do before the
\* first statement, and none in the later stages.
DataPhaseInv ==
    /\ phase # "idle" => done = None
    /\ phase \in {"check", "roles"} => sel \cap DBConsumers \subseteq pending
    /\ phase \in {"acl", "load", "backup"} => pending = {}

\* An apply writes to the leader, and its report names it, until the leader moves.
LeaderInv ==
    /\ phase \in Writing => conn \in Node /\ (moved \/ conn = leader)
    /\ (done # None /\ done.cmd = "apply") => env.pg \in Node /\ (moved \/ env.pg = leader)

\* The databases an apply has gone through are whole.
WholeInv ==
    /\ phase \in Writing => \A t \in sel \ pending : want[t].db => Whole(t)
    /\ (done # None /\ done.cmd = "apply") => \A t \in done.sel : want[t].db => Whole(t)

\* The file is right, and Redis has read it or has refused to, for want of its admin.
Loaded == aclFile = Lines /\ (acl = Lines \/ (torn /\ ~AdminServed))

\* What an apply has written for Redis, and what Redis has read of it.
CacheInv ==
    /\ phase = "load" => aclFile = Lines
    /\ (phase = "backup" /\ sel \cap CacheConsumers # {}) => Loaded
    /\ (done # None /\ done.cmd = "apply" /\ done.sel \cap CacheConsumers # {}) => Loaded

\* Both copies of Redis's users have the admin, unless an upload was torn.
AdminInv == torn \/ (aclFile # None /\ acl # None /\ "mksrv" \in aclFile /\ "mksrv" \in acl)

\* A database is open to others only where its script was cut off.
OpenInv == \A t \in TenantID : "open" \in db[t] => t \in cut

\* What was reported ready is there, is wanted, and is in a backup environment that is whole.
ReadyInv ==
    /\ \A t \in ready : want[t].db /\ "database" \in db[t]
    /\ (env # None /\ env.repo) => ready \subseteq env.dbs
    /\ (done # None /\ done.cmd = "backup") =>
          (ready \subseteq done.sel \cup done.failed \/ ~env.pass \/ env.pg \notin up)

DataIInv == DataTypeOK /\ DataPhaseInv /\ LeaderInv /\ WholeInv /\ CacheInv /\ AdminInv /\ OpenInv /\ ReadyInv

----------------------------------------------------------------------------
(***************************************************************************)
(* Facts about the operators.                                              *)
(***************************************************************************)

\* An event counts up to its bound.
LEMMA EventType == ASSUME events \in 0..MaxEvents, Event PROVE events' \in 0..MaxEvents
BY EventsAssumption DEF Event

\* The statements of a script.
LEMMA ScriptRange ==
    ASSUME NEW n \in 0..10
    PROVE  {Statements[k] : k \in 1..n} \subseteq
              {"login", "auth", "database", "close", "connect", "public", "schema", "app", "hide", "hook"}
BY DEF Statements

\* A whole script has them all.
LEMMA ScriptWhole ==
    {Statements[k] : k \in 1..10} =
        {"login", "auth", "database", "close", "connect", "public", "schema", "app", "hide", "hook"}
BY DEF Statements

\* Whatever part of it ran, a script leaves facts, and never takes the database away.
LEMMA AfterType ==
    ASSUME NEW t \in TenantID, NEW n \in 0..10, NEW d \in SUBSET Fact
    PROVE  /\ After(d, tenantDatabaseSQL(t, n)) \subseteq Fact
           /\ "database" \in d => "database" \in After(d, tenantDatabaseSQL(t, n))
BY ScriptRange DEF After, tenantDatabaseSQL, Adds, Dels, Fact

\* A script that ran to its end leaves everything in place and nothing open.
LEMMA AfterWhole ==
    ASSUME NEW t \in TenantID, NEW d
    PROVE  LET e == After(d, tenantDatabaseSQL(t, 10))
           IN  /\ {"login", "auth", "database", "connect", "schema", "app", "hook"} \subseteq e
               /\ "open" \notin e /\ "anon" \notin e
               /\ want[t].public => "public" \in e
<1> DEFINE S == tenantDatabaseSQL(t, 10)
           e == After(d, S)
<1>1. {"login", "auth", "database", "close", "connect", "schema", "app", "hide", "hook"} \subseteq S
  BY ScriptWhole DEF tenantDatabaseSQL
<1>2. want[t].public => "public" \in S
  BY ScriptWhole DEF tenantDatabaseSQL
<1>3. \A s \in {"login", "auth", "connect", "schema", "app", "hook", "public"} : s \in S => s \in e
  BY DEF After, Adds, Dels
<1>4. "database" \in e
  BY <1>1 DEF After, Adds, Dels
<1>5. "open" \notin e /\ "anon" \notin e
  BY <1>1 DEF After, Dels
<1> QED BY <1>1, <1>2, <1>3, <1>4, <1>5

\* The lines of the file are users, the admin among them.
LEMMA LinesSet == Lines \in SUBSET User /\ Lines # None /\ "mksrv" \in Lines
BY NoneAssumption DEF Lines, User, CacheConsumers

\* So is the seed.
LEMMA SeedSet == {"mksrv"} \in SUBSET User /\ {"mksrv"} # None
BY NoneAssumption DEF User

----------------------------------------------------------------------------
(***************************************************************************)
(* Every step keeps each part.                                             *)
(***************************************************************************)

\* Every step keeps the types.
LEMMA DataTypeStep ==
    ASSUME DataTypeOK, [DataNext]_dataVars
    PROVE  DataTypeOK'
<1>1. CASE StartBootstrap
  BY <1>1, EventType DEF StartBootstrap, DataTypeOK
<1>2. ASSUME NEW S \in SUBSET TenantID, StartApply(S) PROVE DataTypeOK'
  BY <1>2, EventType DEF StartApply, DataTypeOK
<1>3. CASE Rows
  BY <1>3, EventType DEF Rows, DataTypeOK
<1>4. CASE NotHealthy
  BY <1>4, EventType DEF NotHealthy, Leave, Error, DataTypeOK
<1>5. CASE ProvisionAppDatabase
  BY <1>5, EventType DEF ProvisionAppDatabase, DataTypeOK
<1>6. CASE Record
  BY <1>6, EventType DEF Record, Leave, Return, DataTypeOK
<1>7. CASE Switchover
  BY <1>7, EventType DEF Switchover, DataTypeOK
<1>8. CASE NoSwitchover
  BY <1>8, EventType DEF NoSwitchover, Leave, Error, DataTypeOK
<1>9. CASE Settled
  BY <1>9, EventType DEF Settled, Leave, Return, DataTypeOK
<1>10. CASE EnsurePrimary
  BY <1>10, EventType DEF EnsurePrimary, DataTypeOK, Leader
<1>11. CASE GlobalRBACRoles
  BY <1>11, EventType DEF GlobalRBACRoles, DataTypeOK
<1>12. CASE TenantDatabase
  <2>1. PICK t \in TenantID : RunSQL(t) /\ pending' = pending \ {t}
    BY <1>12 DEF TenantDatabase, DataTypeOK
  <2>2. After(db[t], tenantDatabaseSQL(t, 10)) \in SUBSET Fact
    BY AfterType DEF DataTypeOK
  <2>3. db' \in [TenantID -> SUBSET Fact] /\ cut' \subseteq TenantID /\ pending' \subseteq TenantID
    BY <2>1, <2>2 DEF RunSQL, DataTypeOK
  <2> QED BY <1>12, <2>3 DEF TenantDatabase, DataTypeOK
<1>13. CASE ReadOnly
  BY <1>13, EventType DEF ReadOnly, Leave, Error, DataTypeOK
<1>14. CASE SkipRedis
  BY <1>14, EventType DEF SkipRedis, DataTypeOK
<1>15. CASE ToRedis
  BY <1>15, EventType DEF ToRedis, DataTypeOK
<1>16. CASE WriteACL
  BY <1>16, EventType, LinesSet DEF WriteACL, DataTypeOK
<1>17. CASE LoadACL
  BY <1>17, EventType DEF LoadACL, DataTypeOK
<1>18. CASE LoadRefused \/ RedisDown
  BY <1>18, EventType DEF LoadRefused, RedisDown, Leave, Error, DataTypeOK
<1>19. CASE WriteBackupEnv
  <2>1. PICK e \in [pg : {conn}, pass : BOOLEAN, dbs : {DBs}, bao : BOOLEAN, repo : {TRUE}] :
           env' = e /\ (events' = events \/ Event)
    BY <1>19 DEF WriteBackupEnv
  <2>2. env' \in Env
    BY <2>1 DEF Env, DBs, DBConsumers, DataTypeOK
  <2>3. events' \in 0..MaxEvents
    BY <2>1, EventType DEF DataTypeOK
  <2>4. done' \in [cmd : {"bootstrap", "apply", "backup"}, sel : SUBSET TenantID,
                 failed : SUBSET TenantID]
    BY <1>19 DEF WriteBackupEnv, Return, DataTypeOK
  <2> QED BY <1>19, <2>2, <2>3, <2>4 DEF WriteBackupEnv, Leave, Return, DataTypeOK
<1>20. CASE RecordThenSwitch
  BY <1>20, EventType DEF RecordThenSwitch, DataTypeOK
<1>21. CASE TenantDatabaseCut
  <2>1. PICK t \in TenantID, n \in 0..9 :
           db' = [db EXCEPT ![t] = After(@, tenantDatabaseSQL(t, n))] /\ cut' = cut \cup {t}
    BY <1>21 DEF TenantDatabaseCut, DataTypeOK
  <2>2. After(db[t], tenantDatabaseSQL(t, n)) \in SUBSET Fact
    BY AfterType DEF DataTypeOK
  <2>3. db' \in [TenantID -> SUBSET Fact] /\ cut' \subseteq TenantID
    BY <2>1, <2>2 DEF DataTypeOK
  <2> QED BY <1>21, <2>3, EventType DEF TenantDatabaseCut, Leave, Error, DataTypeOK
<1>22. CASE WriteACLTorn
  <2>1. aclFile' \in (SUBSET User) \cup {None}
    BY <1>22, SeedSet DEF WriteACLTorn, User, TenantID
  <2> QED BY <1>22, <2>1, EventType DEF WriteACLTorn, Leave, Error, DataTypeOK
<1>23. CASE WriteBackupEnvTorn
  <2>1. PICK k \in 0..4 :
           env' = [bao  |-> k >= 1,
                   dbs  |-> IF k >= 2 THEN DBs ELSE {},
                   pg   |-> IF k >= 3 THEN conn ELSE None,
                   pass |-> k >= 4,
                   repo |-> FALSE]
    BY <1>23 DEF WriteBackupEnvTorn
  <2>2. env' \in Env
    BY <2>1 DEF Env, DBs, DBConsumers, DataTypeOK
  <2> QED BY <1>23, <2>2, EventType DEF WriteBackupEnvTorn, Leave, Error, DataTypeOK
<1>24. CASE Backup
  <2>1. env \in Env
    BY <1>24 DEF Backup, DataTypeOK
  <2>2. PICK bad \in SUBSET env.dbs :
           /\ done' = [cmd |-> "backup", sel |-> Dumped(bad), failed |-> bad]
           /\ events' = events \/ Event
    BY <1>24 DEF Backup
  <2>3. Dumped(bad) \subseteq TenantID /\ bad \subseteq TenantID
    BY <2>1 DEF Dumped, Env
  <2>4. done' \in [cmd : {"bootstrap", "apply", "backup"}, sel : SUBSET TenantID,
                 failed : SUBSET TenantID]
    BY <2>2, <2>3
  <2>5. events' \in 0..MaxEvents
    BY <2>2, EventType DEF DataTypeOK
  <2> QED BY <1>24, <2>4, <2>5 DEF Backup, DataTypeOK
<1>25. CASE Cut
  BY <1>25, EventType DEF Cut, Leave, Error, DataTypeOK
<1>26. ASSUME NEW n \in Node, NodeDown(n) PROVE DataTypeOK'
  BY <1>26, EventType DEF NodeDown, DataTypeOK
<1>27. ASSUME NEW n \in Node, NodeUp(n) PROVE DataTypeOK'
  BY <1>27, EventType DEF NodeUp, DataTypeOK
<1>28. CASE Elect
  BY <1>28, EventType DEF Elect, DataTypeOK
<1>29. CASE Failover
  BY <1>29, EventType DEF Failover, DataTypeOK
<1>30. CASE DeployCache
  BY <1>30, EventType, SeedSet DEF DeployCache, DataTypeOK
<1>31. CASE RedisRestarts
  BY <1>31, EventType DEF RedisRestarts, DataTypeOK
<1>32. ASSUME NEW t \in TenantID, Publish(t) PROVE DataTypeOK'
  <2>1. db' \in [TenantID -> SUBSET Fact]
    BY <1>32 DEF Publish, DataTypeOK, Fact
  <2> QED BY <1>32, <2>1, EventType DEF Publish, DataTypeOK
<1>33. ASSUME NEW t \in TenantID, EditTenant(t) PROVE DataTypeOK'
  BY <1>33, EventType DEF EditTenant, DataTypeOK
<1>34. CASE UNCHANGED dataVars
  BY <1>34, EventType DEF dataVars, DataTypeOK
<1> QED BY <1>1, <1>2, <1>3, <1>4, <1>5, <1>6, <1>7, <1>8, <1>9, <1>10, <1>11, <1>12, <1>13,
            <1>14, <1>15, <1>16, <1>17, <1>18, <1>19, <1>20, <1>21, <1>22, <1>23, <1>24, <1>25,
            <1>26, <1>27, <1>28, <1>29, <1>30, <1>31, <1>32, <1>33, <1>34 DEF DataNext, Step

\* Every step keeps PhaseInv.
LEMMA DataPhaseStep ==
    ASSUME DataTypeOK, DataPhaseInv, [DataNext]_dataVars
    PROVE  DataPhaseInv'
<1>1. CASE StartBootstrap
  BY <1>1 DEF StartBootstrap, DataPhaseInv, DBConsumers
<1>2. ASSUME NEW S \in SUBSET TenantID, StartApply(S) PROVE DataPhaseInv'
  BY <1>2 DEF StartApply, DataPhaseInv, DBConsumers
<1>3. CASE Rows
  BY <1>3 DEF Rows, DataPhaseInv, DBConsumers
<1>4. CASE NotHealthy
  BY <1>4 DEF NotHealthy, Leave, Error, DataPhaseInv, DBConsumers
<1>5. CASE ProvisionAppDatabase
  BY <1>5 DEF ProvisionAppDatabase, DataPhaseInv, DBConsumers
<1>6. CASE Record
  BY <1>6 DEF Record, Leave, Return, DataPhaseInv, DBConsumers
<1>7. CASE Switchover
  BY <1>7 DEF Switchover, DataPhaseInv, DBConsumers
<1>8. CASE NoSwitchover
  BY <1>8 DEF NoSwitchover, Leave, Error, DataPhaseInv, DBConsumers
<1>9. CASE Settled
  BY <1>9 DEF Settled, Leave, Return, DataPhaseInv, DBConsumers
<1>10. CASE EnsurePrimary
  BY <1>10 DEF EnsurePrimary, DataPhaseInv, DBConsumers
<1>11. CASE GlobalRBACRoles
  BY <1>11 DEF GlobalRBACRoles, DataPhaseInv, DBConsumers
<1>12. CASE TenantDatabase
  BY <1>12 DEF TenantDatabase, DataPhaseInv, DBConsumers
<1>13. CASE ReadOnly
  BY <1>13 DEF ReadOnly, Leave, Error, DataPhaseInv, DBConsumers
<1>14. CASE SkipRedis
  BY <1>14 DEF SkipRedis, DataPhaseInv, DBConsumers
<1>15. CASE ToRedis
  BY <1>15 DEF ToRedis, DataPhaseInv, DBConsumers
<1>16. CASE WriteACL
  BY <1>16 DEF WriteACL, DataPhaseInv, DBConsumers
<1>17. CASE LoadACL
  BY <1>17 DEF LoadACL, DataPhaseInv, DBConsumers
<1>18. CASE LoadRefused \/ RedisDown
  BY <1>18 DEF LoadRefused, RedisDown, Leave, Error, DataPhaseInv, DBConsumers
<1>19. CASE WriteBackupEnv
  BY <1>19 DEF WriteBackupEnv, Leave, Return, DataPhaseInv, DBConsumers
<1>20. CASE RecordThenSwitch
  BY <1>20 DEF RecordThenSwitch, DataPhaseInv, DBConsumers
<1>21. CASE TenantDatabaseCut
  BY <1>21 DEF TenantDatabaseCut, Leave, Error, DataPhaseInv, DBConsumers
<1>22. CASE WriteACLTorn
  BY <1>22 DEF WriteACLTorn, Leave, Error, DataPhaseInv, DBConsumers
<1>23. CASE WriteBackupEnvTorn
  BY <1>23 DEF WriteBackupEnvTorn, Leave, Error, DataPhaseInv, DBConsumers
<1>24. CASE Backup
  BY <1>24 DEF Backup, DataPhaseInv, DBConsumers
<1>25. CASE Cut
  BY <1>25 DEF Cut, Leave, Error, DataPhaseInv, DBConsumers
<1>26. ASSUME NEW n \in Node, NodeDown(n) PROVE DataPhaseInv'
  BY <1>26 DEF NodeDown, DataPhaseInv, DBConsumers
<1>27. ASSUME NEW n \in Node, NodeUp(n) PROVE DataPhaseInv'
  BY <1>27 DEF NodeUp, DataPhaseInv, DBConsumers
<1>28. CASE Elect
  BY <1>28 DEF Elect, DataPhaseInv, DBConsumers
<1>29. CASE Failover
  BY <1>29 DEF Failover, DataPhaseInv, DBConsumers
<1>30. CASE DeployCache
  BY <1>30 DEF DeployCache, DataPhaseInv, DBConsumers
<1>31. CASE RedisRestarts
  BY <1>31 DEF RedisRestarts, DataPhaseInv, DBConsumers
<1>32. ASSUME NEW t \in TenantID, Publish(t) PROVE DataPhaseInv'
  BY <1>32 DEF Publish, DataPhaseInv, DBConsumers
<1>33. ASSUME NEW t \in TenantID, EditTenant(t) PROVE DataPhaseInv'
  BY <1>33 DEF EditTenant, DataPhaseInv, DBConsumers
<1>34. CASE UNCHANGED dataVars
  BY <1>34 DEF dataVars, DataPhaseInv, DBConsumers
<1> QED BY <1>1, <1>2, <1>3, <1>4, <1>5, <1>6, <1>7, <1>8, <1>9, <1>10, <1>11, <1>12, <1>13,
            <1>14, <1>15, <1>16, <1>17, <1>18, <1>19, <1>20, <1>21, <1>22, <1>23, <1>24, <1>25,
            <1>26, <1>27, <1>28, <1>29, <1>30, <1>31, <1>32, <1>33, <1>34 DEF DataNext, Step

\* Every step keeps LeaderInv.
LEMMA LeaderStep ==
    ASSUME DataTypeOK, DataPhaseInv, LeaderInv, [DataNext]_dataVars
    PROVE  LeaderInv'
<1>1. CASE StartBootstrap
  BY <1>1 DEF StartBootstrap, DataTypeOK, DataPhaseInv, LeaderInv, Writing
<1>2. ASSUME NEW S \in SUBSET TenantID, StartApply(S) PROVE LeaderInv'
  BY <1>2 DEF StartApply, DataTypeOK, DataPhaseInv, LeaderInv, Writing
<1>3. CASE Rows
  BY <1>3 DEF Rows, DataTypeOK, DataPhaseInv, LeaderInv, Writing
<1>4. CASE NotHealthy
  BY <1>4 DEF NotHealthy, Leave, Error, DataTypeOK, DataPhaseInv, LeaderInv, Writing
<1>5. CASE ProvisionAppDatabase
  BY <1>5 DEF ProvisionAppDatabase, DataTypeOK, DataPhaseInv, LeaderInv, Writing
<1>6. CASE Record
  BY <1>6 DEF Record, Leave, Return, DataTypeOK, DataPhaseInv, LeaderInv, Writing
<1>7. CASE Switchover
  BY <1>7 DEF Switchover, DataTypeOK, DataPhaseInv, LeaderInv, Writing
<1>8. CASE NoSwitchover
  BY <1>8 DEF NoSwitchover, Leave, Error, DataTypeOK, DataPhaseInv, LeaderInv, Writing
<1>9. CASE Settled
  BY <1>9 DEF Settled, Leave, Return, DataTypeOK, DataPhaseInv, LeaderInv, Writing
<1>10. CASE EnsurePrimary
  BY <1>10 DEF EnsurePrimary, DataTypeOK, DataPhaseInv, LeaderInv, Writing
<1>11. CASE GlobalRBACRoles
  BY <1>11 DEF GlobalRBACRoles, DataTypeOK, DataPhaseInv, LeaderInv, Writing, Writable
<1>12. CASE TenantDatabase
  BY <1>12 DEF TenantDatabase, DataTypeOK, DataPhaseInv, LeaderInv, Writing
<1>13. CASE ReadOnly
  BY <1>13 DEF ReadOnly, Leave, Error, DataTypeOK, DataPhaseInv, LeaderInv, Writing
<1>14. CASE SkipRedis
  BY <1>14 DEF SkipRedis, DataTypeOK, DataPhaseInv, LeaderInv, Writing
<1>15. CASE ToRedis
  BY <1>15 DEF ToRedis, DataTypeOK, DataPhaseInv, LeaderInv, Writing
<1>16. CASE WriteACL
  BY <1>16 DEF WriteACL, DataTypeOK, DataPhaseInv, LeaderInv, Writing
<1>17. CASE LoadACL
  BY <1>17 DEF LoadACL, DataTypeOK, DataPhaseInv, LeaderInv, Writing
<1>18. CASE LoadRefused \/ RedisDown
  BY <1>18 DEF LoadRefused, RedisDown, Leave, Error, DataTypeOK, DataPhaseInv, LeaderInv, Writing
<1>19. CASE WriteBackupEnv
  BY <1>19 DEF WriteBackupEnv, Leave, Return, DataTypeOK, DataPhaseInv, LeaderInv, Writing
<1>20. CASE RecordThenSwitch
  BY <1>20 DEF RecordThenSwitch, DataTypeOK, DataPhaseInv, LeaderInv, Writing
<1>21. CASE TenantDatabaseCut
  BY <1>21 DEF TenantDatabaseCut, Leave, Error, DataTypeOK, DataPhaseInv, LeaderInv, Writing
<1>22. CASE WriteACLTorn
  BY <1>22 DEF WriteACLTorn, Leave, Error, DataTypeOK, DataPhaseInv, LeaderInv, Writing
<1>23. CASE WriteBackupEnvTorn
  BY <1>23 DEF WriteBackupEnvTorn, Leave, Error, DataTypeOK, DataPhaseInv, LeaderInv, Writing
<1>24. CASE Backup
  BY <1>24 DEF Backup, DataTypeOK, DataPhaseInv, LeaderInv, Writing
<1>25. CASE Cut
  BY <1>25 DEF Cut, Leave, Error, DataTypeOK, DataPhaseInv, LeaderInv, Writing
<1>26. ASSUME NEW n \in Node, NodeDown(n) PROVE LeaderInv'
  BY <1>26 DEF NodeDown, DataTypeOK, DataPhaseInv, LeaderInv, Writing
<1>27. ASSUME NEW n \in Node, NodeUp(n) PROVE LeaderInv'
  BY <1>27 DEF NodeUp, DataTypeOK, DataPhaseInv, LeaderInv, Writing
<1>28. CASE Elect
  BY <1>28, NodesAssumption DEF Elect, DataTypeOK, DataPhaseInv, LeaderInv, Writing
<1>29. CASE Failover
  BY <1>29 DEF Failover, DataTypeOK, DataPhaseInv, LeaderInv, Writing
<1>30. CASE DeployCache
  BY <1>30 DEF DeployCache, DataTypeOK, DataPhaseInv, LeaderInv, Writing
<1>31. CASE RedisRestarts
  BY <1>31 DEF RedisRestarts, DataTypeOK, DataPhaseInv, LeaderInv, Writing
<1>32. ASSUME NEW t \in TenantID, Publish(t) PROVE LeaderInv'
  BY <1>32 DEF Publish, DataTypeOK, DataPhaseInv, LeaderInv, Writing
<1>33. ASSUME NEW t \in TenantID, EditTenant(t) PROVE LeaderInv'
  BY <1>33 DEF EditTenant, DataTypeOK, DataPhaseInv, LeaderInv, Writing
<1>34. CASE UNCHANGED dataVars
  BY <1>34 DEF dataVars, DataTypeOK, DataPhaseInv, LeaderInv, Writing
<1> QED BY <1>1, <1>2, <1>3, <1>4, <1>5, <1>6, <1>7, <1>8, <1>9, <1>10, <1>11, <1>12, <1>13,
            <1>14, <1>15, <1>16, <1>17, <1>18, <1>19, <1>20, <1>21, <1>22, <1>23, <1>24, <1>25,
            <1>26, <1>27, <1>28, <1>29, <1>30, <1>31, <1>32, <1>33, <1>34 DEF DataNext, Step

\* Every step keeps WholeInv.
LEMMA WholeStep ==
    ASSUME DataTypeOK, DataPhaseInv, WholeInv, [DataNext]_dataVars
    PROVE  WholeInv'
<1>1. CASE StartBootstrap
  BY <1>1 DEF StartBootstrap, DataTypeOK, DataPhaseInv, WholeInv, Writing, Whole
<1>2. ASSUME NEW S \in SUBSET TenantID, StartApply(S) PROVE WholeInv'
  BY <1>2 DEF StartApply, DataTypeOK, DataPhaseInv, WholeInv, Writing, Whole
<1>3. CASE Rows
  BY <1>3 DEF Rows, DataTypeOK, DataPhaseInv, WholeInv, Writing, Whole
<1>4. CASE NotHealthy
  BY <1>4 DEF NotHealthy, Leave, Error, DataTypeOK, DataPhaseInv, WholeInv, Writing, Whole
<1>5. CASE ProvisionAppDatabase
  BY <1>5 DEF ProvisionAppDatabase, DataTypeOK, DataPhaseInv, WholeInv, Writing, Whole
<1>6. CASE Record
  BY <1>6 DEF Record, Leave, Return, DataTypeOK, DataPhaseInv, WholeInv, Writing, Whole
<1>7. CASE Switchover
  BY <1>7 DEF Switchover, DataTypeOK, DataPhaseInv, WholeInv, Writing, Whole
<1>8. CASE NoSwitchover
  BY <1>8 DEF NoSwitchover, Leave, Error, DataTypeOK, DataPhaseInv, WholeInv, Writing, Whole
<1>9. CASE Settled
  BY <1>9 DEF Settled, Leave, Return, DataTypeOK, DataPhaseInv, WholeInv, Writing, Whole
<1>10. CASE EnsurePrimary
  BY <1>10 DEF EnsurePrimary, DataTypeOK, DataPhaseInv, WholeInv, Writing, Whole
<1>11. CASE GlobalRBACRoles
  BY <1>11 DEF GlobalRBACRoles, DataTypeOK, DataPhaseInv, WholeInv, Writing, Whole, DBConsumers
<1>12. CASE TenantDatabase
  <2>1. PICK t \in TenantID : RunSQL(t) /\ pending' = pending \ {t}
    BY <1>12 DEF TenantDatabase, DataTypeOK
  <2>2. db' = [db EXCEPT ![t] = After(db[t], tenantDatabaseSQL(t, 10))]
    BY <2>1 DEF RunSQL
  <2>3. want' = want /\ sel' = sel /\ phase' = "sql" /\ done' = None
    BY <1>12 DEF TenantDatabase, DataPhaseInv
  <2>4. Whole(t)'
    BY <2>2, <2>3, AfterWhole DEF DataTypeOK, Whole
  <2>5. \A u \in TenantID \ {t} : Whole(u) => Whole(u)'
    BY <2>2, <2>3 DEF DataTypeOK, Whole
  <2>6. \A u \in sel' \ pending' : want'[u].db => Whole(u)'
    BY <1>12, <2>1, <2>3, <2>4, <2>5 DEF TenantDatabase, WholeInv, Writing, DataTypeOK
  <2> QED BY <2>3, <2>6 DEF WholeInv
<1>13. CASE ReadOnly
  BY <1>13 DEF ReadOnly, Leave, Error, DataTypeOK, DataPhaseInv, WholeInv, Writing, Whole
<1>14. CASE SkipRedis
  BY <1>14 DEF SkipRedis, DataTypeOK, DataPhaseInv, WholeInv, Writing, Whole
<1>15. CASE ToRedis
  BY <1>15 DEF ToRedis, DataTypeOK, DataPhaseInv, WholeInv, Writing, Whole
<1>16. CASE WriteACL
  BY <1>16 DEF WriteACL, DataTypeOK, DataPhaseInv, WholeInv, Writing, Whole
<1>17. CASE LoadACL
  BY <1>17 DEF LoadACL, DataTypeOK, DataPhaseInv, WholeInv, Writing, Whole
<1>18. CASE LoadRefused \/ RedisDown
  BY <1>18 DEF LoadRefused, RedisDown, Leave, Error, DataTypeOK, DataPhaseInv, WholeInv, Writing, Whole
<1>19. CASE WriteBackupEnv
  BY <1>19 DEF WriteBackupEnv, Leave, Return, DataTypeOK, DataPhaseInv, WholeInv, Writing, Whole
<1>20. CASE RecordThenSwitch
  BY <1>20 DEF RecordThenSwitch, DataTypeOK, DataPhaseInv, WholeInv, Writing, Whole
<1>21. CASE TenantDatabaseCut
  BY <1>21 DEF TenantDatabaseCut, Leave, Error, DataTypeOK, DataPhaseInv, WholeInv, Writing, Whole
<1>22. CASE WriteACLTorn
  BY <1>22 DEF WriteACLTorn, Leave, Error, DataTypeOK, DataPhaseInv, WholeInv, Writing, Whole
<1>23. CASE WriteBackupEnvTorn
  BY <1>23 DEF WriteBackupEnvTorn, Leave, Error, DataTypeOK, DataPhaseInv, WholeInv, Writing, Whole
<1>24. CASE Backup
  BY <1>24 DEF Backup, DataTypeOK, DataPhaseInv, WholeInv, Writing, Whole
<1>25. CASE Cut
  BY <1>25 DEF Cut, Leave, Error, DataTypeOK, DataPhaseInv, WholeInv, Writing, Whole
<1>26. ASSUME NEW n \in Node, NodeDown(n) PROVE WholeInv'
  BY <1>26 DEF NodeDown, DataTypeOK, DataPhaseInv, WholeInv, Writing, Whole
<1>27. ASSUME NEW n \in Node, NodeUp(n) PROVE WholeInv'
  BY <1>27 DEF NodeUp, DataTypeOK, DataPhaseInv, WholeInv, Writing, Whole
<1>28. CASE Elect
  BY <1>28 DEF Elect, DataTypeOK, DataPhaseInv, WholeInv, Writing, Whole
<1>29. CASE Failover
  BY <1>29 DEF Failover, DataTypeOK, DataPhaseInv, WholeInv, Writing, Whole
<1>30. CASE DeployCache
  BY <1>30 DEF DeployCache, DataTypeOK, DataPhaseInv, WholeInv, Writing, Whole
<1>31. CASE RedisRestarts
  BY <1>31 DEF RedisRestarts, DataTypeOK, DataPhaseInv, WholeInv, Writing, Whole
<1>32. ASSUME NEW t \in TenantID, Publish(t) PROVE WholeInv'
  BY <1>32 DEF Publish, DataTypeOK, DataPhaseInv, WholeInv, Writing, Whole
<1>33. ASSUME NEW t \in TenantID, EditTenant(t) PROVE WholeInv'
  BY <1>33 DEF EditTenant, DataTypeOK, DataPhaseInv, WholeInv, Writing, Whole
<1>34. CASE UNCHANGED dataVars
  BY <1>34 DEF dataVars, DataTypeOK, DataPhaseInv, WholeInv, Writing, Whole
<1> QED BY <1>1, <1>2, <1>3, <1>4, <1>5, <1>6, <1>7, <1>8, <1>9, <1>10, <1>11, <1>12, <1>13,
            <1>14, <1>15, <1>16, <1>17, <1>18, <1>19, <1>20, <1>21, <1>22, <1>23, <1>24, <1>25,
            <1>26, <1>27, <1>28, <1>29, <1>30, <1>31, <1>32, <1>33, <1>34 DEF DataNext, Step

\* Every step keeps CacheInv.
LEMMA CacheStep ==
    ASSUME DataTypeOK, DataPhaseInv, CacheInv, AdminInv, [DataNext]_dataVars
    PROVE  CacheInv'
<1> USE DEF Loaded, AdminServed
<1>1. CASE StartBootstrap
  BY <1>1 DEF StartBootstrap, DataTypeOK, DataPhaseInv, CacheInv, Lines, CacheConsumers
<1>2. ASSUME NEW S \in SUBSET TenantID, StartApply(S) PROVE CacheInv'
  BY <1>2 DEF StartApply, DataTypeOK, DataPhaseInv, CacheInv, Lines, CacheConsumers
<1>3. CASE Rows
  BY <1>3 DEF Rows, DataTypeOK, DataPhaseInv, CacheInv, Lines, CacheConsumers
<1>4. CASE NotHealthy
  BY <1>4 DEF NotHealthy, Leave, Error, DataTypeOK, DataPhaseInv, CacheInv, Lines, CacheConsumers
<1>5. CASE ProvisionAppDatabase
  BY <1>5 DEF ProvisionAppDatabase, DataTypeOK, DataPhaseInv, CacheInv, Lines, CacheConsumers
<1>6. CASE Record
  BY <1>6 DEF Record, Leave, Return, DataTypeOK, DataPhaseInv, CacheInv, Lines, CacheConsumers
<1>7. CASE Switchover
  BY <1>7 DEF Switchover, DataTypeOK, DataPhaseInv, CacheInv, Lines, CacheConsumers
<1>8. CASE NoSwitchover
  BY <1>8 DEF NoSwitchover, Leave, Error, DataTypeOK, DataPhaseInv, CacheInv, Lines, CacheConsumers
<1>9. CASE Settled
  BY <1>9 DEF Settled, Leave, Return, DataTypeOK, DataPhaseInv, CacheInv, Lines, CacheConsumers
<1>10. CASE EnsurePrimary
  BY <1>10 DEF EnsurePrimary, DataTypeOK, DataPhaseInv, CacheInv, Lines, CacheConsumers
<1>11. CASE GlobalRBACRoles
  BY <1>11 DEF GlobalRBACRoles, DataTypeOK, DataPhaseInv, CacheInv, Lines, CacheConsumers
<1>12. CASE TenantDatabase
  BY <1>12 DEF TenantDatabase, DataTypeOK, DataPhaseInv, CacheInv, Lines, CacheConsumers
<1>13. CASE ReadOnly
  BY <1>13 DEF ReadOnly, Leave, Error, DataTypeOK, DataPhaseInv, CacheInv, Lines, CacheConsumers
<1>14. CASE SkipRedis
  BY <1>14 DEF SkipRedis, DataTypeOK, DataPhaseInv, CacheInv, Lines, CacheConsumers
<1>15. CASE ToRedis
  BY <1>15 DEF ToRedis, DataTypeOK, DataPhaseInv, CacheInv, Lines, CacheConsumers
<1>16. CASE WriteACL
  BY <1>16 DEF WriteACL, DataTypeOK, DataPhaseInv, CacheInv, Lines, CacheConsumers
<1>17. CASE LoadACL
  BY <1>17 DEF LoadACL, DataTypeOK, DataPhaseInv, CacheInv, Lines, CacheConsumers
<1>18. CASE LoadRefused \/ RedisDown
  BY <1>18, LinesSet DEF AdminInv, LoadRefused, RedisDown, Leave, Error, DataTypeOK,
                          DataPhaseInv, CacheInv, Lines, CacheConsumers
<1>19. CASE WriteBackupEnv
  BY <1>19 DEF WriteBackupEnv, Leave, Return, DataTypeOK, DataPhaseInv, CacheInv, Lines,
      CacheConsumers
<1>20. CASE RecordThenSwitch
  BY <1>20 DEF RecordThenSwitch, DataTypeOK, DataPhaseInv, CacheInv, Lines, CacheConsumers
<1>21. CASE TenantDatabaseCut
  BY <1>21 DEF TenantDatabaseCut, Leave, Error, DataTypeOK, DataPhaseInv, CacheInv, Lines,
      CacheConsumers
<1>22. CASE WriteACLTorn
  BY <1>22 DEF WriteACLTorn, Leave, Error, DataTypeOK, DataPhaseInv, CacheInv, Lines, CacheConsumers
<1>23. CASE WriteBackupEnvTorn
  BY <1>23 DEF WriteBackupEnvTorn, Leave, Error, DataTypeOK, DataPhaseInv, CacheInv, Lines,
      CacheConsumers
<1>24. CASE Backup
  BY <1>24 DEF Backup, DataTypeOK, DataPhaseInv, CacheInv, Lines, CacheConsumers
<1>25. CASE Cut
  BY <1>25 DEF Cut, Leave, Error, DataTypeOK, DataPhaseInv, CacheInv, Lines, CacheConsumers
<1>26. ASSUME NEW n \in Node, NodeDown(n) PROVE CacheInv'
  BY <1>26 DEF NodeDown, DataTypeOK, DataPhaseInv, CacheInv, Lines, CacheConsumers
<1>27. ASSUME NEW n \in Node, NodeUp(n) PROVE CacheInv'
  BY <1>27 DEF NodeUp, DataTypeOK, DataPhaseInv, CacheInv, Lines, CacheConsumers
<1>28. CASE Elect
  BY <1>28 DEF Elect, DataTypeOK, DataPhaseInv, CacheInv, Lines, CacheConsumers
<1>29. CASE Failover
  BY <1>29 DEF Failover, DataTypeOK, DataPhaseInv, CacheInv, Lines, CacheConsumers
<1>30. CASE DeployCache
  BY <1>30 DEF DeployCache, DataTypeOK, DataPhaseInv, CacheInv, Lines, CacheConsumers
<1>31. CASE RedisRestarts
  BY <1>31 DEF RedisRestarts, DataTypeOK, DataPhaseInv, CacheInv, Lines, CacheConsumers
<1>32. ASSUME NEW t \in TenantID, Publish(t) PROVE CacheInv'
  BY <1>32 DEF Publish, DataTypeOK, DataPhaseInv, CacheInv, Lines, CacheConsumers
<1>33. ASSUME NEW t \in TenantID, EditTenant(t) PROVE CacheInv'
  BY <1>33 DEF EditTenant, DataTypeOK, DataPhaseInv, CacheInv, Lines, CacheConsumers
<1>34. CASE UNCHANGED dataVars
  BY <1>34 DEF dataVars, DataTypeOK, DataPhaseInv, CacheInv, Lines, CacheConsumers
<1> QED BY <1>1, <1>2, <1>3, <1>4, <1>5, <1>6, <1>7, <1>8, <1>9, <1>10, <1>11, <1>12, <1>13,
            <1>14, <1>15, <1>16, <1>17, <1>18, <1>19, <1>20, <1>21, <1>22, <1>23, <1>24, <1>25,
            <1>26, <1>27, <1>28, <1>29, <1>30, <1>31, <1>32, <1>33, <1>34 DEF DataNext, Step

\* Every step keeps AdminInv.
LEMMA AdminStep ==
    ASSUME DataTypeOK, CacheInv, AdminInv, [DataNext]_dataVars
    PROVE  AdminInv'
<1>1. CASE StartBootstrap
  BY <1>1, LinesSet DEF StartBootstrap, DataTypeOK, CacheInv, AdminInv
<1>2. ASSUME NEW S \in SUBSET TenantID, StartApply(S) PROVE AdminInv'
  BY <1>2, LinesSet DEF StartApply, DataTypeOK, CacheInv, AdminInv
<1>3. CASE Rows
  BY <1>3, LinesSet DEF Rows, DataTypeOK, CacheInv, AdminInv
<1>4. CASE NotHealthy
  BY <1>4, LinesSet DEF NotHealthy, Leave, Error, DataTypeOK, CacheInv, AdminInv
<1>5. CASE ProvisionAppDatabase
  BY <1>5, LinesSet DEF ProvisionAppDatabase, DataTypeOK, CacheInv, AdminInv
<1>6. CASE Record
  BY <1>6, LinesSet DEF Record, Leave, Return, DataTypeOK, CacheInv, AdminInv
<1>7. CASE Switchover
  BY <1>7, LinesSet DEF Switchover, DataTypeOK, CacheInv, AdminInv
<1>8. CASE NoSwitchover
  BY <1>8, LinesSet DEF NoSwitchover, Leave, Error, DataTypeOK, CacheInv, AdminInv
<1>9. CASE Settled
  BY <1>9, LinesSet DEF Settled, Leave, Return, DataTypeOK, CacheInv, AdminInv
<1>10. CASE EnsurePrimary
  BY <1>10, LinesSet DEF EnsurePrimary, DataTypeOK, CacheInv, AdminInv
<1>11. CASE GlobalRBACRoles
  BY <1>11, LinesSet DEF GlobalRBACRoles, DataTypeOK, CacheInv, AdminInv
<1>12. CASE TenantDatabase
  BY <1>12, LinesSet DEF TenantDatabase, DataTypeOK, CacheInv, AdminInv
<1>13. CASE ReadOnly
  BY <1>13, LinesSet DEF ReadOnly, Leave, Error, DataTypeOK, CacheInv, AdminInv
<1>14. CASE SkipRedis
  BY <1>14, LinesSet DEF SkipRedis, DataTypeOK, CacheInv, AdminInv
<1>15. CASE ToRedis
  BY <1>15, LinesSet DEF ToRedis, DataTypeOK, CacheInv, AdminInv
<1>16. CASE WriteACL
  BY <1>16, LinesSet DEF WriteACL, DataTypeOK, CacheInv, AdminInv
<1>17. CASE LoadACL
  BY <1>17, LinesSet DEF LoadACL, DataTypeOK, CacheInv, AdminInv
<1>18. CASE LoadRefused \/ RedisDown
  BY <1>18, LinesSet DEF LoadRefused, RedisDown, Leave, Error, DataTypeOK, CacheInv, AdminInv
<1>19. CASE WriteBackupEnv
  BY <1>19, LinesSet DEF WriteBackupEnv, Leave, Return, DataTypeOK, CacheInv, AdminInv
<1>20. CASE RecordThenSwitch
  BY <1>20, LinesSet DEF RecordThenSwitch, DataTypeOK, CacheInv, AdminInv
<1>21. CASE TenantDatabaseCut
  BY <1>21, LinesSet DEF TenantDatabaseCut, Leave, Error, DataTypeOK, CacheInv, AdminInv
<1>22. CASE WriteACLTorn
  BY <1>22, LinesSet DEF WriteACLTorn, Leave, Error, DataTypeOK, CacheInv, AdminInv
<1>23. CASE WriteBackupEnvTorn
  BY <1>23, LinesSet DEF WriteBackupEnvTorn, Leave, Error, DataTypeOK, CacheInv, AdminInv
<1>24. CASE Backup
  BY <1>24, LinesSet DEF Backup, DataTypeOK, CacheInv, AdminInv
<1>25. CASE Cut
  BY <1>25, LinesSet DEF Cut, Leave, Error, DataTypeOK, CacheInv, AdminInv
<1>26. ASSUME NEW n \in Node, NodeDown(n) PROVE AdminInv'
  BY <1>26, LinesSet DEF NodeDown, DataTypeOK, CacheInv, AdminInv
<1>27. ASSUME NEW n \in Node, NodeUp(n) PROVE AdminInv'
  BY <1>27, LinesSet DEF NodeUp, DataTypeOK, CacheInv, AdminInv
<1>28. CASE Elect
  BY <1>28, LinesSet DEF Elect, DataTypeOK, CacheInv, AdminInv
<1>29. CASE Failover
  BY <1>29, LinesSet DEF Failover, DataTypeOK, CacheInv, AdminInv
<1>30. CASE DeployCache
  BY <1>30, LinesSet, SeedSet DEF DeployCache, DataTypeOK, CacheInv, AdminInv
<1>31. CASE RedisRestarts
  BY <1>31, LinesSet DEF RedisRestarts, DataTypeOK, CacheInv, AdminInv
<1>32. ASSUME NEW t \in TenantID, Publish(t) PROVE AdminInv'
  BY <1>32, LinesSet DEF Publish, DataTypeOK, CacheInv, AdminInv
<1>33. ASSUME NEW t \in TenantID, EditTenant(t) PROVE AdminInv'
  BY <1>33, LinesSet DEF EditTenant, DataTypeOK, CacheInv, AdminInv
<1>34. CASE UNCHANGED dataVars
  BY <1>34, LinesSet DEF dataVars, DataTypeOK, CacheInv, AdminInv
<1> QED BY <1>1, <1>2, <1>3, <1>4, <1>5, <1>6, <1>7, <1>8, <1>9, <1>10, <1>11, <1>12, <1>13,
            <1>14, <1>15, <1>16, <1>17, <1>18, <1>19, <1>20, <1>21, <1>22, <1>23, <1>24, <1>25,
            <1>26, <1>27, <1>28, <1>29, <1>30, <1>31, <1>32, <1>33, <1>34 DEF DataNext, Step

\* Every step keeps OpenInv.
LEMMA OpenStep ==
    ASSUME DataTypeOK, OpenInv, [DataNext]_dataVars
    PROVE  OpenInv'
<1>1. CASE StartBootstrap
  BY <1>1 DEF StartBootstrap, DataTypeOK, OpenInv
<1>2. ASSUME NEW S \in SUBSET TenantID, StartApply(S) PROVE OpenInv'
  BY <1>2 DEF StartApply, DataTypeOK, OpenInv
<1>3. CASE Rows
  BY <1>3 DEF Rows, DataTypeOK, OpenInv
<1>4. CASE NotHealthy
  BY <1>4 DEF NotHealthy, Leave, Error, DataTypeOK, OpenInv
<1>5. CASE ProvisionAppDatabase
  BY <1>5 DEF ProvisionAppDatabase, DataTypeOK, OpenInv
<1>6. CASE Record
  BY <1>6 DEF Record, Leave, Return, DataTypeOK, OpenInv
<1>7. CASE Switchover
  BY <1>7 DEF Switchover, DataTypeOK, OpenInv
<1>8. CASE NoSwitchover
  BY <1>8 DEF NoSwitchover, Leave, Error, DataTypeOK, OpenInv
<1>9. CASE Settled
  BY <1>9 DEF Settled, Leave, Return, DataTypeOK, OpenInv
<1>10. CASE EnsurePrimary
  BY <1>10 DEF EnsurePrimary, DataTypeOK, OpenInv
<1>11. CASE GlobalRBACRoles
  BY <1>11 DEF GlobalRBACRoles, DataTypeOK, OpenInv
<1>12. CASE TenantDatabase
  <2>1. PICK t \in TenantID : RunSQL(t)
    BY <1>12 DEF TenantDatabase, DataTypeOK
  <2>2. db' = [db EXCEPT ![t] = After(db[t], tenantDatabaseSQL(t, 10))] /\ cut' = cut \ {t}
    BY <2>1 DEF RunSQL
  <2>3. "open" \notin After(db[t], tenantDatabaseSQL(t, 10))
    BY AfterWhole
  <2> QED BY <2>2, <2>3 DEF OpenInv, DataTypeOK
<1>13. CASE ReadOnly
  BY <1>13 DEF ReadOnly, Leave, Error, DataTypeOK, OpenInv
<1>14. CASE SkipRedis
  BY <1>14 DEF SkipRedis, DataTypeOK, OpenInv
<1>15. CASE ToRedis
  BY <1>15 DEF ToRedis, DataTypeOK, OpenInv
<1>16. CASE WriteACL
  BY <1>16 DEF WriteACL, DataTypeOK, OpenInv
<1>17. CASE LoadACL
  BY <1>17 DEF LoadACL, DataTypeOK, OpenInv
<1>18. CASE LoadRefused \/ RedisDown
  BY <1>18 DEF LoadRefused, RedisDown, Leave, Error, DataTypeOK, OpenInv
<1>19. CASE WriteBackupEnv
  BY <1>19 DEF WriteBackupEnv, Leave, Return, DataTypeOK, OpenInv
<1>20. CASE RecordThenSwitch
  BY <1>20 DEF RecordThenSwitch, DataTypeOK, OpenInv
<1>21. CASE TenantDatabaseCut
  BY <1>21 DEF TenantDatabaseCut, Leave, Error, DataTypeOK, OpenInv
<1>22. CASE WriteACLTorn
  BY <1>22 DEF WriteACLTorn, Leave, Error, DataTypeOK, OpenInv
<1>23. CASE WriteBackupEnvTorn
  BY <1>23 DEF WriteBackupEnvTorn, Leave, Error, DataTypeOK, OpenInv
<1>24. CASE Backup
  BY <1>24 DEF Backup, DataTypeOK, OpenInv
<1>25. CASE Cut
  BY <1>25 DEF Cut, Leave, Error, DataTypeOK, OpenInv
<1>26. ASSUME NEW n \in Node, NodeDown(n) PROVE OpenInv'
  BY <1>26 DEF NodeDown, DataTypeOK, OpenInv
<1>27. ASSUME NEW n \in Node, NodeUp(n) PROVE OpenInv'
  BY <1>27 DEF NodeUp, DataTypeOK, OpenInv
<1>28. CASE Elect
  BY <1>28 DEF Elect, DataTypeOK, OpenInv
<1>29. CASE Failover
  BY <1>29 DEF Failover, DataTypeOK, OpenInv
<1>30. CASE DeployCache
  BY <1>30 DEF DeployCache, DataTypeOK, OpenInv
<1>31. CASE RedisRestarts
  BY <1>31 DEF RedisRestarts, DataTypeOK, OpenInv
<1>32. ASSUME NEW t \in TenantID, Publish(t) PROVE OpenInv'
  BY <1>32 DEF Publish, DataTypeOK, OpenInv
<1>33. ASSUME NEW t \in TenantID, EditTenant(t) PROVE OpenInv'
  BY <1>33 DEF EditTenant, DataTypeOK, OpenInv
<1>34. CASE UNCHANGED dataVars
  BY <1>34 DEF dataVars, DataTypeOK, OpenInv
<1> QED BY <1>1, <1>2, <1>3, <1>4, <1>5, <1>6, <1>7, <1>8, <1>9, <1>10, <1>11, <1>12, <1>13,
            <1>14, <1>15, <1>16, <1>17, <1>18, <1>19, <1>20, <1>21, <1>22, <1>23, <1>24, <1>25,
            <1>26, <1>27, <1>28, <1>29, <1>30, <1>31, <1>32, <1>33, <1>34 DEF DataNext, Step

\* Every step keeps ReadyInv.
LEMMA ReadyStep ==
    ASSUME DataTypeOK, DataPhaseInv, WholeInv, ReadyInv, [DataNext]_dataVars
    PROVE  ReadyInv'
<1>1. CASE StartBootstrap
  BY <1>1 DEF StartBootstrap, DataTypeOK, DataPhaseInv, ReadyInv, DBConsumers
<1>2. ASSUME NEW S \in SUBSET TenantID, StartApply(S) PROVE ReadyInv'
  BY <1>2 DEF StartApply, DataTypeOK, DataPhaseInv, ReadyInv, DBConsumers
<1>3. CASE Rows
  BY <1>3 DEF Rows, DataTypeOK, DataPhaseInv, ReadyInv, DBConsumers
<1>4. CASE NotHealthy
  BY <1>4 DEF NotHealthy, Leave, Error, DataTypeOK, DataPhaseInv, ReadyInv, DBConsumers
<1>5. CASE ProvisionAppDatabase
  BY <1>5 DEF ProvisionAppDatabase, DataTypeOK, DataPhaseInv, ReadyInv, DBConsumers
<1>6. CASE Record
  BY <1>6 DEF Record, Leave, Return, DataTypeOK, DataPhaseInv, ReadyInv, DBConsumers
<1>7. CASE Switchover
  BY <1>7 DEF Switchover, DataTypeOK, DataPhaseInv, ReadyInv, DBConsumers
<1>8. CASE NoSwitchover
  BY <1>8 DEF NoSwitchover, Leave, Error, DataTypeOK, DataPhaseInv, ReadyInv, DBConsumers
<1>9. CASE Settled
  BY <1>9 DEF Settled, Leave, Return, DataTypeOK, DataPhaseInv, ReadyInv, DBConsumers
<1>10. CASE EnsurePrimary
  BY <1>10 DEF EnsurePrimary, DataTypeOK, DataPhaseInv, ReadyInv, DBConsumers
<1>11. CASE GlobalRBACRoles
  BY <1>11 DEF GlobalRBACRoles, DataTypeOK, DataPhaseInv, ReadyInv, DBConsumers
<1>12. CASE TenantDatabase
  <2>1. PICK t \in TenantID : RunSQL(t)
    BY <1>12 DEF TenantDatabase, DataTypeOK
  <2>2. db' = [db EXCEPT ![t] = After(db[t], tenantDatabaseSQL(t, 10))]
    BY <2>1 DEF RunSQL
  <2>3. "database" \in After(db[t], tenantDatabaseSQL(t, 10))
    BY AfterWhole
  <2> QED BY <1>12, <2>2, <2>3 DEF TenantDatabase, ReadyInv, DataTypeOK
<1>13. CASE ReadOnly
  BY <1>13 DEF ReadOnly, Leave, Error, DataTypeOK, DataPhaseInv, ReadyInv, DBConsumers
<1>14. CASE SkipRedis
  BY <1>14 DEF SkipRedis, DataTypeOK, DataPhaseInv, ReadyInv, DBConsumers
<1>15. CASE ToRedis
  BY <1>15 DEF ToRedis, DataTypeOK, DataPhaseInv, ReadyInv, DBConsumers
<1>16. CASE WriteACL
  BY <1>16 DEF WriteACL, DataTypeOK, DataPhaseInv, ReadyInv, DBConsumers
<1>17. CASE LoadACL
  BY <1>17 DEF LoadACL, DataTypeOK, DataPhaseInv, ReadyInv, DBConsumers
<1>18. CASE LoadRefused \/ RedisDown
  BY <1>18 DEF LoadRefused, RedisDown, Leave, Error, DataTypeOK, DataPhaseInv, ReadyInv, DBConsumers
<1>19. CASE WriteBackupEnv
  <2>1. env'.dbs = DBConsumers
    BY <1>19 DEF WriteBackupEnv, DBs
  <2>2. ready' = ready \cup (sel \cap DBConsumers) /\ want' = want /\ db' = db
    BY <1>19 DEF WriteBackupEnv
  <2>3. \A t \in sel : want[t].db => Whole(t)
    BY <1>19 DEF WriteBackupEnv, DataPhaseInv, WholeInv, Writing
  <2>4. \A t \in ready' : want'[t].db /\ "database" \in db'[t]
    BY <2>2, <2>3 DEF ReadyInv, DBConsumers, Whole
  <2>5. ready' \subseteq env'.dbs
    BY <2>1, <2>2, <2>4 DEF DBConsumers, DataTypeOK
  <2>6. done'.cmd = "apply"
    BY <1>19 DEF WriteBackupEnv, Return
  <2> QED BY <2>4, <2>5, <2>6 DEF ReadyInv
<1>20. CASE RecordThenSwitch
  BY <1>20 DEF RecordThenSwitch, DataTypeOK, DataPhaseInv, ReadyInv, DBConsumers
<1>21. CASE TenantDatabaseCut
  <2>1. PICK t \in TenantID, n \in 0..9 :
           db' = [db EXCEPT ![t] = After(@, tenantDatabaseSQL(t, n))]
    BY <1>21 DEF TenantDatabaseCut, DataTypeOK
  <2>2. "database" \in db[t] => "database" \in After(db[t], tenantDatabaseSQL(t, n))
    BY AfterType DEF DataTypeOK
  <2>3. \A u \in ready : "database" \in db'[u]
    BY <2>1, <2>2 DEF ReadyInv, DataTypeOK
  <2> QED BY <1>21, <2>3 DEF TenantDatabaseCut, Leave, Error, DataPhaseInv, ReadyInv, DataTypeOK
<1>22. CASE WriteACLTorn
  BY <1>22 DEF WriteACLTorn, Leave, Error, DataTypeOK, DataPhaseInv, ReadyInv, DBConsumers
<1>23. CASE WriteBackupEnvTorn
  BY <1>23 DEF WriteBackupEnvTorn, Leave, Error, DataTypeOK, DataPhaseInv, ReadyInv, DBConsumers
<1>24. CASE Backup
  BY <1>24 DEF Backup, Dumped, DataTypeOK, DataPhaseInv, ReadyInv, DBConsumers
<1>25. CASE Cut
  BY <1>25 DEF Cut, Leave, Error, DataTypeOK, DataPhaseInv, ReadyInv, DBConsumers
<1>26. ASSUME NEW n \in Node, NodeDown(n) PROVE ReadyInv'
  BY <1>26 DEF NodeDown, DataTypeOK, DataPhaseInv, ReadyInv, DBConsumers
<1>27. ASSUME NEW n \in Node, NodeUp(n) PROVE ReadyInv'
  BY <1>27 DEF NodeUp, DataTypeOK, DataPhaseInv, ReadyInv, DBConsumers
<1>28. CASE Elect
  BY <1>28 DEF Elect, DataTypeOK, DataPhaseInv, ReadyInv, DBConsumers
<1>29. CASE Failover
  BY <1>29 DEF Failover, DataTypeOK, DataPhaseInv, ReadyInv, DBConsumers
<1>30. CASE DeployCache
  BY <1>30 DEF DeployCache, DataTypeOK, DataPhaseInv, ReadyInv, DBConsumers
<1>31. CASE RedisRestarts
  BY <1>31 DEF RedisRestarts, DataTypeOK, DataPhaseInv, ReadyInv, DBConsumers
<1>32. ASSUME NEW t \in TenantID, Publish(t) PROVE ReadyInv'
  BY <1>32 DEF Publish, DataTypeOK, DataPhaseInv, ReadyInv, DBConsumers
<1>33. ASSUME NEW t \in TenantID, EditTenant(t) PROVE ReadyInv'
  BY <1>33 DEF EditTenant, DataTypeOK, DataPhaseInv, ReadyInv, DBConsumers
<1>34. CASE UNCHANGED dataVars
  BY <1>34 DEF dataVars, DataTypeOK, DataPhaseInv, ReadyInv, DBConsumers
<1> QED BY <1>1, <1>2, <1>3, <1>4, <1>5, <1>6, <1>7, <1>8, <1>9, <1>10, <1>11, <1>12, <1>13,
            <1>14, <1>15, <1>16, <1>17, <1>18, <1>19, <1>20, <1>21, <1>22, <1>23, <1>24, <1>25,
            <1>26, <1>27, <1>28, <1>29, <1>30, <1>31, <1>32, <1>33, <1>34 DEF DataNext, Step

----------------------------------------------------------------------------
(***************************************************************************)
(* The theorems.                                                           *)
(***************************************************************************)

\* A new cluster satisfies the invariant.
LEMMA InitInv == ASSUME DataInit PROVE DataIInv
<1>1. Nodes[1] \in Node
  BY NodesAssumption DEF Node
<1>2. DataTypeOK
  <2>1. want \in [TenantID -> [db : BOOLEAN, cache : BOOLEAN, public : BOOLEAN]]
    <3>1. [db |-> TRUE, cache |-> TRUE, public |-> FALSE] \in
             [db : BOOLEAN, cache : BOOLEAN, public : BOOLEAN]
      OBVIOUS
    <3> QED BY <3>1, Zenon DEF DataInit
  <2>2. leader \in up \cup {None} /\ up \subseteq Node
    BY <1>1 DEF DataInit
  <2>3. events \in 0..MaxEvents
    BY EventsAssumption DEF DataInit
  <2>4. aclFile \in (SUBSET User) \cup {None} /\ acl \in (SUBSET User) \cup {None}
    BY SeedSet DEF DataInit
  <2>5. db \in [TenantID -> SUBSET Fact]
    BY DEF DataInit
  <2> QED BY <2>1, <2>2, <2>3, <2>4, <2>5 DEF DataInit, DataTypeOK
<1> QED BY <1>2, SeedSet DEF DataInit, DataIInv, DataPhaseInv, LeaderInv, WholeInv, CacheInv,
            AdminInv, OpenInv,
                              ReadyInv, Writing

\* Every step keeps the invariant.
LEMMA InvStep == ASSUME DataIInv, [DataNext]_dataVars PROVE DataIInv'
BY DataTypeStep, DataPhaseStep, LeaderStep, WholeStep, CacheStep, AdminStep, OpenStep,
    ReadyStep DEF DataIInv

\* The inductive invariant holds, whatever the commands, the cluster and Redis do.
THEOREM DataInductive == DataSpec => []DataIInv
BY InitInv, InvStep, PTL DEF DataSpec

\* All variables keep their types.
THEOREM DataTypeCorrect == DataSpec => []DataTypeOK
<1>1. DataIInv => DataTypeOK
  BY DEF DataIInv
<1> QED BY <1>1, DataInductive, PTL

\* A tenant apply that reported success left the databases whole, the consumers in Redis (in
\* its file only, where Redis had lost its admin), and a backup environment that names the
\* leader (provisionDatabases, provisionRedis, provisionBackup).
THEOREM ReadyAfterOk == DataSpec => []OkMeansReady
<1>1. DataIInv => OkMeansReady
  BY DEF DataIInv, OkMeansReady, WholeInv, CacheInv, Loaded, LeaderInv, Lines
<1> QED BY <1>1, DataInductive, PTL

\* An open database, a Redis without its admin and a hole in a backup have a cause.
THEOREM GapsExplained == DataSpec => []GapsHaveACause
<1>1. DataIInv => GapsHaveACause
  BY DEF DataIInv, GapsHaveACause, OpenInv, AdminInv, ReadyInv, AdminServed
<1> QED BY <1>1, DataInductive, PTL

=============================================================================
