-------------------------- MODULE TenantWebProofs --------------------------
(***************************************************************************)
(* Proofs about TenantWeb, for any number of tenants, whatever their names *)
(* have in common, and any number of edits and failures.                   *)
(***************************************************************************)
EXTENDS TenantWeb, FiniteSetTheorems, SequenceTheorems, TLAPS

USE DEF edge, job, hist

----------------------------------------------------------------------------
(***************************************************************************)
(* The inductive invariant.                                                *)
(***************************************************************************)

\* The loop over the tenants, and what comes after it.
Visiting == {"gate", "stale", "write"}
After    == {"reload", "restart", "caddy", "rest"}

\* The loop goes up through the tenants, and a unit to restart is one that was written.
PhaseInv ==
    /\ pc # "idle" => result # "ok" /\ selected \subseteq Declared
    /\ pc \in Visiting => \A t \in selected \ todo, u \in todo : t < u
    /\ (pc \in After \/ result = "ok") => todo = {}
    /\ (pc # "idle" /\ restarts # {}) => "units" \in changed
    /\ pc \in {"caddy", "rest"} => restarts = {}

\* What is not restarted or reloaded is known.
BehindInv ==
    /\ \A t \in Tenant \ owed.gates : (pc = "idle" \/ t \notin restarts) => gate[t] = unit[t]
    /\ (~owed.caddy /\ (pc \in {"idle", "rest"} \/ "fragments" \notin changed)) => caddy = fragment

\* A vhost is in the file named after its tenant and its hostname.
FileInv ==
    \A p \in Path : /\ fragment[p] # NoFile => p = webFragmentPath(fragment[p].of)
                    /\ caddy[p] # NoFile => p = webFragmentPath(caddy[p].of)

\* The unit of a tenant whose gate was seen to is as the workspace says; one that is
\* not wanted is gone, unless an error was dropped.
UnitDone(t) == /\ WebSSO(t) => unit[t] = webSSOPort(t)
               /\ (~WebSSO(t) /\ ~missed) => unit[t] = 0

\* The same for its vhost.
VhostDone(t) ==
    /\ (HasEndpoint(t) /\ ~Globbed(t, selected)) => fragment[webFragmentPath(t)] = webFragment(t)
    /\ ~missed => \A p \in Path : fragment[p].of = t => fragment[p] = webFragment(t)

\* How far a run has got.
VisitedInv ==
    /\ (pc \in Visiting \cup After \/ result = "ok") =>
          \A t \in selected \ todo : UnitDone(t) /\ VhostDone(t)
    /\ pc \in Visiting \cup After =>
          \A t \in selected \ todo : HasEndpoint(t) => "fragments" \in changed
    /\ pc \in {"stale", "write"} => \A t \in todo : Turn(t) => UnitDone(t)
    /\ (pc = "write" /\ ~missed) =>
          \A t \in todo : (Turn(t) /\ ~HasEndpoint(t)) => \A p \in Path : fragment[p].of # t
    /\ (pc = "rest" \/ result = "ok") =>
          \A t \in selected : (HasEndpoint(t) /\ ~Globbed(t, selected)) =>
                                  caddy[webFragmentPath(t)] = webFragment(t)

\* As long as the ports have not moved, all that names a port of a tenant names the one
\* it has.
OwnPort(t, port) == port # 0 => t \in Declared /\ port = webSSOPort(t)

AlignedInv ==
    ~moved => /\ \A t \in Tenant : OwnPort(t, unit[t]) /\ OwnPort(t, gate[t])
              /\ \A p \in Path : /\ OwnPort(fragment[p].of, fragment[p].gate)
                                 /\ OwnPort(caddy[p].of, caddy[p].gate)

IInv == TypeOK /\ PhaseInv /\ BehindInv /\ FileInv /\ VisitedInv /\ AlignedInv

----------------------------------------------------------------------------
(***************************************************************************)
(* Facts about the operators.                                              *)
(***************************************************************************)

\* The commands that tear a gate down and can have worked.
Outcomes == {{}, {"test"}, {"test", "stop"}, {"test", "rm"}, {"test", "stop", "rm"}}

LEMMA StrictPrefix ==
    ASSUME NEW P, NEW a \in Seq(P), NEW c \in Seq(P), c # <<>>
    PROVE  IsStrictPrefix(a, a \o c)
<1>1. Len(a) \in Nat /\ Len(c) \in Nat /\ Len(c) # 0
  BY EmptySeq, LenProperties
<1>2. /\ a \o c \in Seq(P) /\ Len(a \o c) = Len(a) + Len(c)
      /\ \A i \in 1..(Len(a) + Len(c)) : (a \o c)[i] = IF i <= Len(a) THEN a[i] ELSE c[i - Len(a)]
  BY ConcatProperties
<1>3. \A i \in 1..Len(a) : (a \o c)[i] = a[i] /\ a[i] \in P
  <2> SUFFICES ASSUME NEW i \in 1..Len(a) PROVE (a \o c)[i] = a[i] /\ a[i] \in P
    OBVIOUS
  <2>1. i \in 1..(Len(a) + Len(c)) /\ i <= Len(a)
    BY <1>1
  <2> QED BY <1>2, <2>1, LenProperties
<1>4. SubSeq(a, 1, Len(a)) = SubSeq(a \o c, 1, Len(a))
  <2> DEFINE l == SubSeq(a, 1, Len(a))
             r == SubSeq(a \o c, 1, Len(a))
  <2>1. 1 \in Int /\ Len(a) \in Int /\ Len(a) - 1 + 1 = Len(a)
    BY <1>1
  <2>2. l \in Seq(P) /\ r \in Seq(P)
    BY <1>3, <2>1, SubSeqProperties
  <2>3. Len(l) = Len(r) /\ Len(l) = Len(a)
    BY <1>1, <1>3, <2>1, SubSeqProperties
  <2>4. ASSUME NEW i \in 1..Len(a) PROVE l[i] = r[i]
    <3>1. i \in 1..(Len(a) - 1 + 1) /\ 1 + i - 1 = i
      BY <1>1
    <3>2. l[i] = a[i]
      BY <1>3, <2>1, <3>1, SubSeqProperties
    <3>3. r[i] = (a \o c)[i]
      BY <1>3, <2>1, <3>1, SubSeqProperties
    <3> QED BY <1>3, <3>2, <3>3
  <2> HIDE DEF l, r
  <2> QED BY <2>2, <2>3, <2>4, SeqEqual DEF l, r
<1>5. Len(a) <= Len(a \o c) /\ Len(a) # Len(a \o c)
  BY <1>1, <1>2
<1>6. a # a \o c
  BY <1>5
<1> QED BY <1>4, <1>5, <1>6 DEF IsStrictPrefix, IsPrefix

\* A tenant's pattern finds its own file.
LEMMA OwnPattern ==
    ASSUME NEW t \in Tenant
    PROVE  webFragmentPath(t) \in Path /\ IsStrictPrefix(Id[t], webFragmentPath(t))
<1>1. Id[t] \in Seq(STRING) /\ Slug[t] \in Seq(STRING) /\ Slug[t] # <<>>
  BY NamesAssumption
<1>2. IsStrictPrefix(Id[t], Id[t] \o Slug[t])
  BY <1>1, StrictPrefix
<1> QED BY <1>2 DEF webFragmentPath, Path

\* Ports are within the range set aside for them.
LEMMA PortRange ==
    ASSUME NEW t \in Tenant
    PROVE  webSSOPort(t) \in Port /\ webSSOPort(t) # 0
<1>1. t \in Nat /\ N \in Nat /\ 1 <= t /\ t <= N
  BY NAssumption DEF Tenant
<1> DEFINE below == {u \in Declared : u < t}
<1>2. below \subseteq 1..(t - 1) /\ (t - 1) \in Nat
  <2>1. ASSUME NEW u \in Declared, u < t PROVE u \in 1..(t - 1)
    <3>1. u \in 1..N
      BY DEF Declared, Tenant
    <3> QED BY <1>1, <2>1, <3>1
  <2>2. below \subseteq 1..(t - 1)
    BY <2>1
  <2> QED BY <1>1, <2>2
<1>3. IsFiniteSet(1..(t - 1)) /\ Cardinality(1..(t - 1)) = t - 1
  BY <1>1, <1>2, FS_Interval
<1>4. IsFiniteSet(below) /\ Cardinality(below) <= t - 1
  BY <1>2, <1>3, FS_Subset
<1>5. Cardinality(below) \in Nat
  BY <1>4, FS_CardinalityType
<1> HIDE DEF below
<1>6. webSSOPort(t) = webSSOBasePort + Cardinality(below)
  BY DEF webSSOPort, below
<1> QED BY <1>1, <1>4, <1>5, <1>6 DEF Port, webSSOBasePort

\* No two declared tenants have the same port: the later one has the other among those
\* before it.
LEMMA PortsDiffer ==
    ASSUME NEW t \in Declared, NEW u \in Declared, webSSOPort(t) = webSSOPort(u)
    PROVE  t = u
<1>1. ASSUME NEW x \in Declared, NEW y \in Declared, x < y
      PROVE  webSSOPort(x) # webSSOPort(y)
  <2> DEFINE below(z) == {v \in Declared : v < z}
  <2>1. x \in 1..N /\ y \in 1..N /\ N \in Nat /\ 1 \in Int /\ N \in Int
    BY NAssumption DEF Declared, Tenant
  <2>2. IsFiniteSet(1..N) /\ \A z : below(z) \in SUBSET (1..N)
    <3>1. IsFiniteSet(1..N)
      BY <2>1, FS_Interval
    <3> QED BY <3>1 DEF Declared, Tenant
  <2>3. IsFiniteSet(below(x)) /\ IsFiniteSet(below(y))
    BY <2>2, FS_Subset
  <2>4. below(x) \subseteq below(y) /\ x \in below(y) /\ x \notin below(x)
    <3>1. ASSUME NEW v \in Declared, v < x PROVE v < y
      <4>1. v \in 1..N
        BY DEF Declared, Tenant
      <4> QED BY <1>1, <2>1, <3>1, <4>1
    <3>2. below(x) \subseteq below(y)
      BY <3>1
    <3>3. x \in below(y)
      BY <1>1
    <3>4. x \notin below(x)
      <4>1. ~(x < x)
        BY <2>1
      <4> QED BY <4>1
    <3> QED BY <3>2, <3>3, <3>4
  <2>5. Cardinality(below(x)) \in Nat /\ Cardinality(below(y)) \in Nat
    BY <2>3, FS_CardinalityType
  <2>6. Cardinality(below(x)) # Cardinality(below(y))
    BY <2>3, <2>4, FS_Subset
  <2>7. /\ webSSOPort(x) = webSSOBasePort + Cardinality(below(x))
        /\ webSSOPort(y) = webSSOBasePort + Cardinality(below(y))
    BY DEF webSSOPort
  <2> HIDE DEF below
  <2> QED BY <2>5, <2>6, <2>7 DEF webSSOBasePort
<1>2. t \in Nat /\ u \in Nat
  BY NAssumption DEF Declared, Tenant
<1> QED BY <1>1, <1>2

\* A vhost is not the absence of one.
LEMMA Vhosts ==
    ASSUME NEW t \in Tenant
    PROVE  webFragment(t) \in Vhost /\ webFragment(t) # NoFile /\ webFragment(t).of = t
<1>1. t # 0
  BY NAssumption DEF Tenant
<1> QED BY <1>1, PortRange DEF webFragment, Vhost, NoFile

\* What a run computes from the workspace stays the same while that does.
LEMMA SameWorkspace ==
    ASSUME UNCHANGED mode
    PROVE  /\ Declared' = Declared
           /\ \A t \in Tenant : /\ webSSOPort(t)' = webSSOPort(t) /\ webFragment(t)' = webFragment(t)
                                /\ WebSSO(t)' = WebSSO(t) /\ HasEndpoint(t)' = HasEndpoint(t)
BY DEF Declared, webSSOPort, webFragment, WebSSO, HasEndpoint

LEMMA SamePorts ==
    ASSUME Declared' = Declared
    PROVE  \A t \in Tenant : webSSOPort(t)' = webSSOPort(t)
BY DEF webSSOPort

LEMMA WithoutFiles ==
    ASSUME NEW S \in SUBSET Path
    PROVE  \A p \in Path : Without(S)[p] = IF p \in S THEN NoFile ELSE fragment[p]
BY DEF Without

----------------------------------------------------------------------------
(***************************************************************************)
(* The parts of the invariant, one lemma each.                             *)
(***************************************************************************)

\* What a run that fails leaves undone.
LEMMA FailsOwe ==
    ASSUME TypeOK, NEW removed \in SUBSET Path, Fails(removed)
    PROVE  /\ owed' \in Debts
           /\ owed'.gates = owed.gates \cup restarts
           /\ owed'.caddy <=> (owed.caddy \/ removed # {} \/ (pc # "rest" /\ "fragments" \in changed))
<1> DEFINE late == owed.caddy \/ removed # {} \/ (pc # "rest" /\ "fragments" \in changed)
<1>1. owed' = [owed EXCEPT !.gates = owed.gates \cup restarts, !.caddy = late]
  BY DEF Fails
<1>2. owed \in Debts /\ restarts \subseteq Tenant
  BY DEF TypeOK
<1>3. late \in BOOLEAN
  OBVIOUS
<1> HIDE DEF late
<1>4. owed'.caddy = late /\ owed'.gates = owed.gates \cup restarts /\ owed' \in Debts
  BY <1>1, <1>2, <1>3 DEF Debts
<1> QED BY <1>4 DEF late

\* A tear-down that worked to the end pays what is owed to the gate; half of one is owed.
LEMMA TearDownOwes ==
    ASSUME TypeOK, NEW t \in Tenant, NEW done \in Outcomes, TearDown(t, done)
    PROVE  /\ owed' \in Debts /\ owed'.caddy = owed.caddy
           /\ owed'.gates = IF {"stop", "rm"} \subseteq done THEN owed.gates \ {t}
                            ELSE IF {"stop", "rm"} \cap done = {} THEN owed.gates
                            ELSE owed.gates \cup {t}
<1>1. owed \in Debts
  BY DEF TypeOK
<1> QED BY <1>1 DEF TearDown, Debts

LEMMA TypeStep == TypeOK /\ Next => TypeOK'
<1> SUFFICES ASSUME TypeOK, Next PROVE TypeOK'
  OBVIOUS
<1>1. ASSUME NEW t \in Tenant, NEW m \in Mode, Edit(t, m) PROVE TypeOK'
  <2>1. edits' \in 0..MaxEdits /\ mode' \in [Tenant -> Mode]
    BY <1>1, BoundsAssumption DEF Edit, TypeOK
  <2>2. moved' \in BOOLEAN
    BY <1>1 DEF Edit
  <2>3. missed' \in BOOLEAN
    BY <1>1 DEF Edit, TypeOK
  <2> QED BY <1>1, <2>1, <2>2, <2>3 DEF Edit, TypeOK
<1>2. ASSUME NEW ids \in SUBSET Declared, Begin(ids) PROVE TypeOK'
  <2>1. ids \subseteq Tenant
    BY DEF Declared
  <2>2. missed' \in BOOLEAN
    BY <1>2, Zenon DEF Begin
  <2>3. moved' \in BOOLEAN
    BY <1>2 DEF Begin, TypeOK
  <2> QED BY <1>2, <2>1, <2>2, <2>3 DEF Begin, Phase, TypeOK
<1>3. CASE provisionTenantWeb
  BY <1>3 DEF provisionTenantWeb, TypeOK, Phase
<1>4. ASSUME NEW t \in Tenant, KeepUnit(t) PROVE TypeOK'
  BY <1>4 DEF KeepUnit, AtGate, TypeOK, Phase
<1>5. ASSUME NEW t \in Tenant, WriteUnit(t) PROVE TypeOK'
  <2>1. unit' \in [Tenant -> Port \cup {0}]
    BY <1>5, PortRange DEF WriteUnit, TypeOK
  <2>2. restarts' \subseteq selected
    BY <1>5 DEF WriteUnit, AtGate, Turn, Queued, TypeOK
  <2>3. faults' \in 0..MaxFaults
    BY <1>5, BoundsAssumption DEF WriteUnit, Fault, TypeOK
  <2> QED BY <1>5, <2>1, <2>2, <2>3 DEF WriteUnit, Phase, TypeOK
<1>6. ASSUME NEW t \in Tenant, NoGate(t) PROVE TypeOK'
  BY <1>6 DEF NoGate, AtGate, TypeOK, Phase
<1>7. ASSUME NEW t \in Tenant, NEW done \in Outcomes, TearDown(t, done) PROVE TypeOK'
  <2>1. unit' \in [Tenant -> Port \cup {0}] /\ gate' \in [Tenant -> Port \cup {0}]
    BY <1>7 DEF TearDown, TypeOK
  <2>2. bound' \subseteq {u \in Tenant : gate'[u] # 0}
    BY <1>7 DEF TearDown, TypeOK
  <2>3. faults' \in 0..MaxFaults
    BY <1>7, BoundsAssumption DEF TearDown, Fault, TypeOK
  <2>4. missed' \in BOOLEAN
    <3>1. missed' = missed \/ missed' = TRUE
      BY <1>7 DEF TearDown
    <3>2. missed \in BOOLEAN
      BY DEF TypeOK
    <3> QED BY <3>1, <3>2, Zenon
  <2>5. changed' \subseteq {"units", "fragments"} /\ pc' \in Phase
    BY <1>7 DEF TearDown, Phase, TypeOK
  <2>6. owed' \in Debts
    BY <1>7, TearDownOwes
  <2> QED BY <1>7, <2>1, <2>2, <2>3, <2>4, <2>5, <2>6 DEF TearDown, TypeOK
<1>8. ASSUME NEW t \in Tenant, RemoveStale(t) PROVE TypeOK'
  <2>1. fragment' \in [Path -> Vhost \cup {NoFile}]
    BY <1>8 DEF RemoveStale, Without, TypeOK
  <2>2. changed' \subseteq {"units", "fragments"}
    BY <1>8 DEF RemoveStale, TypeOK
  <2> QED BY <1>8, <2>1, <2>2 DEF RemoveStale, Phase, TypeOK
<1>9. ASSUME NEW t \in Tenant, ListFails(t) PROVE TypeOK'
  <2>1. faults' \in 0..MaxFaults
    BY <1>9, BoundsAssumption DEF ListFails, Fault, TypeOK
  <2>2. missed' \in BOOLEAN
    BY <1>9, Zenon DEF ListFails
  <2>3. moved' \in BOOLEAN
    BY <1>9 DEF ListFails, TypeOK
  <2> QED BY <1>9, <2>1, <2>2, <2>3 DEF ListFails, Phase, TypeOK
<1>10. ASSUME NEW t \in Tenant, WriteFragment(t) PROVE TypeOK'
  <2>1. fragment' \in [Path -> Vhost \cup {NoFile}] /\ changed' \subseteq {"units", "fragments"}
    BY <1>10, Vhosts DEF WriteFragment, TypeOK
  <2> QED BY <1>10, <2>1 DEF WriteFragment, Phase, TypeOK
<1>11. CASE LoopDone
  BY <1>11 DEF LoopDone, TypeOK, Phase
<1>12. CASE DaemonReload
  BY <1>12 DEF DaemonReload, TypeOK, Phase
<1>13. CASE Restart
  <2>1. PICK u \in restarts : /\ gate' = [gate EXCEPT ![u] = unit[u]] /\ bound' = bound \ {u}
                              /\ restarts' = restarts \ {u} /\ owed' = [owed EXCEPT !.gates = @ \ {u}]
    BY <1>13 DEF Restart
  <2>2. gate' \in [Tenant -> Port \cup {0}] /\ bound' \subseteq {v \in Tenant : gate'[v] # 0}
    BY <2>1 DEF TypeOK
  <2>3. owed' \in Debts
    BY <2>1 DEF Debts, TypeOK
  <2> QED BY <1>13, <2>1, <2>2, <2>3 DEF Restart, TypeOK
<1>14. CASE RestartsDone
  BY <1>14 DEF RestartsDone, TypeOK, Phase
<1>15. CASE ReloadCaddy
  <2>1. owed' \in Debts
    <3>1. owed \in Debts /\ owed' = [owed EXCEPT !.caddy = FALSE]
      BY <1>15 DEF ReloadCaddy, TypeOK
    <3>2. FALSE \in BOOLEAN
      OBVIOUS
    <3> QED BY <3>1, <3>2 DEF Debts
  <2> QED BY <1>15, <2>1 DEF ReloadCaddy, Reloaded, Phase, TypeOK
<1>16. CASE Finish
  <2>1. moved' \in BOOLEAN
    BY <1>16 DEF Finish
  <2>2. missed' \in BOOLEAN
    BY <1>16 DEF Finish, TypeOK
  <2> QED BY <1>16, <2>1, <2>2 DEF Finish, Phase, TypeOK
<1>17. ASSUME NEW t \in Tenant, RemoveFails(t) PROVE TypeOK'
  <2>1. PICK removed \in SUBSET Stale(t) : fragment' = Without(removed) /\ Fails(removed)
    BY <1>17 DEF RemoveFails
  <2>2. removed \in SUBSET Path
    BY DEF Stale, Matches
  <2>3. fragment' \in [Path -> Vhost \cup {NoFile}]
    BY <2>1 DEF Without, TypeOK
  <2>4. faults' \in 0..MaxFaults /\ pc' \in Phase
    BY <2>1, BoundsAssumption DEF Fails, Fault, Phase, TypeOK
  <2>5. owed' \in Debts
    BY <2>1, <2>2, FailsOwe
  <2> QED BY <1>17, <2>1, <2>3, <2>4, <2>5 DEF RemoveFails, Fails, TypeOK
<1>18. CASE Abort
  <2>1. faults' \in 0..MaxFaults /\ pc' \in Phase
    BY <1>18, BoundsAssumption DEF Abort, Fails, Fault, Phase, TypeOK
  <2>2. owed' \in Debts
    BY <1>18, FailsOwe DEF Abort
  <2> QED BY <1>18, <2>1, <2>2 DEF Abort, Fails, TypeOK
<1>19. ASSUME NEW t \in Tenant, Bind(t) PROVE TypeOK'
  BY <1>19 DEF Bind, TypeOK, Phase
<1>20. CASE Reboot
  <2>1. owed' \in Debts
    <3>1. owed \in Debts /\ owed' = [owed EXCEPT !.gates = {}, !.caddy = FALSE]
      BY <1>20 DEF Reboot, TypeOK
    <3>2. FALSE \in BOOLEAN
      OBVIOUS
    <3> QED BY <3>1, <3>2 DEF Debts
  <2>2. faults' \in 0..MaxFaults
    BY <1>20, BoundsAssumption DEF Reboot, Fault, TypeOK
  <2> QED BY <1>20, <2>1, <2>2 DEF Reboot, TypeOK
<1>21. CASE CaddyReloads
  <2>1. owed' \in Debts
    <3>1. owed \in Debts /\ owed' = [owed EXCEPT !.caddy = FALSE]
      BY <1>21 DEF CaddyReloads, TypeOK
    <3>2. FALSE \in BOOLEAN
      OBVIOUS
    <3> QED BY <3>1, <3>2 DEF Debts
  <2> QED BY <1>21, <2>1 DEF CaddyReloads, TypeOK
<1> QED BY <1>1, <1>2, <1>3, <1>4, <1>5, <1>6, <1>7, <1>8, <1>9, <1>10, <1>11, <1>12, <1>13,
    <1>14, <1>15, <1>16, <1>17, <1>18, <1>19, <1>20, <1>21 DEF Next, RunStep, Outcomes

\* The loop goes up.
LEMMA PhaseStep == TypeOK /\ PhaseInv /\ Next => PhaseInv'
<1> SUFFICES ASSUME TypeOK, PhaseInv, Next PROVE PhaseInv'
  OBVIOUS
<1>1. ASSUME NEW t \in Tenant, NEW m \in Mode, Edit(t, m) PROVE PhaseInv'
  BY <1>1 DEF Edit, PhaseInv, Visiting, After, Declared, Tenant
<1>2. ASSUME NEW ids \in SUBSET Declared, Begin(ids) PROVE PhaseInv'
  BY <1>2 DEF Begin, PhaseInv, Visiting, After, Declared, Tenant
<1>3. CASE provisionTenantWeb
  BY <1>3 DEF provisionTenantWeb, TypeOK, PhaseInv, Visiting, After, Declared, Tenant
<1>4. ASSUME NEW t \in Tenant, KeepUnit(t) PROVE PhaseInv'
  BY <1>4 DEF KeepUnit, AtGate, PhaseInv, Visiting, After, Declared, Tenant
<1>5. ASSUME NEW t \in Tenant, WriteUnit(t) PROVE PhaseInv'
  BY <1>5 DEF WriteUnit, AtGate, Queued, Fault, PhaseInv, Visiting, After, Declared, Tenant
<1>6. ASSUME NEW t \in Tenant, NoGate(t) PROVE PhaseInv'
  BY <1>6 DEF NoGate, AtGate, PhaseInv, Visiting, After, Declared, Tenant
<1>7. ASSUME NEW t \in Tenant, NEW done \in Outcomes, TearDown(t, done) PROVE PhaseInv'
  BY <1>7 DEF TearDown, AtGate, Stopped, Fault, PhaseInv, Visiting, After, Declared, Tenant
<1>8. ASSUME NEW t \in Tenant, RemoveStale(t) PROVE PhaseInv'
  BY <1>8 DEF RemoveStale, PhaseInv, Visiting, After, Declared, Tenant
<1>9. ASSUME NEW t \in Tenant, ListFails(t) PROVE PhaseInv'
  BY <1>9 DEF ListFails, Fault, PhaseInv, Visiting, After, Declared, Tenant
<1>10. ASSUME NEW t \in Tenant, WriteFragment(t) PROVE PhaseInv'
  BY <1>10 DEF WriteFragment, Turn, TypeOK, PhaseInv, Visiting, After, Declared, Tenant
<1>11. CASE LoopDone
  BY <1>11 DEF LoopDone, PhaseInv, Visiting, After, Declared, Tenant
<1>12. CASE DaemonReload
  BY <1>12 DEF DaemonReload, PhaseInv, Visiting, After, Declared, Tenant
<1>13. CASE Restart
  BY <1>13 DEF Restart, PhaseInv, Visiting, After, Declared, Tenant
<1>14. CASE RestartsDone
  BY <1>14 DEF RestartsDone, PhaseInv, Visiting, After, Declared, Tenant
<1>15. CASE ReloadCaddy
  BY <1>15 DEF ReloadCaddy, Reloaded, PhaseInv, Visiting, After, Declared, Tenant
<1>16. CASE Finish
  BY <1>16 DEF Finish, PhaseInv, Visiting, After, Declared, Tenant
<1>17. ASSUME NEW t \in Tenant, RemoveFails(t) PROVE PhaseInv'
  BY <1>17 DEF RemoveFails, Fails, Fault, PhaseInv, Visiting, After, Declared, Tenant
<1>18. CASE Abort
  BY <1>18 DEF Abort, Fails, Fault, PhaseInv, Visiting, After, Declared, Tenant
<1>19. ASSUME NEW t \in Tenant, Bind(t) PROVE PhaseInv'
  BY <1>19 DEF Bind, PhaseInv, Visiting, After, Declared, Tenant
<1>20. CASE Reboot
  BY <1>20 DEF Reboot, Fault, PhaseInv, Visiting, After, Declared, Tenant
<1>21. CASE CaddyReloads
  BY <1>21 DEF CaddyReloads, PhaseInv, Visiting, After, Declared, Tenant
<1> QED BY <1>1, <1>2, <1>3, <1>4, <1>5, <1>6, <1>7, <1>8, <1>9, <1>10, <1>11, <1>12, <1>13,
    <1>14, <1>15, <1>16, <1>17, <1>18, <1>19, <1>20, <1>21 DEF Next, RunStep, Outcomes

\* What a run has changed and not restarted or reloaded is owed when it is cut off.
LEMMA BehindStep == TypeOK /\ PhaseInv /\ BehindInv /\ Next => BehindInv'
<1> SUFFICES ASSUME TypeOK, PhaseInv, BehindInv, Next PROVE BehindInv'
  OBVIOUS
<1>1. ASSUME NEW t \in Tenant, NEW m \in Mode, Edit(t, m) PROVE BehindInv'
  BY <1>1 DEF Edit, BehindInv
<1>2. ASSUME NEW ids \in SUBSET Declared, Begin(ids) PROVE BehindInv'
  BY <1>2 DEF Begin, BehindInv
<1>3. CASE provisionTenantWeb
  BY <1>3 DEF provisionTenantWeb, BehindInv
<1>4. ASSUME NEW t \in Tenant, KeepUnit(t) PROVE BehindInv'
  BY <1>4 DEF KeepUnit, AtGate, BehindInv
<1>5. ASSUME NEW t \in Tenant, WriteUnit(t) PROVE BehindInv'
  <2>1. \A u \in Tenant : u = t \/ unit'[u] = unit[u]
    BY <1>5 DEF WriteUnit, TypeOK
  <2>2. /\ pc = "gate" /\ pc' = "stale" /\ restarts' = restarts \cup {t} /\ changed' = changed \cup {"units"}
        /\ UNCHANGED <<gate, owed, caddy, fragment>>
    BY <1>5 DEF WriteUnit, AtGate, Queued
  <2> QED BY <2>1, <2>2 DEF BehindInv
<1>6. ASSUME NEW t \in Tenant, NoGate(t) PROVE BehindInv'
  BY <1>6 DEF NoGate, AtGate, BehindInv
<1>7. ASSUME NEW t \in Tenant, NEW done \in Outcomes, TearDown(t, done) PROVE BehindInv'
  <2>1. /\ pc = "gate" /\ pc' = "stale" /\ restarts' = restarts /\ changed \subseteq changed'
        /\ UNCHANGED <<caddy, fragment>>
    BY <1>7 DEF TearDown, AtGate
  <2>2. \A u \in Tenant : u = t \/ (unit'[u] = unit[u] /\ gate'[u] = gate[u])
    BY <1>7 DEF TearDown, TypeOK
  <2>3. \/ {"stop", "rm"} \subseteq done /\ unit'[t] = 0 /\ gate'[t] = 0
        \/ {"stop", "rm"} \cap done = {} /\ unit' = unit /\ gate' = gate
        \/ owed'.gates = owed.gates \cup {t}
    BY <1>7, TearDownOwes DEF TearDown, Stopped, Outcomes, TypeOK
  <2>4. owed'.caddy = owed.caddy /\ \A u \in Tenant : u = t \/ (u \in owed.gates <=> u \in owed'.gates)
    BY <1>7, TearDownOwes
  <2>5. {"stop", "rm"} \cap done = {} => owed'.gates = owed.gates
    BY <1>7, TearDownOwes
  <2>6. (~owed'.caddy /\ "fragments" \notin changed') => caddy' = fragment'
    BY <2>1, <2>4 DEF BehindInv
  <2> QED BY <2>1, <2>2, <2>3, <2>4, <2>5, <2>6 DEF BehindInv
<1>8. ASSUME NEW t \in Tenant, RemoveStale(t) PROVE BehindInv'
  <2>1. Stale(t) = {} => fragment' = fragment
    BY <1>8 DEF RemoveStale, Without, TypeOK
  <2> QED BY <1>8, <2>1 DEF RemoveStale, BehindInv
<1>9. ASSUME NEW t \in Tenant, ListFails(t) PROVE BehindInv'
  BY <1>9 DEF ListFails, Fault, BehindInv
<1>10. ASSUME NEW t \in Tenant, WriteFragment(t) PROVE BehindInv'
  BY <1>10 DEF WriteFragment, BehindInv
<1>11. CASE LoopDone
  <2>1. pc' = "rest" => "fragments" \notin changed
    BY <1>11 DEF LoopDone
  <2> QED BY <1>11, <2>1 DEF LoopDone, BehindInv
<1>12. CASE DaemonReload
  <2>1. \A t \in Tenant : gate'[t] = gate[t] \/ gate'[t] = unit[t]
    BY <1>12 DEF DaemonReload
  <2> QED BY <1>12, <2>1 DEF DaemonReload, BehindInv
<1>13. CASE Restart
  <2>1. PICK u \in restarts : /\ gate' = [gate EXCEPT ![u] = unit[u]]
                              /\ restarts' = restarts \ {u} /\ owed' = [owed EXCEPT !.gates = @ \ {u}]
    BY <1>13 DEF Restart
  <2>2. \A v \in Tenant : gate'[v] = IF v = u THEN unit[u] ELSE gate[v]
    BY <2>1 DEF TypeOK
  <2>3. owed'.gates = owed.gates \ {u} /\ owed'.caddy = owed.caddy
    BY <2>1 DEF TypeOK, Debts
  <2> QED BY <1>13, <2>1, <2>2, <2>3 DEF Restart, BehindInv
<1>14. CASE RestartsDone
  BY <1>14 DEF RestartsDone, BehindInv
<1>15. CASE ReloadCaddy
  <2>1. owed'.gates = owed.gates /\ caddy' = fragment'
    BY <1>15 DEF ReloadCaddy, Reloaded, TypeOK, Debts
  <2> QED BY <1>15, <2>1 DEF ReloadCaddy, BehindInv
<1>16. CASE Finish
  BY <1>16 DEF Finish, PhaseInv, BehindInv
<1>17. ASSUME NEW t \in Tenant, RemoveFails(t) PROVE BehindInv'
  <2>1. PICK removed \in SUBSET Stale(t) : fragment' = Without(removed) /\ Fails(removed)
    BY <1>17 DEF RemoveFails
  <2>2. removed \in SUBSET Path
    BY DEF Stale, Matches
  <2>3. removed = {} => fragment' = fragment
    BY <2>1 DEF Without, TypeOK
  <2>4. /\ owed'.gates = owed.gates \cup restarts
        /\ owed'.caddy <=> (owed.caddy \/ removed # {} \/ (pc # "rest" /\ "fragments" \in changed))
    BY <2>1, <2>2, FailsOwe
  <2>5. pc = "stale" /\ UNCHANGED <<unit, gate, caddy>>
    BY <1>17 DEF RemoveFails
  <2> QED BY <2>3, <2>4, <2>5 DEF BehindInv
<1>18. CASE Abort
  <2>1. /\ owed'.gates = owed.gates \cup restarts
        /\ owed'.caddy <=> (owed.caddy \/ (pc # "rest" /\ "fragments" \in changed))
    BY <1>18, FailsOwe DEF Abort
  <2>2. pc # "idle" /\ UNCHANGED <<unit, gate, caddy, fragment>>
    BY <1>18 DEF Abort
  <2> QED BY <2>1, <2>2 DEF BehindInv
<1>19. ASSUME NEW t \in Tenant, Bind(t) PROVE BehindInv'
  BY <1>19 DEF Bind, BehindInv
<1>20. CASE Reboot
  BY <1>20 DEF Reboot, Fault, BehindInv
<1>21. CASE CaddyReloads
  <2>1. owed'.gates = owed.gates /\ caddy' = fragment'
    BY <1>21 DEF CaddyReloads, TypeOK, Debts
  <2> QED BY <1>21, <2>1 DEF CaddyReloads, BehindInv
<1> QED BY <1>1, <1>2, <1>3, <1>4, <1>5, <1>6, <1>7, <1>8, <1>9, <1>10, <1>11, <1>12, <1>13,
    <1>14, <1>15, <1>16, <1>17, <1>18, <1>19, <1>20, <1>21 DEF Next, RunStep, Outcomes

\* Caddy loads what is in its directory.
LEMMA CaddyFrame ==
    ASSUME Next
    PROVE  caddy' = caddy \/ caddy' = fragment
BY DEF Next, RunStep, Edit, Begin, provisionTenantWeb, KeepUnit, WriteUnit, NoGate,
    TearDown, RemoveStale, ListFails, WriteFragment, LoopDone, DaemonReload, Restart,
    RestartsDone, ReloadCaddy, Finish, RemoveFails, Abort, Bind, Reboot, CaddyReloads,
    Fails, Reloaded

\* Files are written under their own name or removed, and Caddy loads those there are.
LEMMA FileStep == TypeOK /\ FileInv /\ Next => FileInv'
<1> SUFFICES ASSUME TypeOK, FileInv, Next PROVE FileInv'
  OBVIOUS
<1>1. \/ UNCHANGED fragment
      \/ \E t \in Tenant : RemoveStale(t) \/ WriteFragment(t) \/ RemoveFails(t)
  BY DEF Next, RunStep, Edit, Begin, provisionTenantWeb, KeepUnit, WriteUnit, NoGate,
      TearDown, ListFails, LoopDone, DaemonReload, Restart, RestartsDone, ReloadCaddy,
      Finish, Abort, Bind, Reboot, CaddyReloads, Fails, Fault
<1>2. caddy' = caddy \/ caddy' = fragment
  BY CaddyFrame
<1>3. ASSUME NEW S \in SUBSET Path, fragment' = Without(S), NEW p \in Path, fragment'[p] # NoFile
      PROVE  fragment'[p] = fragment[p]
  BY <1>3, WithoutFiles
<1>4. ASSUME NEW p \in Path, fragment'[p] # NoFile
      PROVE  p = webFragmentPath(fragment'[p].of)
  <2>1. CASE fragment'[p] = fragment[p]
    BY <1>4, <2>1 DEF FileInv
  <2>2. ASSUME NEW t \in Tenant, RemoveStale(t) PROVE fragment'[p] = fragment[p]
    <3>1. Stale(t) \in SUBSET Path /\ fragment' = Without(Stale(t))
      BY <2>2 DEF RemoveStale, Stale, Matches
    <3> QED BY <1>3, <1>4, <3>1
  <2>3. ASSUME NEW t \in Tenant, RemoveFails(t) PROVE fragment'[p] = fragment[p]
    <3>1. PICK removed \in SUBSET Stale(t) : fragment' = Without(removed)
      BY <2>3 DEF RemoveFails
    <3>2. removed \in SUBSET Path
      BY DEF Stale, Matches
    <3> QED BY <1>3, <1>4, <3>1, <3>2
  <2>4. ASSUME NEW t \in Tenant, WriteFragment(t)
        PROVE  fragment'[p] = fragment[p] \/ (p = webFragmentPath(t) /\ fragment'[p] = webFragment(t))
    BY <2>4 DEF WriteFragment, TypeOK
  <2>5. ASSUME NEW t \in Tenant, p = webFragmentPath(t), fragment'[p] = webFragment(t)
        PROVE  p = webFragmentPath(fragment'[p].of)
    BY <2>5, Vhosts
  <2> QED BY <1>1, <2>1, <2>2, <2>3, <2>4, <2>5
<1> QED BY <1>2, <1>4 DEF FileInv

\* In the loop, after it and once success is reported, the workspace and the selection
\* stay, and an error that was dropped is not forgotten.
LEMMA RunFrame ==
    ASSUME TypeOK, PhaseInv, Next, pc' \in Visiting \cup After \/ result' = "ok"
    PROVE  /\ UNCHANGED <<mode, selected>>
           /\ missed => missed'
           /\ provisionTenantWeb \/ pc \in Visiting \cup After \/ result = "ok"
           /\ pc' \in Visiting \cup After => provisionTenantWeb \/ pc \in Visiting \cup After
<1>1. /\ ~(pc' = "apply" /\ result' = "none")
      /\ ~(pc' = "idle" /\ result' = "none")
      /\ ~(pc' = "idle" /\ result' = "error")
  BY DEF Visiting, After
<1>2. UNCHANGED <<mode, selected>>
  BY <1>1 DEF Next, RunStep, Edit, Begin, provisionTenantWeb, KeepUnit, WriteUnit, NoGate,
      TearDown, RemoveStale, ListFails, WriteFragment, LoopDone, DaemonReload, Restart,
      RestartsDone, ReloadCaddy, Finish, RemoveFails, Abort, Bind, Reboot, CaddyReloads,
      Fails, Fault, AtGate
<1>3. missed' = missed \/ missed' = TRUE
  BY <1>1 DEF Next, RunStep, Edit, Begin, provisionTenantWeb, KeepUnit, WriteUnit, NoGate,
      TearDown, RemoveStale, ListFails, WriteFragment, LoopDone, DaemonReload, Restart,
      RestartsDone, ReloadCaddy, Finish, RemoveFails, Abort, Bind, Reboot, CaddyReloads,
      Fails, Fault, AtGate
<1>4. provisionTenantWeb \/ pc \in Visiting \cup After \/ result = "ok"
  BY DEF Next, RunStep, Visiting, After, Edit, Begin, KeepUnit, WriteUnit, NoGate, TearDown,
      RemoveStale, ListFails, WriteFragment, LoopDone, DaemonReload, Restart, RestartsDone,
      ReloadCaddy, Finish, RemoveFails, Abort, Bind, Reboot, CaddyReloads, Fails, Fault,
      AtGate
<1>5. pc' \in Visiting \cup After => provisionTenantWeb \/ pc \in Visiting \cup After
  BY DEF Next, RunStep, Visiting, After, Edit, Begin, KeepUnit, WriteUnit, NoGate, TearDown,
      RemoveStale, ListFails, WriteFragment, LoopDone, DaemonReload, Restart, RestartsDone,
      ReloadCaddy, Finish, RemoveFails, Abort, Bind, Reboot, CaddyReloads, Fails, Fault,
      AtGate
<1>6. missed => missed'
  BY <1>3
<1> QED BY <1>2, <1>4, <1>5, <1>6

\* A tenant leaves the loop when its vhosts are written.
LEMMA TodoFrame ==
    ASSUME Next, pc' \in Visiting \cup After \/ result' = "ok"
    PROVE  \/ provisionTenantWeb
           \/ todo' = todo
           \/ \E t \in Tenant : WriteFragment(t)
BY DEF Next, RunStep, Visiting, After, Edit, Begin, provisionTenantWeb, KeepUnit, WriteUnit,
    NoGate, TearDown, RemoveStale, ListFails, WriteFragment, LoopDone, DaemonReload,
    Restart, RestartsDone, ReloadCaddy, Finish, RemoveFails, Abort, Bind, Reboot,
    CaddyReloads, Fails, Fault, AtGate

\* What was done to units, files and Caddy in this run is remembered.
LEMMA ChangedFrame ==
    ASSUME TypeOK, Next, pc' \in Visiting \cup After, pc \in Visiting \cup After
    PROVE  changed \subseteq changed'
BY DEF Next, RunStep, Visiting, After, Edit, Begin, provisionTenantWeb, KeepUnit, WriteUnit,
    NoGate, TearDown, RemoveStale, ListFails, WriteFragment, LoopDone, DaemonReload,
    Restart, RestartsDone, ReloadCaddy, Finish, RemoveFails, Abort, Bind, Reboot,
    CaddyReloads, Fails, Fault, AtGate

\* A unit file is touched at its tenant's turn only.
LEMMA UnitFrame ==
    ASSUME TypeOK, Next, NEW t \in Tenant, ~Turn(t)
    PROVE  unit'[t] = unit[t]
<1>1. \/ UNCHANGED unit
      \/ \E u \in Tenant : WriteUnit(u) \/ \E done \in Outcomes : TearDown(u, done)
  BY DEF Next, RunStep, Outcomes, Edit, Begin, provisionTenantWeb, KeepUnit, NoGate,
      RemoveStale, ListFails, WriteFragment, LoopDone, DaemonReload, Restart, RestartsDone,
      ReloadCaddy, Finish, RemoveFails, Abort, Bind, Reboot, CaddyReloads, Fails, Fault
<1>2. ASSUME NEW u \in Tenant, WriteUnit(u) \/ \E done \in Outcomes : TearDown(u, done)
      PROVE  unit'[t] = unit[t]
  <2>1. Turn(u)
    BY <1>2 DEF WriteUnit, TearDown, AtGate
  <2>2. u # t
    BY <2>1
  <2> QED BY <1>2, <2>2 DEF WriteUnit, TearDown, TypeOK
<1> QED BY <1>1, <1>2

\* A tenant that was visited comes before the one whose turn it is.
LEMMA EarlierTurn ==
    ASSUME TypeOK, PhaseInv, pc \in Visiting, NEW t \in selected \ todo, NEW u \in Tenant, Turn(u)
    PROVE  t < u /\ u \in selected /\ t # u /\ t \in Tenant
<1>1. t < u /\ u \in selected /\ t \in Tenant
  BY DEF PhaseInv, Turn, TypeOK
<1>2. t # u
  BY DEF Turn
<1> QED BY <1>1, <1>2

\* A later tenant takes the vhost of an earlier one only if its pattern finds it.
LEMMA VhostStep ==
    ASSUME TypeOK, PhaseInv, Next, NEW t \in selected \ todo, VhostDone(t),
           UNCHANGED <<mode, selected>>, missed => missed'
    PROVE  VhostDone(t)'
<1>0. /\ t \in Tenant /\ webFragment(t)' = webFragment(t) /\ HasEndpoint(t)' = HasEndpoint(t)
      /\ Globbed(t, selected)' = Globbed(t, selected)
      /\ webFragmentPath(t) \in Path
  BY SameWorkspace, OwnPattern DEF TypeOK, Globbed
<1>1. \/ UNCHANGED fragment
      \/ \E u \in Tenant : RemoveStale(u) \/ WriteFragment(u) \/ RemoveFails(u)
  BY DEF Next, RunStep, Edit, Begin, provisionTenantWeb, KeepUnit, WriteUnit, NoGate,
      TearDown, ListFails, LoopDone, DaemonReload, Restart, RestartsDone, ReloadCaddy,
      Finish, Abort, Bind, Reboot, CaddyReloads, Fails, Fault
<1>2. CASE UNCHANGED fragment
  BY <1>0, <1>2 DEF VhostDone
<1>3. ASSUME NEW u \in Tenant, Turn(u), pc \in Visiting, NEW S \in SUBSET Stale(u), fragment' = Without(S)
      PROVE  VhostDone(t)'
  <2>1. t < u /\ u \in selected
    BY <1>3, EarlierTurn
  <2>2. S \in SUBSET Path /\ \A p \in S : IsStrictPrefix(Id[u], p)
    BY DEF Stale, Matches
  <2>3. webFragmentPath(t) \in S => Globbed(t, selected)
    BY <2>1, <2>2 DEF Globbed, TypeOK, Tenant
  <2>4. \A p \in Path : fragment'[p] = IF p \in S THEN NoFile ELSE fragment[p]
    BY <1>3, <2>2, WithoutFiles
  <2>5. t # 0 /\ NoFile.of = 0
    BY <1>0, NAssumption DEF Tenant, NoFile
  <2> QED BY <1>0, <2>3, <2>4, <2>5 DEF VhostDone
<1>4. ASSUME NEW u \in Tenant, RemoveStale(u) PROVE VhostDone(t)'
  BY <1>3, <1>4 DEF RemoveStale, Visiting
<1>5. ASSUME NEW u \in Tenant, RemoveFails(u) PROVE VhostDone(t)'
  BY <1>3, <1>5 DEF RemoveFails, Visiting
<1>6. ASSUME NEW u \in Tenant, WriteFragment(u) PROVE VhostDone(t)'
  <2>1. pc \in Visiting /\ Turn(u)
    BY <1>6 DEF WriteFragment, Visiting
  <2>2. t < u /\ u \in selected /\ t # u
    BY <2>1, EarlierTurn
  <2>3. webFragmentPath(t) = webFragmentPath(u) => Globbed(t, selected)
    BY <2>2, OwnPattern DEF Globbed, TypeOK, Tenant
  <2>4. \A p \in Path : fragment'[p] = fragment[p]
                        \/ (p = webFragmentPath(u) /\ fragment'[p] = webFragment(u))
    BY <1>6 DEF WriteFragment, TypeOK
  <2>5. webFragment(u).of = u
    BY Vhosts
  <2>6. (HasEndpoint(t) /\ ~Globbed(t, selected)) => fragment'[webFragmentPath(t)] = webFragment(t)
    BY <1>0, <2>3, <2>4 DEF VhostDone
  <2>7. ~missed' => \A p \in Path : fragment'[p].of = t => fragment'[p] = webFragment(t)
    BY <2>2, <2>4, <2>5 DEF VhostDone
  <2> QED BY <1>0, <2>6, <2>7 DEF VhostDone
<1> QED BY <1>1, <1>2, <1>4, <1>5, <1>6

\* Where the tenant's unit is settled, and where it stays so.
LEMMA SettledFrame ==
    ASSUME Next, pc' \in {"stale", "write"}
    PROVE  /\ todo' = todo
           /\ \/ pc \in {"stale", "write"} /\ unit' = unit
              \/ \E u \in Tenant : /\ Turn(u)
                                   /\ \/ KeepUnit(u) \/ WriteUnit(u) \/ NoGate(u)
                                      \/ \E done \in Outcomes : TearDown(u, done)
<1>1. todo' = todo
  BY DEF Next, RunStep, Edit, Begin, provisionTenantWeb, KeepUnit, WriteUnit, NoGate,
      TearDown, RemoveStale, ListFails, WriteFragment, LoopDone, DaemonReload, Restart,
      RestartsDone, ReloadCaddy, Finish, RemoveFails, Abort, Bind, Reboot, CaddyReloads,
      Fails, Fault, AtGate
<1>2. \/ pc \in {"stale", "write"} /\ unit' = unit
      \/ \E u \in Tenant : \/ KeepUnit(u) \/ WriteUnit(u) \/ NoGate(u)
                           \/ \E done \in Outcomes : TearDown(u, done)
  BY DEF Next, RunStep, Outcomes, Edit, Begin, provisionTenantWeb, RemoveStale, ListFails,
      WriteFragment, LoopDone, DaemonReload, Restart, RestartsDone, ReloadCaddy, Finish,
      RemoveFails, Abort, Bind, Reboot, CaddyReloads, Fails, Fault
<1>3. ASSUME NEW u \in Tenant, \/ KeepUnit(u) \/ WriteUnit(u) \/ NoGate(u)
                               \/ \E done \in Outcomes : TearDown(u, done)
      PROVE  Turn(u)
  BY <1>3 DEF KeepUnit, WriteUnit, NoGate, TearDown, AtGate
<1> QED BY <1>1, <1>2, <1>3

\* One tenant at a time.
LEMMA OneTurn ==
    ASSUME TypeOK, NEW t \in Tenant, NEW u \in Tenant, Turn(t), Turn(u)
    PROVE  t = u
BY NAssumption DEF Turn, Tenant

\* The unit of the tenant whose turn it was is as the workspace says.
LEMMA UnitSettled ==
    ASSUME TypeOK, NEW t \in Tenant, UNCHANGED mode,
           \/ KeepUnit(t) \/ WriteUnit(t) \/ NoGate(t)
           \/ \E done \in Outcomes : TearDown(t, done)
    PROVE  UnitDone(t)'
<1>0. webSSOPort(t)' = webSSOPort(t) /\ WebSSO(t)' = WebSSO(t)
  BY SameWorkspace
<1>1. CASE KeepUnit(t) \/ NoGate(t)
  BY <1>0, <1>1 DEF KeepUnit, NoGate, UnitDone
<1>2. CASE WriteUnit(t)
  <2>1. unit'[t] = webSSOPort(t) /\ WebSSO(t)
    BY <1>2 DEF WriteUnit, TypeOK
  <2> QED BY <1>0, <2>1 DEF UnitDone
<1>3. ASSUME NEW done \in Outcomes, TearDown(t, done) PROVE UnitDone(t)'
  <2>1. ~WebSSO(t) /\ (done = {"test", "stop", "rm"} \/ missed' = TRUE)
    BY <1>3 DEF TearDown
  <2>2. done = {"test", "stop", "rm"} => unit'[t] = 0
    BY <1>3 DEF TearDown, TypeOK
  <2> QED BY <1>0, <2>1, <2>2 DEF UnitDone
<1> QED BY <1>1, <1>2, <1>3

\* When its vhosts are written a tenant has those of the workspace, and no others.
LEMMA VhostSettled ==
    ASSUME TypeOK, FileInv, VisitedInv, NEW t \in Tenant, WriteFragment(t)
    PROVE  UnitDone(t)' /\ VhostDone(t)'
<1>0. /\ pc = "write" /\ Turn(t) /\ t \in todo /\ UNCHANGED <<mode, unit, selected, missed>>
      /\ webFragmentPath(t) \in Path
  BY OwnPattern DEF WriteFragment, Turn
<1>1. /\ webSSOPort(t)' = webSSOPort(t) /\ webFragment(t)' = webFragment(t)
      /\ WebSSO(t)' = WebSSO(t) /\ HasEndpoint(t)' = HasEndpoint(t)
  BY <1>0, SameWorkspace
<1>2. UnitDone(t)'
  BY <1>0, <1>1 DEF VisitedInv, UnitDone
<1>3. t # 0 /\ NoFile.of = 0
  BY NAssumption DEF Tenant, NoFile
<1>4. CASE HasEndpoint(t)
  <2>1. \A p \in Path : fragment'[p] = IF p = webFragmentPath(t) THEN webFragment(t) ELSE fragment[p]
    BY <1>4 DEF WriteFragment, TypeOK
  <2>2. \A p \in Path : fragment[p].of = t => p = webFragmentPath(t)
    BY <1>3 DEF FileInv
  <2> QED BY <1>0, <1>1, <1>2, <2>1, <2>2 DEF VhostDone
<1>5. CASE ~HasEndpoint(t)
  <2>1. fragment' = fragment
    BY <1>5 DEF WriteFragment
  <2>2. ~missed => \A p \in Path : fragment[p].of # t
    BY <1>0, <1>5 DEF VisitedInv
  <2> QED BY <1>0, <1>1, <1>2, <1>5, <2>1, <2>2 DEF VhostDone
<1> QED BY <1>4, <1>5

\* Where Caddy is as the run leaves it.
LEMMA LoadedFrame ==
    ASSUME PhaseInv, Next, pc' = "rest" \/ result' = "ok"
    PROVE  /\ UNCHANGED <<fragment, todo>>
           /\ \/ LoopDone
              \/ (pc = "rest" \/ result = "ok") /\ caddy' \in {caddy, fragment}
              \/ pc = "caddy" /\ caddy' = fragment
<1>0. result = "ok" => pc = "idle"
  BY DEF PhaseInv
<1>1. UNCHANGED <<fragment, todo>>
  BY <1>0 DEF Next, RunStep, Edit, Begin, provisionTenantWeb, KeepUnit, WriteUnit, NoGate,
      TearDown, RemoveStale, ListFails, WriteFragment, LoopDone, DaemonReload, Restart,
      RestartsDone, ReloadCaddy, Finish, RemoveFails, Abort, Bind, Reboot, CaddyReloads,
      Fails, Fault, AtGate
<1>2. \/ LoopDone
      \/ (pc = "rest" \/ result = "ok") /\ caddy' \in {caddy, fragment}
      \/ pc = "caddy" /\ caddy' = fragment
  BY <1>0 DEF Next, RunStep, Reloaded, Edit, Begin, provisionTenantWeb, KeepUnit, WriteUnit,
      NoGate, TearDown, RemoveStale, ListFails, WriteFragment, DaemonReload, Restart,
      RestartsDone, ReloadCaddy, Finish, RemoveFails, Abort, Bind, Reboot, CaddyReloads,
      Fails, Fault, AtGate
<1> QED BY <1>1, <1>2

\* The run gets on: what it has seen to stays seen to.
LEMMA VisitedStep == TypeOK /\ PhaseInv /\ FileInv /\ VisitedInv /\ Next => VisitedInv'
<1> SUFFICES ASSUME TypeOK, PhaseInv, FileInv, VisitedInv, Next PROVE VisitedInv'
  OBVIOUS
<1>1. ASSUME pc' \in Visiting \cup After \/ result' = "ok", NEW t \in selected' \ todo'
      PROVE  UnitDone(t)' /\ VhostDone(t)'
  <2>1. /\ UNCHANGED <<mode, selected>> /\ (missed => missed')
        /\ provisionTenantWeb \/ pc \in Visiting \cup After \/ result = "ok"
    BY <1>1, RunFrame
  <2>2. ~provisionTenantWeb
    BY <2>1 DEF provisionTenantWeb
  <2>3. ASSUME t \in selected \ todo PROVE UnitDone(t)' /\ VhostDone(t)'
    <3>1. UnitDone(t) /\ VhostDone(t)
      BY <2>1, <2>2, <2>3 DEF VisitedInv
    <3>2. t \in Tenant /\ ~Turn(t)
      BY <2>3 DEF TypeOK, Turn
    <3>3. unit'[t] = unit[t] /\ webSSOPort(t)' = webSSOPort(t) /\ WebSSO(t)' = WebSSO(t)
      BY <2>1, <3>2, UnitFrame, SameWorkspace
    <3>4. UnitDone(t)'
      BY <2>1, <3>1, <3>3 DEF UnitDone
    <3>5. VhostDone(t)'
      BY <2>1, <2>3, <3>1, VhostStep
    <3> QED BY <3>4, <3>5
  <2>4. ASSUME NEW u \in Tenant, WriteFragment(u) PROVE UnitDone(t)' /\ VhostDone(t)'
    <3>1. t = u \/ t \in selected \ todo
      BY <2>1, <2>4 DEF WriteFragment
    <3>2. UnitDone(u)' /\ VhostDone(u)'
      BY <2>4, VhostSettled
    <3> QED BY <2>3, <3>1, <3>2
  <2>5. todo' = todo \/ \E u \in Tenant : WriteFragment(u)
    BY <1>1, <2>2, TodoFrame
  <2> QED BY <2>1, <2>3, <2>4, <2>5
<1>2. ASSUME pc' \in Visiting \cup After, NEW t \in selected' \ todo', HasEndpoint(t)'
      PROVE  "fragments" \in changed'
  <2>1. /\ UNCHANGED <<mode, selected>>
        /\ provisionTenantWeb \/ pc \in Visiting \cup After
    BY <1>2, RunFrame
  <2>2. ~provisionTenantWeb
    BY <2>1 DEF provisionTenantWeb
  <2>3. t \in Tenant /\ HasEndpoint(t)
    BY <1>2, <2>1 DEF TypeOK, HasEndpoint
  <2>4. changed \subseteq changed'
    BY <1>2, <2>1, <2>2, ChangedFrame
  <2>5. ASSUME t \in selected \ todo PROVE "fragments" \in changed'
    BY <2>1, <2>2, <2>3, <2>4, <2>5 DEF VisitedInv
  <2>6. ASSUME NEW u \in Tenant, WriteFragment(u), t = u PROVE "fragments" \in changed'
    BY <2>3, <2>6 DEF WriteFragment
  <2>7. ASSUME NEW u \in Tenant, WriteFragment(u) PROVE t = u \/ t \in selected \ todo
    BY <2>1, <2>7 DEF WriteFragment
  <2>8. todo' = todo \/ \E u \in Tenant : WriteFragment(u)
    BY <1>2, <2>2, TodoFrame
  <2> QED BY <2>1, <2>5, <2>6, <2>7, <2>8
<1>3. ASSUME pc' \in {"stale", "write"}, NEW t \in todo', Turn(t)' PROVE UnitDone(t)'
  <2>1. UNCHANGED <<mode, selected>> /\ (missed => missed')
    BY <1>3, RunFrame DEF Visiting
  <2>2. todo' = todo /\ t \in Tenant /\ Turn(t)
    BY <1>3, SettledFrame DEF Turn, TypeOK
  <2>3. webSSOPort(t)' = webSSOPort(t) /\ WebSSO(t)' = WebSSO(t)
    BY <2>1, <2>2, SameWorkspace
  <2>4. CASE pc \in {"stale", "write"} /\ unit' = unit
    <3>1. UnitDone(t)
      BY <1>3, <2>2, <2>4 DEF VisitedInv
    <3> QED BY <2>1, <2>3, <2>4, <3>1 DEF UnitDone
  <2>5. ASSUME NEW u \in Tenant, Turn(u), \/ KeepUnit(u) \/ WriteUnit(u) \/ NoGate(u)
                                          \/ \E done \in Outcomes : TearDown(u, done)
        PROVE  UnitDone(t)'
    <3>1. u = t
      BY <2>2, <2>5, OneTurn
    <3>2. UnitDone(u)'
      BY <2>1, <2>5, UnitSettled
    <3> QED BY <3>1, <3>2
  <2> QED BY <1>3, <2>4, <2>5, SettledFrame
<1>4. ASSUME pc' = "write", ~missed', NEW t \in todo', Turn(t)', ~HasEndpoint(t)', NEW p \in Path
      PROVE  fragment'[p].of # t
  <2>1. UNCHANGED <<mode, selected>> /\ ~missed
    BY <1>4, RunFrame DEF Visiting
  <2>2. todo' = todo /\ t \in Tenant /\ Turn(t)
    BY <1>4, SettledFrame DEF Turn, TypeOK
  <2>3. ~HasEndpoint(t)
    BY <1>4, <2>1, <2>2 DEF HasEndpoint
  <2>4. CASE pc = "write" /\ fragment' = fragment
    BY <1>4, <2>1, <2>2, <2>3, <2>4 DEF VisitedInv
  <2>5. ASSUME NEW u \in Tenant, RemoveStale(u) PROVE fragment'[p].of # t
    <3>1. u = t
      BY <2>2, <2>5, OneTurn DEF RemoveStale
    <3>2. fragment' = Without(Matches(t)) /\ Matches(t) \in SUBSET Path
      BY <2>3, <2>5, <3>1 DEF RemoveStale, Stale, Matches
    <3>3. t # 0 /\ NoFile.of = 0
      BY <2>2, NAssumption DEF Tenant, NoFile
    <3>4. fragment[p].of = t => p \in Matches(t)
      BY <2>2, <3>3, OwnPattern DEF FileInv, Matches
    <3>5. fragment'[p] = IF p \in Matches(t) THEN NoFile ELSE fragment[p]
      BY <3>2, WithoutFiles
    <3> QED BY <3>3, <3>4, <3>5
  <2>6. ASSUME NEW u \in Tenant, ListFails(u) PROVE FALSE
    BY <1>4, <2>6 DEF ListFails
  <2>7. \/ pc = "write" /\ fragment' = fragment
        \/ \E u \in Tenant : RemoveStale(u) \/ ListFails(u)
    BY <1>4 DEF Next, RunStep, Edit, Begin, provisionTenantWeb, KeepUnit, WriteUnit, NoGate,
        TearDown, WriteFragment, LoopDone, DaemonReload, Restart, RestartsDone, ReloadCaddy,
        Finish, RemoveFails, Abort, Bind, Reboot, CaddyReloads, Fails, Fault, AtGate
  <2> QED BY <2>4, <2>5, <2>6, <2>7
<1>5. ASSUME pc' = "rest" \/ result' = "ok",
             NEW t \in selected', HasEndpoint(t)', ~Globbed(t, selected)'
      PROVE  caddy'[webFragmentPath(t)] = webFragment(t)'
  <2>1. UNCHANGED <<mode, selected>> /\ UNCHANGED <<fragment, todo>>
    BY <1>5, RunFrame, LoadedFrame DEF After
  <2>2. t \in Tenant /\ t \in selected
    BY <2>1 DEF TypeOK
  <2>3. webFragment(t)' = webFragment(t) /\ HasEndpoint(t) /\ ~Globbed(t, selected)
    BY <1>5, <2>1, <2>2, SameWorkspace DEF Globbed
  <2>4. ASSUME pc \in After \/ result = "ok" PROVE fragment[webFragmentPath(t)] = webFragment(t)
    BY <2>2, <2>3, <2>4 DEF VisitedInv, VhostDone, PhaseInv
  <2>5. CASE LoopDone
    <3>1. pc = "gate" /\ todo = {} /\ (pc' = "rest" => changed = {}) /\ result' = result /\ pc' # "idle"
      BY <2>5 DEF LoopDone
    <3>2. result # "ok"
      BY <3>1 DEF PhaseInv
    <3>3. changed = {}
      BY <1>5, <3>1, <3>2
    <3>4. "fragments" \in changed
      BY <2>2, <2>3, <3>1 DEF VisitedInv, Visiting
    <3> QED BY <3>3, <3>4
  <2>6. CASE pc = "rest" \/ result = "ok"
    <3>1. caddy[webFragmentPath(t)] = webFragment(t)
      BY <2>2, <2>3, <2>6 DEF VisitedInv
    <3>2. fragment[webFragmentPath(t)] = webFragment(t)
      BY <2>4, <2>6 DEF After
    <3>3. caddy' = caddy \/ caddy' = fragment
      BY CaddyFrame
    <3> QED BY <2>3, <3>1, <3>2, <3>3
  <2>7. CASE pc = "caddy" /\ caddy' = fragment
    BY <2>3, <2>4, <2>7 DEF After
  <2> QED BY <1>5, <2>5, <2>6, <2>7, LoadedFrame
<1> QED BY <1>1, <1>2, <1>3, <1>4, <1>5 DEF VisitedInv

\* The port written into a unit is the tenant's; a gate runs from its unit, or not at all.
LEMMA PortFrame ==
    ASSUME TypeOK, Next, NEW t \in Tenant
    PROVE  /\ unit'[t] \in {unit[t], 0} \/ (WebSSO(t) /\ unit'[t] = webSSOPort(t))
           /\ gate'[t] \in {gate[t], unit[t], 0}
<1>1. \/ UNCHANGED unit
      \/ \E u \in Tenant : WriteUnit(u) \/ \E done \in Outcomes : TearDown(u, done)
  BY DEF Next, RunStep, Outcomes, Edit, Begin, provisionTenantWeb, KeepUnit, NoGate,
      RemoveStale, ListFails, WriteFragment, LoopDone, DaemonReload, Restart, RestartsDone,
      ReloadCaddy, Finish, RemoveFails, Abort, Bind, Reboot, CaddyReloads, Fails, Fault
<1>2. \/ UNCHANGED gate
      \/ \E u \in Tenant, done \in Outcomes : TearDown(u, done)
      \/ DaemonReload \/ Restart \/ Reboot
  BY DEF Next, RunStep, Outcomes, Edit, Begin, provisionTenantWeb, KeepUnit, WriteUnit,
      NoGate, RemoveStale, ListFails, WriteFragment, LoopDone, RestartsDone, ReloadCaddy,
      Finish, RemoveFails, Abort, Bind, CaddyReloads, Fails, Fault
<1>3. ASSUME NEW u \in Tenant, NEW done \in Outcomes, TearDown(u, done)
      PROVE  unit'[t] \in {unit[t], 0} /\ gate'[t] \in {gate[t], unit[t], 0}
  BY <1>3 DEF TearDown, TypeOK
<1>4. ASSUME NEW u \in Tenant, WriteUnit(u)
      PROVE  unit'[t] = unit[t] \/ (WebSSO(t) /\ unit'[t] = webSSOPort(t))
  <2>1. WebSSO(u) /\ unit' = [unit EXCEPT ![u] = webSSOPort(u)]
    BY <1>4 DEF WriteUnit
  <2>2. CASE u = t
    BY <2>1, <2>2 DEF TypeOK
  <2>3. CASE u # t
    BY <2>1, <2>3 DEF TypeOK
  <2> QED BY <2>2, <2>3
<1>5. DaemonReload \/ Restart \/ Reboot => gate'[t] \in {gate[t], unit[t], 0}
  BY DEF DaemonReload, Restart, Reboot, TypeOK
<1> QED BY <1>1, <1>2, <1>3, <1>4, <1>5

\* A vhost is written as the workspace says.
LEMMA FragmentFrame ==
    ASSUME TypeOK, Next, NEW p \in Path
    PROVE  fragment'[p] \in {fragment[p], NoFile} \/ \E u \in Tenant : HasEndpoint(u) /\ fragment'[p] = webFragment(u)
<1>1. \/ UNCHANGED fragment
      \/ \E t \in Tenant : RemoveStale(t) \/ WriteFragment(t) \/ RemoveFails(t)
  BY DEF Next, RunStep, Edit, Begin, provisionTenantWeb, KeepUnit, WriteUnit, NoGate,
      TearDown, ListFails, LoopDone, DaemonReload, Restart, RestartsDone, ReloadCaddy,
      Finish, Abort, Bind, Reboot, CaddyReloads, Fails, Fault
<1>2. ASSUME NEW S \in SUBSET Path, fragment' = Without(S) PROVE fragment'[p] \in {fragment[p], NoFile}
  BY <1>2, WithoutFiles
<1>3. ASSUME NEW t \in Tenant, RemoveStale(t) PROVE fragment'[p] \in {fragment[p], NoFile}
  <2>1. Stale(t) \in SUBSET Path /\ fragment' = Without(Stale(t))
    BY <1>3 DEF RemoveStale, Stale, Matches
  <2> QED BY <1>2, <2>1
<1>4. ASSUME NEW t \in Tenant, RemoveFails(t) PROVE fragment'[p] \in {fragment[p], NoFile}
  <2>1. PICK removed \in SUBSET Stale(t) : fragment' = Without(removed)
    BY <1>4 DEF RemoveFails
  <2>2. removed \in SUBSET Path
    BY DEF Stale, Matches
  <2> QED BY <1>2, <2>1, <2>2
<1>5. ASSUME NEW t \in Tenant, WriteFragment(t)
      PROVE  fragment'[p] = fragment[p] \/ (HasEndpoint(t) /\ fragment'[p] = webFragment(t))
  BY <1>5 DEF WriteFragment, TypeOK
<1> QED BY <1>1, <1>3, <1>4, <1>5

\* A vhost of the workspace names no port or its tenant's own.
LEMMA OwnFragment ==
    ASSUME NEW t \in Tenant
    PROVE  OwnPort(webFragment(t).of, webFragment(t).gate)
BY DEF webFragment, OwnPort, WebSSO, Declared

\* A run over all tenants that left out nothing leaves only the tenants' own ports.
LEMMA AlignedByRun ==
    ASSUME TypeOK, BehindInv, PhaseInv, VisitedInv, pc = "rest", selected = Declared,
           ~missed, owed = NoDebts, \A t \in Tenant : ~Orphaned(t)
    PROVE  /\ \A t \in Tenant : OwnPort(t, unit[t]) /\ OwnPort(t, gate[t])
           /\ \A p \in Path : /\ OwnPort(fragment[p].of, fragment[p].gate)
                              /\ OwnPort(caddy[p].of, caddy[p].gate)
<1>1. owed.gates = {} /\ owed.caddy = FALSE
  BY DEF NoDebts
<1>2. restarts = {} /\ todo = {}
  BY DEF PhaseInv, After
<1>3. caddy = fragment /\ \A t \in Tenant : gate[t] = unit[t]
  BY <1>1, <1>2 DEF BehindInv
<1>4. \A t \in Declared : UnitDone(t) /\ VhostDone(t)
  BY <1>2 DEF VisitedInv, After
<1>5. ASSUME NEW t \in Tenant PROVE OwnPort(t, unit[t])
  <2>1. CASE t \in Declared
    BY <1>4, <2>1 DEF UnitDone, OwnPort
  <2>2. CASE t \notin Declared
    BY <1>3, <2>2 DEF Orphaned, OwnPort
  <2> QED BY <2>1, <2>2
<1>6. ASSUME NEW p \in Path PROVE OwnPort(fragment[p].of, fragment[p].gate)
  <2>1. CASE fragment[p] = NoFile
    BY <2>1 DEF NoFile, OwnPort
  <2>2. CASE fragment[p] # NoFile
    <3>1. fragment[p] \in Vhost
      BY <2>2 DEF TypeOK
    <3>2. fragment[p].of \in Tenant
      BY <3>1 DEF Vhost
    <3>3. fragment[p].of \in Declared
      BY <1>3, <3>2 DEF Orphaned
    <3>4. fragment[p] = webFragment(fragment[p].of)
      BY <1>4, <3>3 DEF VhostDone
    <3>5. OwnPort(webFragment(fragment[p].of).of, webFragment(fragment[p].of).gate)
      BY <3>2, OwnFragment
    <3> QED BY <3>4, <3>5
  <2> QED BY <2>1, <2>2
<1> QED BY <1>3, <1>5, <1>6

\* While no tenant comes or goes, every port that is written is its tenant's own.
LEMMA AlignedStep ==
    TypeOK /\ PhaseInv /\ BehindInv /\ VisitedInv /\ AlignedInv /\ Next => AlignedInv'
<1> SUFFICES ASSUME TypeOK, PhaseInv, BehindInv, VisitedInv, AlignedInv, Next, ~moved'
             PROVE  AlignedInv'
  BY DEF AlignedInv
<1> DEFINE Aligned == /\ \A t \in Tenant : OwnPort(t, unit[t]) /\ OwnPort(t, gate[t])
                      /\ \A p \in Path : /\ OwnPort(fragment[p].of, fragment[p].gate)
                                         /\ OwnPort(caddy[p].of, caddy[p].gate)
<1>1. ASSUME Declared' = Declared, NEW t \in Tenant \cup {0}, NEW port, OwnPort(t, port), t = 0 => port = 0
      PROVE  OwnPort(t, port)'
  <2>1. CASE t \in Tenant
    BY <1>1, <2>1, SamePorts DEF OwnPort
  <2>2. CASE t = 0
    BY <1>1, <2>2 DEF OwnPort
  <2> QED BY <2>1, <2>2
<1>2. ASSUME Declared' = Declared, UNCHANGED edge, Aligned PROVE AlignedInv'
  <2>1. \A p \in Path : /\ fragment[p] \in Vhost \cup {NoFile} /\ caddy[p] \in Vhost \cup {NoFile}
    BY DEF TypeOK
  <2>2. \A v \in Vhost \cup {NoFile} : v.of \in Tenant \cup {0} /\ (v.of = 0 => v.gate = 0)
    BY NAssumption DEF Vhost, NoFile, Tenant
  <2>3. \A t \in Tenant : t # 0
    BY NAssumption DEF Tenant
  <2>4. \A t \in Tenant : OwnPort(t, unit[t])' /\ OwnPort(t, gate[t])'
    BY <1>1, <1>2, <2>3
  <2>5. \A p \in Path : OwnPort(fragment[p].of, fragment[p].gate)' /\ OwnPort(caddy[p].of, caddy[p].gate)'
    BY <1>1, <1>2, <2>1, <2>2
  <2> QED BY <2>4, <2>5 DEF AlignedInv
<1>3. ASSUME UNCHANGED mode, Aligned PROVE AlignedInv'
  <2>1. Declared' = Declared /\ \A t \in Tenant : webSSOPort(t)' = webSSOPort(t)
    BY <1>3, SameWorkspace
  <2>2. ASSUME NEW t \in Tenant PROVE OwnPort(t, unit'[t]) /\ OwnPort(t, gate'[t])
    <3>1. WebSSO(t) => OwnPort(t, webSSOPort(t))
      BY DEF WebSSO, OwnPort, Declared
    <3>2. OwnPort(t, 0)
      BY DEF OwnPort
    <3> QED BY <1>3, <3>1, <3>2, PortFrame
  <2>3. ASSUME NEW p \in Path PROVE OwnPort(fragment'[p].of, fragment'[p].gate)
    <3>1. OwnPort(NoFile.of, NoFile.gate)
      BY DEF NoFile, OwnPort
    <3>2. CASE fragment'[p] = fragment[p] \/ fragment'[p] = NoFile
      BY <1>3, <3>1, <3>2
    <3>3. ASSUME NEW u \in Tenant, fragment'[p] = webFragment(u)
          PROVE  OwnPort(fragment'[p].of, fragment'[p].gate)
      BY <3>3, OwnFragment
    <3> QED BY <3>2, <3>3, FragmentFrame
  <2>4. ASSUME NEW p \in Path PROVE OwnPort(caddy'[p].of, caddy'[p].gate)
    BY <1>3, CaddyFrame
  <2>5. ASSUME NEW t \in Tenant, NEW port, OwnPort(t, port) PROVE OwnPort(t, port)'
    BY <2>1, <2>5 DEF OwnPort
  <2>6. TypeOK'
    BY TypeStep
  <2>7. \A p \in Path : fragment'[p] \in Vhost \cup {NoFile} /\ caddy'[p] \in Vhost \cup {NoFile}
    BY <2>6 DEF TypeOK
  <2>8. \A v \in Vhost \cup {NoFile} : v.of \in Tenant \cup {0} /\ (v.of = 0 => v.gate = 0)
    BY NAssumption DEF Vhost, NoFile, Tenant
  <2>9. \A t \in Tenant : OwnPort(t, unit[t])' /\ OwnPort(t, gate[t])'
    BY <2>2, <2>1 DEF OwnPort
  <2>10. ASSUME NEW v \in Vhost \cup {NoFile}, OwnPort(v.of, v.gate)
         PROVE  v.gate # 0 => v.of \in Declared' /\ v.gate = webSSOPort(v.of)'
    BY <2>1, <2>8, <2>10 DEF OwnPort
  <2>11. \A p \in Path : OwnPort(fragment[p].of, fragment[p].gate)' /\ OwnPort(caddy[p].of, caddy[p].gate)'
    BY <2>3, <2>4, <2>7, <2>10 DEF OwnPort
  <2> QED BY <2>9, <2>11 DEF AlignedInv
<1>4. ASSUME NEW t \in Tenant, NEW m \in Mode, Edit(t, m) PROVE AlignedInv'
  <2>1. ~moved /\ mode[t] # "absent" /\ m # "absent"
    BY <1>4 DEF Edit
  <2>2. mode' = [mode EXCEPT ![t] = m] /\ UNCHANGED edge
    BY <1>4 DEF Edit
  <2>3. Declared' = Declared
    BY <2>1, <2>2 DEF Declared, TypeOK
  <2> QED BY <1>2, <2>1, <2>2, <2>3 DEF AlignedInv
<1>5. CASE Finish
  <2>1. UNCHANGED mode /\ pc = "rest"
    BY <1>5 DEF Finish
  <2>2. CASE ~moved
    BY <1>3, <2>1, <2>2 DEF AlignedInv
  <2>3. CASE moved
    <3>1. /\ selected = Declared /\ ~missed /\ owed = NoDebts
          /\ \A t \in Tenant : ~Orphaned(t)
      BY <1>5, <2>3 DEF Finish
    <3>2. Aligned
      BY <2>1, <3>1, AlignedByRun
    <3> QED BY <1>3, <2>1, <3>2
  <2> QED BY <2>2, <2>3
<1>6. CASE UNCHANGED <<mode, moved>>
  BY <1>3, <1>6 DEF AlignedInv
<1>7. \/ UNCHANGED <<mode, moved>>
      \/ Finish
      \/ \E t \in Tenant, m \in Mode : Edit(t, m)
  BY DEF Next, RunStep, Begin, provisionTenantWeb, KeepUnit, WriteUnit, NoGate, TearDown,
      RemoveStale, ListFails, WriteFragment, LoopDone, DaemonReload, Restart, RestartsDone,
      ReloadCaddy, RemoveFails, Abort, Bind, Reboot, CaddyReloads, Fails, Fault
<1> QED BY <1>4, <1>5, <1>6, <1>7

LEMMA IInvInit == Init => IInv
<1> SUFFICES ASSUME Init PROVE IInv
  OBVIOUS
<1>1. mode \in [Tenant -> Mode] /\ Declared = {t \in Tenant : t # 1} /\ \A t \in Declared : WebSSO(t)
  BY DEF Init, Mode, Declared, WebSSO
<1>2. \A t \in Tenant : unit[t] = IF t = 1 THEN 0 ELSE webSSOPort(t)
  BY DEF Init
<1>3. ASSUME NEW p \in Path
      PROVE  \/ fragment[p] = NoFile
             \/ \E t \in Declared : webFragmentPath(t) = p /\ fragment[p] = webFragment(t)
  <2>1. CASE \E t \in Declared : webFragmentPath(t) = p
    <3> DEFINE c == CHOOSE t \in Declared : webFragmentPath(t) = p
    <3>1. c \in Declared /\ webFragmentPath(c) = p
      BY <2>1
    <3>2. fragment[p] = webFragment(c)
      BY <2>1 DEF Init
    <3> QED BY <3>1, <3>2
  <2>2. CASE ~\E t \in Declared : webFragmentPath(t) = p
    BY <2>2 DEF Init
  <2> QED BY <2>1, <2>2
<1>4. fragment = [p \in Path |-> fragment[p]] /\ fragment \in [Path -> Vhost \cup {NoFile}]
  <2>1. \A p \in Path : fragment[p] \in Vhost \cup {NoFile}
    BY <1>3, Vhosts DEF Declared
  <2>2. fragment = [p \in Path |-> fragment[p]]
    BY DEF Init
  <2> QED BY <2>1, <2>2
<1>5. unit \in [Tenant -> Port \cup {0}]
  <2>1. \A t \in Tenant : unit[t] \in Port \cup {0}
    BY <1>2, PortRange
  <2>2. unit = [t \in Tenant |-> unit[t]]
    BY DEF Init
  <2> QED BY <2>1, <2>2
<1>6. bound \subseteq {t \in Tenant : gate[t] # 0}
  BY <1>1, <1>2, PortRange DEF Init
<1>7. TypeOK
  <2>1. {moved, missed} \subseteq BOOLEAN /\ owed \in Debts
    BY DEF Init, NoDebts, Debts
  <2>2. edits \in 0..MaxEdits /\ faults \in 0..MaxFaults
    BY BoundsAssumption DEF Init
  <2>3. /\ pc \in Phase /\ result \in {"none", "ok", "error"}
        /\ selected = {} /\ todo = {} /\ changed = {} /\ restarts = {}
        /\ gate = unit /\ caddy = fragment
    BY DEF Init, Phase
  <2> QED BY <1>1, <1>4, <1>5, <1>6, <2>1, <2>2, <2>3 DEF TypeOK
<1>8. PhaseInv
  BY DEF Init, PhaseInv, Visiting, After
<1>9. BehindInv
  BY DEF Init, BehindInv
<1>10. FileInv
  <2>1. ASSUME NEW p \in Path, fragment[p] # NoFile PROVE p = webFragmentPath(fragment[p].of)
    <3>1. PICK t \in Declared : webFragmentPath(t) = p /\ fragment[p] = webFragment(t)
      BY <1>3, <2>1
    <3>2. webFragment(t).of = t
      BY Vhosts DEF Declared
    <3> QED BY <3>1, <3>2
  <2>2. caddy = fragment
    BY DEF Init
  <2> QED BY <2>1, <2>2 DEF FileInv
<1>11. VisitedInv
  BY DEF Init, VisitedInv, Visiting, After
<1>12. AlignedInv
  <2>1. \A t \in Tenant : OwnPort(t, unit[t])
    BY <1>1, <1>2 DEF OwnPort
  <2>2. ASSUME NEW p \in Path PROVE OwnPort(fragment[p].of, fragment[p].gate)
    <3>1. CASE fragment[p] = NoFile
      BY <3>1 DEF NoFile, OwnPort
    <3>2. ASSUME NEW t \in Declared, fragment[p] = webFragment(t)
          PROVE  OwnPort(fragment[p].of, fragment[p].gate)
      <4>1. t \in Tenant
        BY DEF Declared
      <4> QED BY <3>2, <4>1, OwnFragment
    <3> QED BY <1>3, <3>1, <3>2
  <2>3. gate = unit /\ caddy = fragment
    BY DEF Init
  <2> QED BY <2>1, <2>2, <2>3 DEF AlignedInv
<1> QED BY <1>7, <1>8, <1>9, <1>10, <1>11, <1>12 DEF IInv

LEMMA IInvStutter == IInv /\ UNCHANGED vars => IInv'
<1> SUFFICES ASSUME IInv, UNCHANGED vars PROVE IInv'
  OBVIOUS
<1>1. /\ UNCHANGED mode /\ UNCHANGED edge /\ UNCHANGED job /\ UNCHANGED hist
      /\ UNCHANGED <<result, edits, faults>>
  BY DEF vars
<1>2. TypeOK'
  BY <1>1 DEF IInv, TypeOK
<1>3. PhaseInv' /\ BehindInv' /\ FileInv'
  BY <1>1 DEF IInv, PhaseInv, BehindInv, FileInv, Declared
<1>4. VisitedInv'
  BY <1>1 DEF IInv, VisitedInv, UnitDone, VhostDone, WebSSO, HasEndpoint, webSSOPort,
      webFragment,
      Declared, Globbed, Turn
<1>5. AlignedInv'
  BY <1>1 DEF IInv, AlignedInv, OwnPort, webSSOPort, Declared
<1> QED BY <1>2, <1>3, <1>4, <1>5 DEF IInv

LEMMA IInvStep == IInv /\ [Next]_vars => IInv'
<1>1. IInv /\ Next => IInv'
  BY TypeStep, PhaseStep, BehindStep, FileStep, VisitedStep, AlignedStep DEF IInv
<1> QED BY <1>1, IInvStutter

----------------------------------------------------------------------------
(***************************************************************************)
(* The theorems.                                                           *)
(***************************************************************************)

\* The inductive invariant holds in every state of every behaviour.
THEOREM Inductive == Spec => []IInv
BY IInvInit, IInvStep, PTL DEF Spec

\* Ports stay within the range set aside for the gates, whatever tenants come and go, and
\* a gate holds one only while its unit runs.
THEOREM TypeCorrect == Spec => []TypeOK
<1>1. IInv => TypeOK
  BY DEF IInv
<1> QED BY <1>1, Inductive, PTL

\* A tenant apply that returned no error has each endpoint it was asked for in Caddy, and
\* a gate that runs from the port the vhost names (provisionTenantWeb): what the loop has
\* written stays until Caddy is reloaded, except for the files a later tenant takes for
\* its own.
THEOREM Served == Spec => []OkMeansServed
<1>1. ASSUME IInv, result = "ok", NEW t \in selected
      PROVE  /\ (HasEndpoint(t) /\ ~Globbed(t, selected)) => caddy[webFragmentPath(t)] = webFragment(t)
             /\ (WebSSO(t) /\ t \notin owed.gates) => gate[t] = webSSOPort(t)
  <2>1. t \in Tenant /\ todo = {} /\ pc = "idle"
    BY <1>1 DEF IInv, TypeOK, PhaseInv
  <2>2. (HasEndpoint(t) /\ ~Globbed(t, selected)) => caddy[webFragmentPath(t)] = webFragment(t)
    BY <1>1 DEF IInv, VisitedInv
  <2>3. UnitDone(t)
    BY <1>1, <2>1 DEF IInv, VisitedInv
  <2>4. t \notin owed.gates => gate[t] = unit[t]
    BY <1>1, <2>1 DEF IInv, BehindInv
  <2> QED BY <2>2, <2>3, <2>4 DEF UnitDone
<1>2. IInv => OkMeansServed
  BY <1>1 DEF OkMeansServed
<1> QED BY <1>2, Inductive, PTL

\* Between runs a gate runs from its unit file and Caddy from its directory, unless a run
\* was cut off before it got to them (the restarts and the reload after the loop).
THEOREM Behind == Spec => []BehindOnlyAfterFailure
<1>1. IInv => BehindOnlyAfterFailure
  BY DEF IInv, BehindInv, BehindOnlyAfterFailure
<1> QED BY <1>1, Inductive, PTL

\* Between runs the gate behind a vhost is the one of the vhost's tenant, unless a tenant
\* came or went since all were applied: the ports webSSOPort counts are all different.
THEOREM ForeignGate == Spec => []ForeignGateOnlyAfterMove
<1>1. ASSUME IInv, ~moved, NEW p \in Path, NEW u \in bound, caddy[p].gate # 0, gate[u] = caddy[p].gate
      PROVE  caddy[p].of = u
  <2>1. u \in Tenant
    BY <1>1 DEF IInv, TypeOK
  <2>2. OwnPort(u, gate[u]) /\ OwnPort(caddy[p].of, caddy[p].gate)
    BY <1>1, <2>1 DEF IInv, AlignedInv
  <2>3. /\ u \in Declared /\ caddy[p].of \in Declared
        /\ webSSOPort(u) = webSSOPort(caddy[p].of)
    BY <1>1, <2>2 DEF OwnPort
  <2> QED BY <2>3, PortsDiffer
<1>2. IInv => ForeignGateOnlyAfterMove
  BY <1>1 DEF ForeignGateOnlyAfterMove
<1> QED BY <1>2, Inductive, PTL
=============================================================================
