------------------------- MODULE StackDeployProofs -------------------------
(***************************************************************************)
(* Proofs about StackDeploy, for every stack: any set of units, config     *)
(* files, Caddy fragments and secrets, in any order, and any number of     *)
(* edits and faults.                                                       *)
(***************************************************************************)
EXTENDS StackDeployRefinement, TLAPS

USE DEF given, files, procs, flags, aux

----------------------------------------------------------------------------
(***************************************************************************)
(* Facts about the constants and the operators.                            *)
(***************************************************************************)

\* Every position of the loops is a file or a secret of the stack.
LEMMA Positions ==
    /\ \A k \in 1..Len(Paths) : Paths[k] \in File
    /\ \A k \in 1..Len(Leaves) : Leaves[k] \in Secret
    /\ Len(Paths) \in Nat
    /\ Len(Leaves) \in Nat
BY PathsAssumption, LeavesAssumption DEF Secret

\* A unit that starts from a definition systemd has reads a Loaded record.
LEMMA ReadsType ==
    ASSUME TypeOK, NEW c \in Content
    PROVE  Reads(c) \in Loaded
BY DEF TypeOK, Reads, Loaded, File

\* Storing a file keeps both disks well typed.
LEMMA StoreType ==
    ASSUME TypeOK, NEW f \in File, NEW c \in Content, Store(f, c)
    PROVE  disk' \in [File -> Content] /\ edgeDisk' \in [Fragments -> Content]
BY DEF TypeOK, Store, ToEdge

\* A fault counts up.
LEMMA FaultType == ASSUME TypeOK, Fault PROVE faults' \in Nat
BY DEF TypeOK, Fault

\* A run that fails leaves a well-typed state of its own variables.
LEMMA FailsType ==
    ASSUME TypeOK, Fails
    PROVE  /\ pc' \in Phase /\ i' \in Nat \ {0} /\ noop' \in BOOLEAN
           /\ edgeConn' \in BOOLEAN /\ quadletChanged' \in BOOLEAN
           /\ edgeFragmentChanged' \in BOOLEAN
           /\ result' \in {"none", "ok", "error"}
BY DEF TypeOK, Fails, Phase

\* Entering a run resets its variables and touches nothing else.
LEMMA EnterFrame ==
    ASSUME onEdge \in BOOLEAN, Begin \/ BeginWithoutEdge
    PROVE  /\ pc = "idle" /\ pc' = "push" /\ i' = 1 /\ result' = "none"
           /\ edgeConn' \in BOOLEAN /\ (onEdge => ~edgeConn')
           /\ ~quadletChanged' /\ ~edgeFragmentChanged'
           /\ quadletChanged' \in BOOLEAN /\ edgeFragmentChanged' \in BOOLEAN
           /\ noop' \in BOOLEAN
           /\ UNCHANGED <<onEdge, desired, wanted, edits, disk, edgeDisk, podman, marker,
                          systemd, up, run, caddy, tainted>>
BY Zenon DEF Begin, BeginWithoutEdge, Enter

\* What a run owes when it is cut off is a set of history tags.
LEMMA OwedType == Owed \subseteq {"units", "caddy"}
BY DEF Owed

----------------------------------------------------------------------------
(***************************************************************************)
(* Type correctness.                                                       *)
(***************************************************************************)

\* Every initial state is well typed.
LEMMA TypeInit == Init => TypeOK
<1> SUFFICES ASSUME Init PROVE TypeOK
  OBVIOUS
<1>1. [unit |-> None, config |-> [f \in Configs |-> None],
       secret |-> [s \in Secret |-> None]] \in Loaded
  BY DEF Loaded, Content, Desired
<1>2. desired \in [File -> Desired] /\ wanted \in [Secret -> Version]
  BY DEF Init, Desired
<1>3. run \in [Quadlets -> Loaded]
  BY <1>1 DEF Init
<1>4. /\ disk \in [File -> Content]
      /\ edgeDisk \in [Fragments -> Content]
      /\ podman \in [Secret -> Desired]
      /\ systemd \in [Quadlets -> Content]
      /\ caddy \in [Fragments -> Content]
  BY DEF Init, Content, Desired
<1>5. up \subseteq Quadlets /\ tainted \subseteq {"units", "caddy"}
  BY DEF Init
<1>6. /\ pc \in Phase /\ i \in Nat \ {0} /\ result \in {"none", "ok", "error"}
      /\ edits \in Nat /\ faults \in Nat
  BY DEF Init, Phase
<1>7. /\ onEdge \in BOOLEAN /\ marker \in BOOLEAN /\ edgeConn \in BOOLEAN
      /\ quadletChanged \in BOOLEAN /\ edgeFragmentChanged \in BOOLEAN
      /\ noop \in BOOLEAN
  BY Zenon DEF Init
<1> QED BY <1>2, <1>3, <1>4, <1>5, <1>6, <1>7 DEF TypeOK

\* Every step of the operator, the fleet or a run keeps the types.
LEMMA TypeStep == TypeOK /\ [Next]_vars => TypeOK'
<1> SUFFICES ASSUME TypeOK, [Next]_vars PROVE TypeOK'
  OBVIOUS
<1> USE DEF TypeOK, Phase
<1>1. CASE Edit
  BY <1>1 DEF Edit
<1>2. CASE Reboot
  <2>1. run' \in [Quadlets -> Loaded]
    BY <1>2, ReadsType DEF Reboot, Content, File
  <2>2. CaddyDir \in [Fragments -> Content]
    BY DEF CaddyDir, File
  <2>3. tainted' \subseteq {"units", "caddy"}
    BY <1>2, OwedType DEF Reboot
  <2>4. systemd' \in [Quadlets -> Content] /\ up' \subseteq Quadlets
    BY <1>2 DEF Reboot, File
  <2> QED BY <1>2, <2>1, <2>2, <2>3, <2>4, FaultType DEF Reboot
<1>3. CASE CaddyReloads
  <2>1. CaddyDir \in [Fragments -> Content]
    BY DEF CaddyDir, File
  <2> QED BY <1>3, <2>1 DEF CaddyReloads
<1>4. CASE Begin \/ BeginWithoutEdge
  <2>1. faults' \in Nat
    BY <1>4, FaultType DEF Begin, BeginWithoutEdge
  <2>2. Begin \/ BeginWithoutEdge
    BY <1>4
  <2>3. /\ edgeConn' \in BOOLEAN /\ noop' \in BOOLEAN
        /\ quadletChanged' \in BOOLEAN /\ edgeFragmentChanged' \in BOOLEAN
    BY <2>2, EnterFrame
  <2>4. /\ pc' = "push" /\ i' = 1 /\ result' = "none"
        /\ UNCHANGED <<given, files, procs, tainted>>
    BY <2>2, EnterFrame
  <2> QED BY <2>1, <2>3, <2>4
<1>6. CASE pushSecrets
  <2>1. Leaves[i] \in Secret
    BY <1>6, Positions DEF pushSecrets, InLoop
  <2> QED BY <1>6, <2>1 DEF pushSecrets, InLoop, Desired
<1>7. CASE SecretsPushed \/ FilesWritten \/ UnitsRestarted \/ UnitsStarted
  <2>1. ASSUME NEW from, NEW to \in Phase, NEW seq, Advance(from, to, seq) PROVE TypeOK'
    BY <2>1 DEF Advance
  <2> QED BY <1>7, <2>1 DEF SecretsPushed, FilesWritten, UnitsRestarted, UnitsStarted
<1>8. CASE SkipFile \/ SkipUnit
  <2>1. CASE SkipFile
    BY <2>1 DEF SkipFile
  <2>2. CASE SkipUnit
    BY <2>2 DEF SkipUnit
  <2> QED BY <1>8, <2>1, <2>2
<1>9. CASE WriteFileSudo \/ ProbeFails
  <2>1. Upload
    BY <1>9 DEF WriteFileSudo, ProbeFails
  <2>2. Paths[i] \in File
    BY <2>1, Positions DEF Upload, InLoop
  <2>3. disk' \in [File -> Content] /\ edgeDisk' \in [Fragments -> Content]
    BY <2>1, <2>2, StoreType DEF Upload, Desired, Content
  <2>4. quadletChanged' \in BOOLEAN /\ edgeFragmentChanged' \in BOOLEAN
    BY <2>1, Zenon DEF Upload, FlagQuadlet, ToEdge
  <2>5. faults' \in Nat /\ noop' \in BOOLEAN
    BY <1>9, FaultType DEF WriteFileSudo, ProbeFails
  <2> QED BY <2>1, <2>3, <2>4, <2>5 DEF Upload
<1>10. CASE UploadTorn
  <2>1. Paths[i] \in File
    BY <1>10, Positions DEF UploadTorn, InLoop
  <2>2. disk' \in [File -> Content] /\ edgeDisk' \in [Fragments -> Content]
    BY <1>10, <2>1, StoreType DEF UploadTorn, Content
  <2>3. tainted' \subseteq {"units", "caddy"}
    BY <1>10, OwedType DEF UploadTorn
  <2> QED BY <1>10, <2>2, <2>3, FaultType, FailsType DEF UploadTorn
<1>11. CASE ReloadEdge
  BY <1>11 DEF ReloadEdge, ReloadCaddy, UnitPhase
<1>12. CASE DaemonReload
  BY <1>12 DEF DaemonReload, Generated, File
<1>13. ASSUME NEW q \in Quadlets, Launch(q) PROVE TypeOK'
  <2>1. Reads(systemd[q]) \in Loaded
    BY ReadsType
  <2> QED BY <1>13, <2>1 DEF Launch
<1>14. CASE RestartUnit
  BY <1>14, <1>13 DEF RestartUnit, AtUnit
<1>15. CASE StartUnit
  <2>1. CASE Paths[i] \in up
    <3>1. i' = i + 1 /\ UNCHANGED <<given, files, procs, flags, aux, pc, result>>
      BY <1>15, <2>1, Zenon DEF StartUnit
    <3> QED BY <3>1
  <2>2. CASE Paths[i] \notin up
    BY <1>15, <2>2, <1>13 DEF StartUnit, AtUnit
  <2> QED BY <2>1, <2>2
<1>16. CASE RestartFails
  BY <1>16, OwedType, FaultType, FailsType DEF RestartFails
<1>17. CASE StartUnknownUnit \/ HealthCheckFails
  BY <1>17 DEF StartUnknownUnit, HealthCheckFails, Fails
<1>18. CASE runHooks
  <2>1. CaddyDir \in [Fragments -> Content]
    BY DEF CaddyDir, File
  <2> QED BY <1>18, <2>1 DEF runHooks
<1>19. CASE runHealthCheck
  BY <1>19 DEF runHealthCheck
<1>20. CASE WriteMarker
  BY <1>20 DEF WriteMarker
<1>21. CASE Abort
  BY <1>21, OwedType, FaultType, FailsType DEF Abort
<1>22. CASE UNCHANGED vars
  BY <1>22 DEF vars
<1> QED BY <1>1, <1>2, <1>3, <1>4, <1>6, <1>7, <1>8, <1>9, <1>10, <1>11,
           <1>12, <1>14, <1>15, <1>16, <1>17, <1>18, <1>19, <1>20, <1>21, <1>22
        DEF Next, RunStep

\* DeployStack keeps the fleet and its own state well formed.
THEOREM TypeCorrect == Spec => []TypeOK
BY TypeInit, TypeStep, PTL DEF Spec

----------------------------------------------------------------------------
(***************************************************************************)
(* The inductive invariant.  Each part says what the phases of a run have  *)
(* established by the time the run is in a phase, or has returned "ok".    *)
(***************************************************************************)

\* The run is in one of these phases, or is over and succeeded.
Past(phases) == pc \in phases \/ result = "ok"

\* A unit runs from the definition, the config files and the secrets on disk.
Current(q) == q \in up /\ run[q] = Reads(disk[q])

\* A unit on disk runs from the definition on disk, and systemd knows it.
Settled(q) ==
    disk[q] \in Version => q \in up /\ run[q].unit = disk[q] /\ systemd[q] = disk[q]

ControlInv ==
    /\ pc # "idle" => result = "none"
    /\ pc \in {"reload", "restart"} => quadletChanged
    /\ pc = "start" => ~quadletChanged
    /\ onEdge => ~edgeConn

SecretsInv ==
    /\ pc = "push" => \A k \in 1..Len(Leaves) : k < i => podman[Leaves[k]] = wanted[Leaves[k]]
    /\ Past(Phase \ {"idle", "push"}) => podman = wanted

FilesInv ==
    /\ pc = "write" => \A k \in 1..Len(Paths) : k < i => UpToDate(Paths[k])
    /\ Past(Phase \ {"idle", "push", "write"}) => \A f \in File : UpToDate(f)

RestartInv ==
    /\ pc = "restart" =>
         /\ \A q \in Quadlets : systemd[q] = disk[q]
         /\ \A k \in 1..Len(Paths) :
               (k < i /\ Paths[k] \in Quadlets /\ Rendered(Paths[k])) => Current(Paths[k])
    /\ (Past({"hooks", "health", "marker"}) /\ quadletChanged) =>
         \A q \in Quadlets : Rendered(q) => Current(q)

\* The units owe nothing to history: each is settled, unless this very run
\* has still to restart it.
UnitsInv ==
    "units" \notin tainted =>
        \A q \in Quadlets :
            \/ Settled(q)
            \/ /\ Rendered(q) /\ quadletChanged
               /\ pc \in {"write", "edge", "reload", "restart"}

CaddyInv ==
    /\ (~onEdge /\ "caddy" \notin tainted) =>
         caddy = edgeDisk \/ (pc \in {"write", "edge"} /\ edgeFragmentChanged)
    /\ (onEdge /\ ReloadHook /\ Past({"health", "marker"})) => caddy = CaddyDir

NoopInv ==
    noop => /\ pc # "idle" /\ ~quadletChanged
            /\ \A f \in File : UpToDate(f)

IInv == /\ TypeOK /\ ControlInv /\ SecretsInv /\ FilesInv
        /\ RestartInv /\ UnitsInv /\ CaddyInv /\ NoopInv

----------------------------------------------------------------------------
(***************************************************************************)
(* The steps that preserve the invariant, part by part.                    *)
(***************************************************************************)

\* The actions of a run that leave every file, secret and unit alone, grouped
\* by what the proofs below need of them.
LEMMA NextCases ==
    ASSUME Next
    PROVE  \/ Edit \/ Reboot \/ CaddyReloads
           \/ Begin \/ BeginWithoutEdge
           \/ pushSecrets \/ SecretsPushed \/ SkipFile \/ FilesWritten
           \/ WriteFileSudo \/ ProbeFails \/ UploadTorn
           \/ ReloadEdge \/ DaemonReload
           \/ SkipUnit \/ RestartUnit \/ StartUnit \/ UnitsRestarted \/ UnitsStarted
           \/ RestartFails \/ StartUnknownUnit \/ HealthCheckFails \/ Abort
           \/ runHooks \/ runHealthCheck \/ WriteMarker
BY DEF Next, RunStep

\* The flags of a run agree with the place it is in, after every step.
LEMMA ControlStep == ASSUME IInv, Next PROVE ControlInv'
<1> USE DEF IInv, TypeOK, ControlInv
<1>1. CASE Edit
  BY <1>1 DEF Edit
<1>2. CASE Reboot
  BY <1>2 DEF Reboot
<1>3. CASE CaddyReloads
  BY <1>3 DEF CaddyReloads
<1>4. CASE Begin \/ BeginWithoutEdge
  BY <1>4, EnterFrame
<1>5. CASE pushSecrets
  BY <1>5 DEF pushSecrets, InLoop
<1>6. CASE SecretsPushed \/ FilesWritten
  BY <1>6 DEF SecretsPushed, FilesWritten, Advance
<1>7. CASE UnitsRestarted \/ UnitsStarted
  BY <1>7 DEF UnitsRestarted, UnitsStarted, Advance
<1>8. CASE SkipFile
  BY <1>8 DEF SkipFile, InLoop
<1>9. CASE WriteFileSudo \/ ProbeFails
  BY <1>9 DEF WriteFileSudo, ProbeFails, Upload, InLoop
<1>10. CASE UploadTorn
  BY <1>10 DEF UploadTorn, Fails
<1>11. CASE ReloadEdge
  BY <1>11 DEF ReloadEdge, UnitPhase
<1>12. CASE DaemonReload
  BY <1>12 DEF DaemonReload
<1>13. CASE SkipUnit
  BY <1>13 DEF SkipUnit
<1>14. CASE RestartUnit
  BY <1>14 DEF RestartUnit, Launch
<1>15. CASE StartUnit
  <2>1. UNCHANGED <<pc, result, onEdge, edgeConn, quadletChanged>>
    BY <1>15 DEF StartUnit, Launch
  <2> QED BY <2>1
<1>16. CASE RestartFails \/ StartUnknownUnit \/ HealthCheckFails \/ Abort
  BY <1>16 DEF RestartFails, StartUnknownUnit, HealthCheckFails, Abort, Fails
<1>17. CASE runHooks \/ runHealthCheck \/ WriteMarker
  BY <1>17 DEF runHooks, runHealthCheck, WriteMarker
<1> QED BY NextCases, <1>1, <1>2, <1>3, <1>4, <1>5, <1>6, <1>7, <1>8, <1>9, <1>10,
           <1>11, <1>12, <1>13, <1>14, <1>15, <1>16, <1>17

\* The secrets a run has passed are in podman, after every step.
LEMMA SecretsStep == ASSUME IInv, Next PROVE SecretsInv'
<1> USE DEF IInv, TypeOK, ControlInv, SecretsInv, Past, Phase
<1>1. CASE Edit
  BY <1>1 DEF Edit
<1>2. CASE Reboot
  BY <1>2 DEF Reboot
<1>3. CASE CaddyReloads
  BY <1>3 DEF CaddyReloads
<1>4. CASE Begin \/ BeginWithoutEdge
  BY <1>4, EnterFrame, Positions
<1>5. CASE pushSecrets
  <2>1. /\ pc' = "push" /\ result' # "ok" /\ i' = i + 1 /\ UNCHANGED wanted
        /\ podman' = [podman EXCEPT ![Leaves[i]] = wanted[Leaves[i]]]
    BY <1>5 DEF pushSecrets, InLoop
  <2>2. \A k \in 1..Len(Leaves) : k < i' => podman'[Leaves[k]] = wanted'[Leaves[k]]
    BY <1>5, <2>1, Positions DEF pushSecrets, InLoop
  <2> QED BY <2>1, <2>2
<1>6. CASE SecretsPushed
  <2>1. \A s \in Secret : podman[s] = wanted[s]
    BY <1>6, Positions DEF SecretsPushed, Advance, Secret
  <2>2. podman = wanted
    BY <2>1
  <2> QED BY <1>6, <2>2 DEF SecretsPushed, Advance
<1>7. CASE FilesWritten \/ UnitsRestarted \/ UnitsStarted
  BY <1>7 DEF FilesWritten, UnitsRestarted, UnitsStarted, Advance
<1>8. CASE SkipFile
  BY <1>8 DEF SkipFile, InLoop
<1>9. CASE WriteFileSudo \/ ProbeFails
  BY <1>9 DEF WriteFileSudo, ProbeFails, Upload, InLoop
<1>10. CASE UploadTorn
  BY <1>10 DEF UploadTorn, Fails
<1>11. CASE ReloadEdge
  BY <1>11 DEF ReloadEdge, UnitPhase
<1>12. CASE DaemonReload
  BY <1>12 DEF DaemonReload
<1>13. CASE SkipUnit
  BY <1>13 DEF SkipUnit, InLoop
<1>14. CASE RestartUnit
  BY <1>14 DEF RestartUnit, Launch, InLoop
<1>15. CASE StartUnit
  <2>1. pc = "start" /\ UNCHANGED <<pc, result, podman, wanted>>
    BY <1>15 DEF StartUnit, Launch, InLoop
  <2> QED BY <2>1
<1>16. CASE RestartFails \/ StartUnknownUnit \/ HealthCheckFails \/ Abort
  BY <1>16 DEF RestartFails, StartUnknownUnit, HealthCheckFails, Abort, Fails
<1>17. CASE runHooks \/ runHealthCheck \/ WriteMarker
  BY <1>17 DEF runHooks, runHealthCheck, WriteMarker
<1> QED BY NextCases, <1>1, <1>2, <1>3, <1>4, <1>5, <1>6, <1>7, <1>8, <1>9, <1>10,
           <1>11, <1>12, <1>13, <1>14, <1>15, <1>16, <1>17

\* Storing the rendered content of f makes f current and no other file worse.
LEMMA StoreDelivers ==
    ASSUME TypeOK, NEW f \in File, Store(f, desired[f]), UNCHANGED <<desired, edgeConn>>
    PROVE  /\ UpToDate(f)'
           /\ \A g \in File : UpToDate(g) => UpToDate(g)'
BY DEF TypeOK, Store, UpToDate, Rendered, remoteMatches, Remote, ToEdge

\* A file stays as current as it was while the disks and the workspace do.
LEMMA UpToDateFrame ==
    ASSUME UNCHANGED <<desired, edgeConn, disk, edgeDisk>>
    PROVE  \A f : UpToDate(f)' <=> UpToDate(f)
BY DEF UpToDate, Rendered, remoteMatches, Remote, ToEdge

\* The files a run has passed are where it puts them, after every step.
LEMMA FilesStep == ASSUME IInv, Next PROVE FilesInv'
<1> USE DEF IInv, TypeOK, ControlInv, FilesInv, Past, Phase
<1>1. CASE Edit
  BY <1>1 DEF Edit
<1>2. CASE Reboot
  BY <1>2, UpToDateFrame DEF Reboot
<1>3. CASE CaddyReloads
  BY <1>3, UpToDateFrame DEF CaddyReloads
<1>4. CASE Begin \/ BeginWithoutEdge
  BY <1>4, EnterFrame
<1>5. CASE pushSecrets
  BY <1>5 DEF pushSecrets, InLoop
<1>6. CASE SecretsPushed
  BY <1>6, Positions DEF SecretsPushed, Advance
<1>7. CASE FilesWritten
  <2>1. \A f \in File : UpToDate(f)
    BY <1>7, Positions, PathsAssumption DEF FilesWritten, Advance
  <2> QED BY <1>7, <2>1, UpToDateFrame DEF FilesWritten, Advance
<1>8. CASE UnitsRestarted \/ UnitsStarted
  BY <1>8, UpToDateFrame DEF UnitsRestarted, UnitsStarted, Advance
<1>9. CASE SkipFile
  <2>1. pc' = "write" /\ result' # "ok" /\ i' = i + 1
    BY <1>9 DEF SkipFile, InLoop
  <2>2. \A k \in 1..Len(Paths) : k < i' => UpToDate(Paths[k])
    BY <1>9, <2>1, Positions DEF SkipFile, InLoop
  <2> QED BY <1>9, <2>1, <2>2, UpToDateFrame DEF SkipFile
<1>10. CASE WriteFileSudo \/ ProbeFails
  <2>1. Upload
    BY <1>10 DEF WriteFileSudo, ProbeFails
  <2>2. /\ pc = "write" /\ pc' = "write" /\ result' # "ok" /\ i' = i + 1
        /\ i \in 1..Len(Paths) /\ Paths[i] \in File
    BY <2>1, Positions DEF Upload, InLoop
  <2>3. PICK f \in File : f = Paths[i]
    BY <2>2
  <2>4. Store(f, desired[f]) /\ UNCHANGED <<desired, edgeConn>>
    BY <2>1, <2>3 DEF Upload
  <2>5. UpToDate(f)' /\ \A g \in File : UpToDate(g) => UpToDate(g)'
    BY <2>4, StoreDelivers
  <2>6. ASSUME NEW k \in 1..Len(Paths), k < i' PROVE UpToDate(Paths[k])'
    <3>1. CASE k = i
      BY <2>3, <2>5, <3>1
    <3>2. CASE k # i
      <4>1. UpToDate(Paths[k])
        BY <2>2, <2>6, <3>2, Positions
      <4> QED BY <2>5, <4>1, Positions
    <3> QED BY <3>1, <3>2
  <2> QED BY <2>2, <2>6
<1>11. CASE UploadTorn
  BY <1>11 DEF UploadTorn, Fails
<1>12. CASE ReloadEdge
  BY <1>12, UpToDateFrame DEF ReloadEdge, UnitPhase
<1>13. CASE DaemonReload
  BY <1>13, UpToDateFrame DEF DaemonReload
<1>14. CASE SkipUnit
  BY <1>14, UpToDateFrame DEF SkipUnit, InLoop
<1>15. CASE RestartUnit
  BY <1>15, UpToDateFrame DEF RestartUnit, Launch, InLoop
<1>16. CASE StartUnit
  <2>1. pc = "start" /\ UNCHANGED <<pc, result, desired, edgeConn, disk, edgeDisk>>
    BY <1>16 DEF StartUnit, Launch, InLoop
  <2> QED BY <2>1, UpToDateFrame
<1>17. CASE RestartFails \/ StartUnknownUnit \/ HealthCheckFails \/ Abort
  BY <1>17 DEF RestartFails, StartUnknownUnit, HealthCheckFails, Abort, Fails
<1>18. CASE runHooks
  BY <1>18, UpToDateFrame DEF runHooks
<1>19. CASE runHealthCheck \/ WriteMarker
  BY <1>19, UpToDateFrame DEF runHealthCheck, WriteMarker
<1> QED BY NextCases, <1>1, <1>2, <1>3, <1>4, <1>5, <1>6, <1>7, <1>8, <1>9, <1>10,
           <1>11, <1>12, <1>13, <1>14, <1>15, <1>16, <1>17, <1>18, <1>19

\* A unit stays current, and settled, while nothing it reads changes.
LEMMA CurrentFrame ==
    ASSUME UNCHANGED <<disk, podman, up, run>>
    PROVE  \A q : Current(q)' <=> Current(q)
BY DEF Current, Reads

\* A unit stays settled while its definition and its process do.
LEMMA SettledFrame ==
    ASSUME TypeOK, UNCHANGED <<systemd, up, run>>,
           \A q \in Quadlets : disk'[q] = disk[q]
    PROVE  \A q \in Quadlets : Settled(q)' <=> Settled(q)
BY DEF Settled, TypeOK

\* Starting a unit makes it current with respect to systemd's definition, and
\* changes no other unit.
LEMMA LaunchFrame ==
    ASSUME TypeOK, NEW q \in Quadlets, Launch(q)
    PROVE  /\ systemd[q] = disk[q] => Current(q)'
           /\ \A r \in Quadlets : Current(r) /\ systemd[r] = disk[r] => Current(r)'
           /\ \A r \in Quadlets \ {q} : Settled(r)' <=> Settled(r)
           /\ systemd[q] = disk[q] => Settled(q)'
           /\ disk[q] \notin Version => Settled(q)'
           /\ i' = i + 1
           /\ UNCHANGED <<pc, result, desired, onEdge, edgeConn, disk, edgeDisk, podman,
                          systemd, caddy, quadletChanged, edgeFragmentChanged, tainted, noop>>
<1> USE DEF TypeOK, Launch
<1>1. Reads(systemd[q])' = Reads(systemd[q]) /\ Reads(disk[q])' = Reads(disk[q])
  BY DEF Reads
<1>2. run'[q] = Reads(systemd[q]) /\ q \in up'
  OBVIOUS
<1>3. \A r \in Quadlets \ {q} : run'[r] = run[r] /\ (r \in up' <=> r \in up)
  OBVIOUS
<1>4. systemd[q] = disk[q] => Current(q)'
  BY <1>1, <1>2 DEF Current
<1>5. \A r \in Quadlets \ {q} : Current(r)' <=> Current(r)
  BY <1>3 DEF Current, Reads
<1>6. \A r \in Quadlets \ {q} : Settled(r)' <=> Settled(r)
  BY <1>3 DEF Settled
<1>7. systemd[q] = disk[q] => Settled(q)'
  BY <1>2 DEF Settled, Reads
<1>8. disk[q] \notin Version => Settled(q)'
  BY DEF Settled
<1> QED BY <1>4, <1>5, <1>6, <1>7, <1>8

\* The units a restarting run has passed are current, after every step.
LEMMA RestartStep == ASSUME IInv, Next PROVE RestartInv'
<1> USE DEF IInv, TypeOK, ControlInv, RestartInv, Past, Phase, Rendered
<1>1. CASE Edit
  BY <1>1 DEF Edit
<1>2. CASE Reboot
  <2>1. pc' = "idle" /\ UNCHANGED <<disk, podman, desired, quadletChanged>>
    BY <1>2 DEF Reboot
  <2>2. ASSUME result' = "ok", quadletChanged, NEW q \in Quadlets, Rendered(q)
        PROVE  Current(q)'
    <3>1. result = "ok"
      BY <1>2, <2>2 DEF Reboot
    <3>2. disk[q] = desired[q]
      BY <2>2, <3>1, FilesAssumption
         DEF FilesInv, UpToDate, remoteMatches, Remote, ToEdge, File
    <3>3. disk[q] \in Version
      BY <2>2, <3>2 DEF File, Desired
    <3> QED BY <1>2, <3>3 DEF Reboot, Current, Reads
  <2> QED BY <2>1, <2>2
<1>3. CASE CaddyReloads
  BY <1>3, CurrentFrame DEF CaddyReloads
<1>4. CASE Begin \/ BeginWithoutEdge
  BY <1>4, EnterFrame
<1>5. CASE pushSecrets
  BY <1>5 DEF pushSecrets, InLoop
<1>6. CASE SecretsPushed \/ FilesWritten
  BY <1>6 DEF SecretsPushed, FilesWritten, Advance
<1>7. CASE UnitsRestarted
  <2>1. \A q \in Quadlets : Rendered(q) => Current(q)
    BY <1>7, Positions, PathsAssumption DEF UnitsRestarted, Advance, File
  <2>2. pc' = "hooks" /\ UNCHANGED <<disk, podman, up, run, desired, quadletChanged>>
    BY <1>7 DEF UnitsRestarted, Advance
  <2> QED BY <2>1, <2>2, CurrentFrame
<1>8. CASE UnitsStarted
  BY <1>8 DEF UnitsStarted, Advance
<1>9. CASE SkipFile
  BY <1>9 DEF SkipFile, InLoop
<1>10. CASE WriteFileSudo \/ ProbeFails
  BY <1>10 DEF WriteFileSudo, ProbeFails, Upload, InLoop
<1>11. CASE UploadTorn
  BY <1>11 DEF UploadTorn, Fails
<1>12. CASE ReloadEdge
  BY <1>12 DEF ReloadEdge, UnitPhase
<1>13. CASE DaemonReload
  BY <1>13, Positions DEF DaemonReload, Generated
<1>14. CASE SkipUnit
  <2>1. /\ pc' = pc /\ pc \in {"restart", "start"} /\ i' = i + 1
        /\ result' # "ok" /\ UNCHANGED <<disk, podman, up, run, systemd, desired>>
        /\ ~(Paths[i] \in Quadlets /\ Rendered(Paths[i]))
    BY <1>14 DEF SkipUnit, InLoop, AtUnit
  <2>2. pc = "restart" =>
          \A k \in 1..Len(Paths) :
             (k < i' /\ Paths[k] \in Quadlets /\ Rendered(Paths[k])) => Current(Paths[k])
    BY <2>1, Positions
  <2> QED BY <2>1, <2>2, CurrentFrame
<1>15. CASE RestartUnit
  <2>1. /\ pc = "restart" /\ i \in 1..Len(Paths) /\ Paths[i] \in Quadlets /\ Launch(Paths[i])
    BY <1>15, Positions DEF RestartUnit, InLoop, AtUnit
  <2>2. PICK q \in Quadlets : q = Paths[i]
    BY <2>1
  <2>3. Launch(q)
    BY <2>1, <2>2
  <2>4. /\ Current(q)'
        /\ \A r \in Quadlets : Current(r) => Current(r)'
        /\ i' = i + 1
        /\ UNCHANGED <<pc, result, disk, desired, systemd>>
    BY <2>1, <2>3, LaunchFrame
  <2>5. ASSUME NEW k \in 1..Len(Paths), k < i', Paths[k] \in Quadlets, Rendered(Paths[k])
        PROVE  Current(Paths[k])'
    <3>1. CASE k = i
      BY <2>2, <2>4, <3>1
    <3>2. CASE k # i
      <4>1. Current(Paths[k])
        BY <2>1, <2>4, <2>5, <3>2, Positions
      <4> QED BY <2>4, <2>5, <4>1
    <3> QED BY <3>1, <3>2
  <2> QED BY <2>1, <2>4, <2>5
<1>16. CASE StartUnit
  <2>1. pc = "start" /\ UNCHANGED <<pc, result>>
    BY <1>16 DEF StartUnit, Launch, InLoop
  <2> QED BY <2>1
<1>17. CASE RestartFails \/ StartUnknownUnit \/ HealthCheckFails \/ Abort
  BY <1>17 DEF RestartFails, StartUnknownUnit, HealthCheckFails, Abort, Fails
<1>18. CASE runHooks
  BY <1>18, CurrentFrame DEF runHooks
<1>19. CASE runHealthCheck \/ WriteMarker
  BY <1>19, CurrentFrame DEF runHealthCheck, WriteMarker
<1> QED BY NextCases, <1>1, <1>2, <1>3, <1>4, <1>5, <1>6, <1>7, <1>8, <1>9, <1>10,
           <1>11, <1>12, <1>13, <1>14, <1>15, <1>16, <1>17, <1>18, <1>19

\* A unit that is not settled is owed a restart, after every step.
LEMMA UnitsStep == ASSUME IInv, Next PROVE UnitsInv'
<1> USE DEF IInv, TypeOK, ControlInv, UnitsInv, Phase, Rendered
<1>1. CASE Edit
  <2>1. pc = "idle" /\ UNCHANGED <<disk, systemd, up, run, tainted>>
    BY <1>1 DEF Edit
  <2> QED BY <2>1, SettledFrame
<1>2. CASE Reboot
  BY <1>2 DEF Reboot, Settled, Reads
<1>3. CASE CaddyReloads
  <2>1. /\ UNCHANGED <<disk, systemd, up, run, desired, pc, quadletChanged>>
        /\ "units" \notin tainted' => "units" \notin tainted
    BY <1>3 DEF CaddyReloads
  <2> QED BY <2>1, SettledFrame
<1>4. CASE Begin \/ BeginWithoutEdge
  BY <1>4, EnterFrame, SettledFrame
<1>5. CASE pushSecrets
  BY <1>5, SettledFrame DEF pushSecrets, InLoop
<1>6. CASE SecretsPushed \/ FilesWritten
  <2>1. /\ UNCHANGED <<disk, systemd, up, run, desired, tainted, quadletChanged>>
        /\ pc \in {"push", "write"} /\ pc' \in {"write", "edge"}
    BY <1>6 DEF SecretsPushed, FilesWritten, Advance
  <2> QED BY <2>1, SettledFrame
<1>7. CASE UnitsRestarted
  <2>1. \A q \in Quadlets : Rendered(q) => Current(q)
    BY <1>7, Positions, PathsAssumption DEF UnitsRestarted, Advance, RestartInv, File
  <2>2. \A q \in Quadlets : systemd[q] = disk[q]
    BY <1>7 DEF UnitsRestarted, Advance, RestartInv
  <2>3. \A q \in Quadlets : Current(q) => run[q].unit = disk[q] /\ q \in up
    BY DEF Current, Reads
  <2>4. \A q \in Quadlets : Rendered(q) => Settled(q)
    BY <2>1, <2>2, <2>3 DEF Settled
  <2> QED BY <1>7, <2>4, SettledFrame DEF UnitsRestarted, Advance
<1>8. CASE UnitsStarted
  BY <1>8, SettledFrame DEF UnitsStarted, Advance
<1>9. CASE SkipFile
  BY <1>9, SettledFrame DEF SkipFile, InLoop
<1>10. CASE WriteFileSudo \/ ProbeFails
  <2>1. Upload
    BY <1>10 DEF WriteFileSudo, ProbeFails
  <2>2. pc' = "write" /\ UNCHANGED <<systemd, up, run, desired, tainted>>
    BY <2>1 DEF Upload, InLoop
  <2>3. CASE Paths[i] \in Quadlets
    <3>1. quadletChanged' /\ Rendered(Paths[i])
      BY <2>1, <2>3 DEF Upload, FlagQuadlet
    <3>2. \A q \in Quadlets \ {Paths[i]} : disk'[q] = disk[q]
      BY <2>1, <2>3, Positions, FilesAssumption DEF Upload, Store, ToEdge, InLoop, File
    <3>3. \A q \in Quadlets \ {Paths[i]} : Settled(q)' <=> Settled(q)
      BY <2>2, <3>2 DEF Settled
    <3> QED BY <2>1, <2>2, <3>1, <3>3 DEF Upload, InLoop
  <2>4. CASE Paths[i] \notin Quadlets
    <3>1. \A q \in Quadlets : disk'[q] = disk[q]
      BY <2>1, <2>4, Positions DEF Upload, Store, InLoop, File
    <3>2. quadletChanged => quadletChanged'
      BY <2>1 DEF Upload, FlagQuadlet
    <3> QED BY <2>1, <2>2, <3>1, <3>2, SettledFrame DEF Upload, InLoop
  <2> QED BY <2>3, <2>4
<1>11. CASE UploadTorn
  <2>1. /\ pc = "write" /\ UNCHANGED <<systemd, up, run>>
        /\ "units" \notin tainted' =>
             "units" \notin tainted /\ ~quadletChanged /\ Paths[i] \notin Quadlets
    BY <1>11 DEF UploadTorn, InLoop, Owed
  <2>2. Paths[i] \notin Quadlets => \A q \in Quadlets : disk'[q] = disk[q]
    BY <1>11, Positions DEF UploadTorn, Store, InLoop, File
  <2> QED BY <2>1, <2>2, SettledFrame
<1>12. CASE ReloadEdge
  BY <1>12, SettledFrame DEF ReloadEdge, UnitPhase
<1>13. CASE DaemonReload
  <2>1. \A q \in Quadlets : Settled(q) => Settled(q)'
    BY <1>13 DEF DaemonReload, Generated, Settled
  <2> QED BY <1>13, <2>1 DEF DaemonReload
<1>14. CASE SkipUnit
  BY <1>14, SettledFrame DEF SkipUnit, InLoop
<1>15. CASE RestartUnit
  <2>1. pc = "restart" /\ Paths[i] \in Quadlets /\ Launch(Paths[i])
    BY <1>15 DEF RestartUnit, InLoop, AtUnit
  <2>2. PICK q \in Quadlets : q = Paths[i]
    BY <2>1
  <2>3. Launch(q) /\ systemd[q] = disk[q]
    BY <2>1, <2>2 DEF RestartInv
  <2>4. /\ Settled(q)' /\ \A r \in Quadlets \ {q} : Settled(r)' <=> Settled(r)
        /\ UNCHANGED <<pc, desired, tainted, quadletChanged>>
    BY <2>3, LaunchFrame
  <2> QED BY <2>4
<1>16. CASE StartUnit
  <2>1. pc = "start" /\ Paths[i] \in Quadlets
    BY <1>16 DEF StartUnit, InLoop, AtUnit
  <2>2. PICK q \in Quadlets : q = Paths[i]
    BY <2>1
  <2>3. CASE q \in up
    <3>1. UNCHANGED <<disk, systemd, up, run, desired, pc, tainted, quadletChanged>>
      BY <1>16, <2>2, <2>3, Zenon DEF StartUnit
    <3> QED BY <3>1, SettledFrame
  <2>4. CASE q \notin up
    <3>1. Launch(q)
      BY <1>16, <2>2, <2>4, Zenon DEF StartUnit
    <3>2. /\ disk[q] \notin Version => Settled(q)'
          /\ \A r \in Quadlets \ {q} : Settled(r)' <=> Settled(r)
          /\ UNCHANGED <<pc, desired, tainted, quadletChanged>>
      BY <3>1, LaunchFrame
    <3>3. Settled(q) => disk[q] \notin Version
      BY <2>4 DEF Settled
    <3> QED BY <2>1, <3>2, <3>3
  <2> QED BY <2>3, <2>4
<1>17. CASE RestartFails
  BY <1>17 DEF RestartFails, InLoop, Owed
<1>18. CASE StartUnknownUnit \/ HealthCheckFails
  BY <1>18, SettledFrame DEF StartUnknownUnit, HealthCheckFails, Fails, InLoop
<1>19. CASE Abort
  <2>1. /\ pc' = "idle" /\ UNCHANGED <<disk, systemd, up, run>>
        /\ "units" \notin tainted' =>
             /\ "units" \notin tainted
             /\ ~(quadletChanged /\ pc \in {"write", "edge", "reload", "restart"})
    BY <1>19 DEF Abort, Fails, Owed
  <2> QED BY <2>1, SettledFrame
<1>20. CASE runHooks
  <2>1. /\ UNCHANGED <<disk, systemd, up, run, desired, quadletChanged>>
        /\ pc = "hooks" /\ pc' = "health"
        /\ "units" \notin tainted' => "units" \notin tainted
    BY <1>20 DEF runHooks
  <2> QED BY <2>1, SettledFrame
<1>21. CASE runHealthCheck \/ WriteMarker
  <2>1. /\ UNCHANGED <<disk, systemd, up, run, desired, quadletChanged, tainted>>
        /\ pc \in {"health", "marker"}
    BY <1>21 DEF runHealthCheck, WriteMarker
  <2> QED BY <2>1, SettledFrame
<1> QED BY NextCases, <1>1, <1>2, <1>3, <1>4, <1>5, <1>6, <1>7, <1>8, <1>9, <1>10, <1>11,
           <1>12, <1>13, <1>14, <1>15, <1>16, <1>17, <1>18, <1>19, <1>20, <1>21

\* A fragment Caddy has not loaded is owed a reload, after every step.
LEMMA CaddyStep == ASSUME IInv, Next PROVE CaddyInv'
<1> USE DEF IInv, TypeOK, ControlInv, CaddyInv, Past, Phase
<1>1. ASSUME UNCHANGED <<onEdge, disk, edgeDisk>> PROVE CaddyDir' = CaddyDir
  BY <1>1 DEF CaddyDir
<1>2. CASE Edit
  BY <1>1, <1>2 DEF Edit
<1>3. CASE Reboot
  <2>1. /\ UNCHANGED <<onEdge, disk, edgeDisk, edgeFragmentChanged>> /\ pc' = "idle"
        /\ onEdge => caddy' = CaddyDir
        /\ ~onEdge => UNCHANGED caddy
        /\ (~onEdge /\ "caddy" \notin tainted') =>
             /\ "caddy" \notin tainted
             /\ ~(edgeFragmentChanged /\ pc \in {"write", "edge"})
    BY <1>3 DEF Reboot, Owed
  <2> QED BY <1>1, <2>1
<1>4. CASE CaddyReloads
  <2>1. UNCHANGED <<onEdge, disk, edgeDisk>> /\ caddy' = CaddyDir
    BY <1>4 DEF CaddyReloads
  <2>2. ~onEdge => CaddyDir = edgeDisk
    BY DEF CaddyDir
  <2> QED BY <1>1, <2>1, <2>2
<1>5. CASE Begin \/ BeginWithoutEdge
  BY <1>5, EnterFrame
<1>6. CASE pushSecrets
  BY <1>6 DEF pushSecrets, InLoop
<1>7. CASE SecretsPushed \/ FilesWritten \/ UnitsRestarted \/ UnitsStarted
  <2>1. /\ UNCHANGED <<onEdge, edgeDisk, caddy, tainted, edgeFragmentChanged, result>>
        /\ pc \in {"write", "edge"} => pc' \in {"write", "edge"}
        /\ pc' \notin {"health", "marker"} /\ result # "ok"
    BY <1>7 DEF SecretsPushed, FilesWritten, UnitsRestarted, UnitsStarted, Advance
  <2> QED BY <2>1
<1>8. CASE SkipFile
  BY <1>8 DEF SkipFile, InLoop
<1>9. CASE WriteFileSudo \/ ProbeFails
  <2>1. Upload
    BY <1>9 DEF WriteFileSudo, ProbeFails
  <2>2. /\ pc = "write" /\ pc' = "write" /\ result' # "ok"
        /\ UNCHANGED <<onEdge, caddy, tainted>>
        /\ edgeFragmentChanged => edgeFragmentChanged'
    BY <2>1 DEF Upload, InLoop
  <2>3. edgeDisk' = edgeDisk \/ edgeFragmentChanged'
    BY <2>1 DEF Upload, Store
  <2> QED BY <2>2, <2>3
<1>10. CASE UploadTorn
  <2>1. /\ pc = "write" /\ pc' = "idle" /\ result' # "ok" /\ UNCHANGED <<onEdge, caddy>>
        /\ "caddy" \notin tainted' =>
             "caddy" \notin tainted /\ ~edgeFragmentChanged /\ ~ToEdge(Paths[i])
    BY <1>10 DEF UploadTorn, InLoop, Fails, Owed
  <2>2. ~ToEdge(Paths[i]) => UNCHANGED edgeDisk
    BY <1>10 DEF UploadTorn, Store
  <2> QED BY <2>1, <2>2
<1>11. CASE ReloadEdge
  <2>1. /\ pc = "edge" /\ pc' \in {"reload", "start"} /\ result' # "ok"
        /\ UNCHANGED <<onEdge, edgeDisk, tainted>>
        /\ edgeFragmentChanged => caddy' = edgeDisk
        /\ ~edgeFragmentChanged => caddy' = caddy
    BY <1>11 DEF ReloadEdge, UnitPhase, ReloadCaddy
  <2> QED BY <2>1
<1>12. CASE DaemonReload
  BY <1>12 DEF DaemonReload
<1>13. CASE SkipUnit
  BY <1>13 DEF SkipUnit, InLoop
<1>14. CASE RestartUnit \/ StartUnit
  <2>1. /\ pc \in {"restart", "start"}
        /\ UNCHANGED <<pc, result, onEdge, edgeDisk, caddy, tainted>>
    BY <1>14 DEF RestartUnit, StartUnit, Launch, InLoop
  <2> QED BY <2>1
<1>15. CASE RestartFails
  BY <1>15 DEF RestartFails, Fails, InLoop
<1>16. CASE StartUnknownUnit \/ HealthCheckFails
  BY <1>16 DEF StartUnknownUnit, HealthCheckFails, Fails, InLoop
<1>17. CASE Abort
  <2>1. /\ pc' = "idle" /\ result' # "ok" /\ UNCHANGED <<onEdge, edgeDisk, caddy>>
        /\ "caddy" \notin tainted' =>
             "caddy" \notin tainted /\ ~(edgeFragmentChanged /\ pc \in {"write", "edge"})
    BY <1>17 DEF Abort, Fails, Owed
  <2> QED BY <2>1
<1>18. CASE runHooks
  <2>1. /\ pc = "hooks" /\ UNCHANGED <<onEdge, disk, edgeDisk, result>>
        /\ (onEdge /\ ReloadHook) => caddy' = CaddyDir
        /\ ~onEdge => UNCHANGED <<caddy, tainted>>
    BY <1>18 DEF runHooks
  <2> QED BY <1>1, <2>1
<1>19. CASE runHealthCheck \/ WriteMarker
  <2>1. /\ pc \in {"health", "marker"}
        /\ UNCHANGED <<onEdge, disk, edgeDisk, caddy, tainted>>
    BY <1>19 DEF runHealthCheck, WriteMarker
  <2> QED BY <1>1, <2>1
<1> QED BY NextCases, <1>2, <1>3, <1>4, <1>5, <1>6, <1>7, <1>8, <1>9, <1>10, <1>11,
           <1>12, <1>13, <1>14, <1>15, <1>16, <1>17, <1>18, <1>19

\* A run that found every file current has written none, after every step.
LEMMA NoopStep == ASSUME IInv, Next PROVE NoopInv'
<1> USE DEF IInv, TypeOK, ControlInv, NoopInv, Phase
<1>1. CASE Edit
  BY <1>1 DEF Edit
<1>2. CASE Reboot \/ UploadTorn \/ RestartFails \/ StartUnknownUnit \/ HealthCheckFails
           \/ Abort \/ WriteMarker \/ ProbeFails
  BY <1>2 DEF Reboot, UploadTorn, RestartFails, StartUnknownUnit, HealthCheckFails,
              Abort, WriteMarker, ProbeFails, Fails
<1>3. CASE Begin \/ BeginWithoutEdge
  <2>1. noop' => \A f \in File : Rendered(f) =>
                    desired[f] = IF edgeConn' /\ f \in Fragments THEN edgeDisk[f] ELSE disk[f]
    BY <1>3, Zenon DEF Begin, BeginWithoutEdge, Enter
  <2>2. /\ pc' = "push" /\ ~quadletChanged'
        /\ UNCHANGED <<desired, disk, edgeDisk>>
    BY <1>3, EnterFrame
  <2> QED BY <2>1, <2>2 DEF UpToDate, Rendered, remoteMatches, Remote, ToEdge
<1>4. CASE CaddyReloads \/ pushSecrets \/ SkipFile \/ SkipUnit
  BY <1>4, UpToDateFrame DEF CaddyReloads, pushSecrets, SkipFile, SkipUnit
<1>5. CASE SecretsPushed \/ FilesWritten \/ UnitsRestarted \/ UnitsStarted
  BY <1>5, UpToDateFrame DEF SecretsPushed, FilesWritten, UnitsRestarted, UnitsStarted, Advance
<1>6. CASE WriteFileSudo
  <2>1. ~UpToDate(Paths[i]) /\ Paths[i] \in File /\ noop' = noop
    BY <1>6, Positions DEF WriteFileSudo, Upload, InLoop, UpToDate
  <2> QED BY <2>1
<1>7. CASE ReloadEdge \/ DaemonReload \/ runHooks \/ runHealthCheck
  BY <1>7, UpToDateFrame DEF ReloadEdge, UnitPhase, DaemonReload, runHooks, runHealthCheck
<1>8. CASE RestartUnit \/ StartUnit
  <2>1. UNCHANGED <<pc, noop, quadletChanged, desired, edgeConn, disk, edgeDisk>>
    BY <1>8 DEF RestartUnit, StartUnit, Launch
  <2> QED BY <2>1, UpToDateFrame
<1> QED BY NextCases, <1>1, <1>2, <1>3, <1>4, <1>5, <1>6, <1>7, <1>8

----------------------------------------------------------------------------
(***************************************************************************)
(* The theorems.                                                           *)
(***************************************************************************)

\* The invariant holds of a bootstrapped host before the first deploy.
LEMMA IInvInit == Init => IInv
<1> SUFFICES ASSUME Init PROVE IInv
  OBVIOUS
<1>1. TypeOK
  BY TypeInit
<1>2. ControlInv /\ SecretsInv /\ FilesInv /\ RestartInv
  BY DEF Init, ControlInv, SecretsInv, FilesInv, RestartInv, Past, Phase
<1>3. UnitsInv
  BY ContentAssumption DEF Init, UnitsInv, Settled, File
<1>4. CaddyInv /\ NoopInv
  BY DEF Init, CaddyInv, NoopInv, Past
<1> QED BY <1>1, <1>2, <1>3, <1>4 DEF IInv

\* A step that changes nothing keeps the invariant.
LEMMA IInvStutter == IInv /\ UNCHANGED vars => IInv'
<1> SUFFICES ASSUME IInv, UNCHANGED vars PROVE IInv'
  OBVIOUS
<1> USE DEF IInv, vars
<1>1. TypeOK'
  BY TypeStep
<1>2. ControlInv' /\ SecretsInv'
  BY DEF ControlInv, SecretsInv, Past
<1>3. FilesInv' /\ NoopInv'
  BY UpToDateFrame DEF FilesInv, NoopInv, Past
<1>4. RestartInv'
  BY CurrentFrame DEF RestartInv, Past, Rendered
<1>5. UnitsInv'
  BY SettledFrame DEF UnitsInv, Rendered
<1>6. CaddyInv'
  BY DEF CaddyInv, CaddyDir, Past
<1> QED BY <1>1, <1>2, <1>3, <1>4, <1>5, <1>6

\* Whatever the stack and the faults, each phase of DeployStack leaves behind
\* what the later phases and the later runs rely on.
THEOREM Inductive == Spec => []IInv
<1>1. IInv /\ [Next]_vars => IInv'
  <2> SUFFICES ASSUME IInv, [Next]_vars PROVE IInv'
    OBVIOUS
  <2>1. CASE Next
    <3>1. TypeOK'
      BY TypeStep DEF IInv
    <3> QED BY <2>1, <3>1, ControlStep, SecretsStep, FilesStep, RestartStep, UnitsStep,
               CaddyStep, NoopStep DEF IInv
  <2> QED BY <2>1, IInvStutter
<1> QED BY IInvInit, <1>1, PTL DEF Spec

\* DeployStack that returns no error has delivered what was rendered, however
\* many runs failed, tore a file or lost the edge before it.
THEOREM Delivery == Spec => []OkMeansDelivered
<1>1. IInv => OkMeansDelivered
  BY DEF IInv, FilesInv, SecretsInv, OkMeansDelivered, Past, UpToDate, remoteMatches
<1> QED BY <1>1, Inductive, PTL

\* A run that changed a quadlet and succeeded has restarted every unit from
\* what is on the host.
THEOREM Restarted == Spec => []RestartedMeansCurrent
<1>1. IInv => RestartedMeansCurrent
  BY DEF IInv, RestartInv, RestartedMeansCurrent, Current, Past
<1> QED BY <1>1, Inductive, PTL

\* Stale units have one cause: a run cut off between its first quadlet write
\* and its last restart.
THEOREM StaleUnits == Spec => []StaleOnlyAfterAbort
<1>1. IInv => StaleOnlyAfterAbort
  BY DEF IInv, UnitsInv, StaleOnlyAfterAbort, Settled
<1> QED BY <1>1, Inductive, PTL

\* Caddy serves what is in its directory, unless a run was cut off before its
\* reload.
THEOREM EdgeServes == Spec => []EdgeServesItsFragments
<1>1. IInv => EdgeServesItsFragments
  BY DEF IInv, CaddyInv, EdgeServesItsFragments, Past
<1> QED BY <1>1, Inductive, PTL

\* After a run in which nothing was cut off, every rendered unit is up.
LEMMA RenderedUnitsUp ==
    ASSUME IInv, "units" \notin tainted, NEW q \in Quadlets, Rendered(q),
           pc \in {"start", "hooks", "health", "marker"}
    PROVE  q \in up
<1>1. UpToDate(q) /\ q \in File
  BY DEF IInv, FilesInv, Past, Phase, File
<1>2. disk[q] = desired[q]
  BY <1>1, FilesAssumption DEF UpToDate, remoteMatches, Remote, ToEdge
<1>3. disk[q] \in Version
  BY <1>1, <1>2 DEF IInv, TypeOK, Rendered, Desired
<1> QED BY <1>3 DEF IInv, UnitsInv, Settled

\* A run that meets no fault of its own does not fail, unless it inherits the
\* units an earlier run left without a restart.
THEOREM Failures == Spec => FailsOnlyAfterAbort
<1>1. ASSUME IInv, [Next]_vars
      PROVE  [(pc # "idle" /\ result' = "error" /\ faults' = faults) =>
                 "units" \in tainted \/ \E q \in HealthUnits : ~Rendered(q)]_vars
  <2> SUFFICES ASSUME Next, pc # "idle", result' = "error", faults' = faults,
                      "units" \notin tainted, \A q \in HealthUnits : Rendered(q)
               PROVE  FALSE
    BY <1>1
  <2>1. result = "none"
    BY <1>1 DEF IInv, ControlInv
  <2>2. CASE Reboot \/ BeginWithoutEdge \/ ProbeFails \/ UploadTorn \/ RestartFails \/ Abort
    <3>1. Fault
      BY <2>2 DEF Reboot, BeginWithoutEdge, ProbeFails, UploadTorn, RestartFails, Abort
    <3> QED BY <1>1, <3>1 DEF Fault, IInv, TypeOK
  <2>3. CASE StartUnknownUnit
    <3>1. pc = "start" /\ Paths[i] \in Quadlets /\ Rendered(Paths[i]) /\ Paths[i] \notin up
      BY <2>3 DEF StartUnknownUnit, InLoop, AtUnit
    <3> QED BY <1>1, <3>1, RenderedUnitsUp
  <2>4. CASE HealthCheckFails
    BY <1>1, <2>4, RenderedUnitsUp, OtherAssumption DEF HealthCheckFails
  <2>5. CASE Edit \/ Begin
    BY <2>5 DEF Edit, Begin, Enter
  <2>6. CASE CaddyReloads \/ pushSecrets \/ SkipFile \/ SkipUnit
    BY <2>1, <2>6 DEF CaddyReloads, pushSecrets, SkipFile, SkipUnit
  <2>7. CASE SecretsPushed \/ FilesWritten \/ UnitsRestarted \/ UnitsStarted
    BY <2>1, <2>7 DEF SecretsPushed, FilesWritten, UnitsRestarted, UnitsStarted, Advance
  <2>8. CASE WriteFileSudo
    BY <2>1, <2>8 DEF WriteFileSudo, Upload
  <2>9. CASE ReloadEdge \/ DaemonReload \/ runHooks \/ runHealthCheck \/ WriteMarker
    BY <2>1, <2>9 DEF ReloadEdge, DaemonReload, runHooks, runHealthCheck, WriteMarker
  <2>10. CASE RestartUnit \/ StartUnit
    BY <2>1, <2>10 DEF RestartUnit, StartUnit, Launch
  <2> QED BY NextCases, <2>2, <2>3, <2>4, <2>5, <2>6, <2>7, <2>8, <2>9, <2>10
<1> QED BY <1>1, Inductive, PTL DEF Spec, FailsOnlyAfterAbort

\* A run that finds every file current leaves every disk, every definition and
\* every running unit as they are.
THEOREM Idempotence == Spec => NoopRunRestartsNothing
<1>1. ASSUME IInv, [Next]_vars
      PROVE  [noop /\ noop' =>
                 /\ UNCHANGED <<disk, edgeDisk, systemd>>
                 /\ \A q \in up : q \in up' /\ run'[q] = run[q]]_vars
  <2> SUFFICES ASSUME Next, noop, noop'
               PROVE  /\ UNCHANGED <<disk, edgeDisk, systemd>>
                      /\ \A q \in up : q \in up' /\ run'[q] = run[q]
    BY <1>1
  <2> USE DEF IInv, TypeOK, ControlInv, NoopInv
  <2>1. CASE Edit
    BY <2>1 DEF Edit
  <2>2. CASE Reboot \/ UploadTorn \/ RestartFails \/ StartUnknownUnit \/ HealthCheckFails
             \/ Abort \/ WriteMarker \/ ProbeFails
    BY <2>2 DEF Reboot, UploadTorn, RestartFails, StartUnknownUnit, HealthCheckFails,
                Abort, WriteMarker, ProbeFails, Fails
  <2>3. CASE Begin \/ BeginWithoutEdge
    BY <1>1, <2>3, EnterFrame
  <2>4. CASE CaddyReloads \/ pushSecrets \/ SkipFile \/ SkipUnit
    BY <2>4 DEF CaddyReloads, pushSecrets, SkipFile, SkipUnit
  <2>5. CASE SecretsPushed \/ FilesWritten \/ UnitsRestarted \/ UnitsStarted
    BY <2>5 DEF SecretsPushed, FilesWritten, UnitsRestarted, UnitsStarted, Advance
  <2>6. CASE WriteFileSudo
    BY <1>1, <2>6, Positions DEF WriteFileSudo, Upload, InLoop, UpToDate
  <2>7. CASE ReloadEdge \/ runHooks \/ runHealthCheck
    BY <2>7 DEF ReloadEdge, runHooks, runHealthCheck
  <2>8. CASE DaemonReload
    BY <1>1, <2>8 DEF DaemonReload
  <2>9. CASE RestartUnit
    BY <1>1, <2>9 DEF RestartUnit, InLoop
  <2>10. CASE StartUnit
    <3>1. CASE Paths[i] \in up
      BY <2>10, <3>1, Zenon DEF StartUnit
    <3>2. CASE Paths[i] \notin up
      <4>1. Launch(Paths[i]) /\ Paths[i] \in Quadlets
        BY <2>10, <3>2, Zenon DEF StartUnit, AtUnit
      <4> QED BY <1>1, <3>2, <4>1 DEF Launch
    <3> QED BY <3>1, <3>2
  <2> QED BY NextCases, <2>1, <2>2, <2>3, <2>4, <2>5, <2>6, <2>7, <2>8, <2>9, <2>10
<1> QED BY <1>1, Inductive, PTL DEF Spec, NoopRunRestartsNothing

\* When a unit can be launched, the secrets and the files of this run are in
\* place, and systemd has this run's definition of it unless a restart is owed.
LEMMA InputsInPlace ==
    ASSUME IInv, NEW q \in Quadlets, Rendered(q), pc \in {"restart", "start"},
           pc = "start" => q \notin up
    PROVE  /\ Reads(systemd[q]).secret = wanted
           /\ \A f \in Configs : Rendered(f) => Reads(systemd[q]).config[f] = desired[f]
           /\ Reads(systemd[q]).unit = desired[q] \/ "units" \in tainted
<1>1. podman = wanted /\ \A f \in File : UpToDate(f)
  BY DEF IInv, SecretsInv, FilesInv, Past, Phase
<1>2. \A f \in Quadlets \cup Configs : Rendered(f) => disk[f] = desired[f]
  BY <1>1, FilesAssumption DEF UpToDate, remoteMatches, Remote, ToEdge, File
<1>3. CASE pc = "restart"
  BY <1>1, <1>2, <1>3 DEF IInv, RestartInv, Reads
<1>4. CASE pc = "start"
  <2>1. "units" \in tainted
    BY <1>4, RenderedUnitsUp
  <2> QED BY <1>1, <1>2, <2>1 DEF Reads
<1> QED BY <1>3, <1>4

\* DeployStack starts no unit before the secrets and config files it reads are
\* those of this run, whatever was cut off before and however this run ends.
THEOREM Inputs == Spec => StartsWithItsInputs
<1> DEFINE Fed(q) == /\ run'[q].secret = wanted
                     /\ \A f \in Configs : Rendered(f) => run'[q].config[f] = desired[f]
                     /\ run'[q].unit = desired[q] \/ "units" \in tainted
<1>1. ASSUME IInv, [Next]_vars
      PROVE  [\A q \in Quadlets : (pc' # "idle" /\ run'[q] # run[q]) => Fed(q)]_vars
  <2> SUFFICES ASSUME Next, pc' # "idle", NEW q \in Quadlets, run'[q] # run[q]
               PROVE  Fed(q)
    BY <1>1
  <2>1. CASE RestartUnit \/ StartUnit
    <3>1. /\ Launch(Paths[i]) /\ AtUnit /\ pc \in {"restart", "start"}
          /\ pc = "start" => Paths[i] \notin up
      BY <2>1 DEF RestartUnit, StartUnit, InLoop
    <3>2. q = Paths[i] /\ run'[q] = Reads(systemd[q])
      BY <1>1, <3>1 DEF Launch, AtUnit, IInv, TypeOK
    <3> QED BY <1>1, <3>1, <3>2, InputsInPlace DEF AtUnit
  <2>2. CASE Begin \/ BeginWithoutEdge
    BY <1>1, <2>2, EnterFrame DEF IInv, TypeOK
  <2>3. CASE Edit \/ CaddyReloads \/ Reboot
    BY <2>3 DEF Edit, CaddyReloads, Reboot
  <2>4. CASE pushSecrets \/ SkipFile \/ SkipUnit
    BY <2>4 DEF pushSecrets, SkipFile, SkipUnit
  <2>5. CASE SecretsPushed \/ FilesWritten \/ UnitsRestarted \/ UnitsStarted
    BY <2>5 DEF SecretsPushed, FilesWritten, UnitsRestarted, UnitsStarted, Advance
  <2>6. CASE WriteFileSudo \/ ProbeFails \/ UploadTorn
    BY <2>6 DEF WriteFileSudo, ProbeFails, Upload, UploadTorn
  <2>7. CASE ReloadEdge \/ DaemonReload \/ RestartFails
    BY <2>7 DEF ReloadEdge, DaemonReload, RestartFails
  <2>8. CASE StartUnknownUnit \/ HealthCheckFails \/ Abort
    BY <2>8 DEF StartUnknownUnit, HealthCheckFails, Abort
  <2>9. CASE runHooks \/ runHealthCheck \/ WriteMarker
    BY <2>9 DEF runHooks, runHealthCheck, WriteMarker
  <2> QED BY NextCases, <2>1, <2>2, <2>3, <2>4, <2>5, <2>6, <2>7, <2>8, <2>9
<1> QED BY <1>1, Inductive, PTL DEF Spec, StartsWithItsInputs

----------------------------------------------------------------------------
(***************************************************************************)
(* DeployStack implements Reconciler.                                      *)
(***************************************************************************)

\* What the reconciler sees of a file, and of a secret.
LEMMA ItemValues ==
    /\ \A f \in File : /\ <<"file", f>> \in FileItem
                       /\ wantBar[<<"file", f>>] = desired[f]
                       /\ haveBar[<<"file", f>>] = Place(f)
                       /\ <<"file", f>> \in scopeBar <=> (f \in Fragments => onEdge \/ edgeConn)
    /\ \A s \in Secret : /\ <<"secret", s>> \in SecretItem
                         /\ <<"secret", s>> \notin FileItem
                         /\ wantBar[<<"secret", s>>] = wanted[s]
                         /\ haveBar[<<"secret", s>>] = podman[s]
                         /\ <<"secret", s>> \in scopeBar
    /\ \A x \in FileItem \cup SecretItem : \/ \E f \in File : x = <<"file", f>>
                                           \/ \E s \in Secret : x = <<"secret", s>>
<1>1. \A f \in File : <<"file", f>> \in FileItem
  BY DEF FileItem
<1>2. \A s \in Secret : <<"secret", s>> \in SecretItem /\ <<"secret", s>> \notin FileItem
  BY DEF FileItem, SecretItem
<1>3. \A x \in FileItem \cup SecretItem : \/ \E f \in File : x = <<"file", f>>
                                          \/ \E s \in Secret : x = <<"secret", s>>
  BY DEF FileItem, SecretItem
<1>4. \A f \in File : /\ wantBar[<<"file", f>>] = desired[f]
                      /\ haveBar[<<"file", f>>] = Place(f)
                      /\ <<"file", f>> \in scopeBar <=> (f \in Fragments => onEdge \/ edgeConn)
  BY <1>1 DEF wantBar, haveBar, scopeBar
<1>5. \A s \in Secret : /\ wantBar[<<"secret", s>>] = wanted[s]
                        /\ haveBar[<<"secret", s>>] = podman[s]
                        /\ <<"secret", s>> \in scopeBar
  BY <1>2 DEF wantBar, haveBar, scopeBar
<1> QED BY <1>1, <1>2, <1>3, <1>4, <1>5

\* The mapped state depends on the workspace, the disks, podman and the edge
\* connection, and on nothing else.
LEMMA BarFrame ==
    /\ UNCHANGED <<desired, wanted>> => wantBar' = wantBar
    /\ UNCHANGED <<disk, edgeDisk, onEdge, podman>> => haveBar' = haveBar
    /\ UNCHANGED <<onEdge, edgeConn>> => scopeBar' = scopeBar
BY DEF wantBar, haveBar, scopeBar, Place, CaddyDir

\* A change of what is in one file's place is a change of that item.
LEMMA PlaceItem ==
    ASSUME NEW f \in File, NEW c, podman' = podman,
           \A g \in File : Place(g)' = IF g = f THEN c ELSE Place(g)
    PROVE  haveBar' = [haveBar EXCEPT ![<<"file", f>>] = c]
<1> DEFINE x == <<"file", f>>
           Item == FileItem \cup SecretItem
<1>1. haveBar = [y \in Item |-> haveBar[y]] /\ haveBar' = [y \in Item |-> haveBar'[y]]
  BY DEF haveBar
<1>2. \A g \in File : haveBar'[<<"file", g>>] = Place(g)'
  <2>1. \A g \in File : <<"file", g>> \in FileItem
    BY ItemValues
  <2> QED BY <2>1 DEF haveBar
<1>3. \A s \in Secret : haveBar'[<<"secret", s>>] = podman'[s]
  <2>1. \A s \in Secret : <<"secret", s>> \in SecretItem /\ <<"secret", s>> \notin FileItem
    BY ItemValues
  <2> QED BY <2>1 DEF haveBar
<1>4. \A g \in File : haveBar'[<<"file", g>>] = IF g = f THEN c ELSE haveBar[<<"file", g>>]
  BY <1>2, ItemValues
<1>5. \A s \in Secret : haveBar'[<<"secret", s>>] = haveBar[<<"secret", s>>]
  BY <1>3, ItemValues
<1>6. \A g \in File : <<"file", g>> = x => g = f
  OBVIOUS
<1>7. \A s \in Secret : <<"secret", s>> # x
  OBVIOUS
<1>8. \A y \in Item : haveBar'[y] = IF y = x THEN c ELSE haveBar[y]
  <2> HIDE DEF x
  <2> QED BY <1>4, <1>5, <1>6, <1>7, ItemValues DEF x
<1> HIDE DEF x, Item
<1>9. haveBar' = [haveBar EXCEPT ![x] = c]
  BY <1>1, <1>8
<1> QED BY <1>9 DEF x

\* Storing a file is, to the reconciler, a change of that one item, or of none
\* when a fragment is stored where Caddy does not look.
LEMMA StoreItem ==
    ASSUME IInv, NEW f \in File, NEW c, Store(f, c), UNCHANGED <<onEdge, podman>>
    PROVE  IF <<"file", f>> \in scopeBar
           THEN haveBar' = [haveBar EXCEPT ![<<"file", f>>] = c] /\ Place(f) = Remote(f)
           ELSE haveBar' = haveBar
<1> USE DEF IInv, TypeOK, ControlInv
<1>1. <<"file", f>> \in scopeBar <=> (f \in Fragments => onEdge \/ edgeConn)
  BY ItemValues
<1>2. CASE f \notin Fragments
  <2>1. disk' = [disk EXCEPT ![f] = c] /\ edgeDisk' = edgeDisk /\ Place(f) = Remote(f)
    BY <1>2 DEF Store, ToEdge, Place, Remote
  <2>2. \A g \in File : Place(g)' = IF g = f THEN c ELSE Place(g)
    BY <1>2, <2>1 DEF Place, CaddyDir
  <2>3. haveBar' = [haveBar EXCEPT ![<<"file", f>>] = c]
    BY <2>2, PlaceItem
  <2> QED BY <1>1, <1>2, <2>1, <2>3
<1>3. CASE f \in Fragments /\ edgeConn
  <2>1. edgeDisk' = [edgeDisk EXCEPT ![f] = c] /\ disk' = disk /\ ~onEdge
    BY <1>3 DEF Store, ToEdge
  <2>2. Place(f) = Remote(f) /\ \A g \in File : Place(g)' = IF g = f THEN c ELSE Place(g)
    BY <1>3, <2>1 DEF Place, CaddyDir, Remote, ToEdge
  <2>3. haveBar' = [haveBar EXCEPT ![<<"file", f>>] = c]
    BY <2>2, PlaceItem
  <2> QED BY <1>1, <1>3, <2>2, <2>3
<1>4. CASE f \in Fragments /\ ~edgeConn /\ onEdge
  <2>1. disk' = [disk EXCEPT ![f] = c] /\ edgeDisk' = edgeDisk /\ Place(f) = Remote(f)
    BY <1>4 DEF Store, ToEdge, Place, Remote, CaddyDir
  <2>2. \A g \in File : Place(g)' = IF g = f THEN c ELSE Place(g)
    BY <1>4, <2>1 DEF Place, CaddyDir
  <2>3. haveBar' = [haveBar EXCEPT ![<<"file", f>>] = c]
    BY <2>2, PlaceItem
  <2> QED BY <1>1, <1>4, <2>1, <2>3
<1>5. CASE f \in Fragments /\ ~edgeConn /\ ~onEdge
  <2>1. disk' = [disk EXCEPT ![f] = c] /\ edgeDisk' = edgeDisk
    BY <1>5 DEF Store, ToEdge
  <2>2. \A g \in File : Place(g)' = Place(g)
    BY <1>5, <2>1 DEF Place, CaddyDir
  <2>3. haveBar' = haveBar
    BY <2>2 DEF haveBar, FileItem, SecretItem
  <2> QED BY <1>1, <1>5, <2>3
<1> QED BY <1>2, <1>3, <1>4, <1>5

\* What the reconciler is asked for is well typed.
LEMMA WantType ==
    ASSUME desired \in [File -> Desired], wanted \in [Secret -> Version]
    PROVE  wantBar \in [FileItem \cup SecretItem -> Version \cup {None}]
<1>1. \A x \in FileItem \cup SecretItem : wantBar[x] \in Version \cup {None}
  BY ItemValues DEF Desired
<1> QED BY <1>1 DEF wantBar

\* A bootstrapped host is an initial state of the reconciler.
LEMMA RefinesInit == Init => Abstract!Init
<1> SUFFICES ASSUME Init PROVE Abstract!Init
  OBVIOUS
<1>1. TypeOK
  BY TypeInit
<1>2. wantBar \in [FileItem \cup SecretItem -> Version \cup {None}]
  BY <1>1, WantType DEF TypeOK
<1>3. haveBar = [x \in FileItem \cup SecretItem |-> None]
  <2>1. \A f \in File : Place(f) = None
    BY DEF Init, Place, CaddyDir
  <2>2. \A s \in Secret : podman[s] = None
    BY DEF Init
  <2> QED BY <2>1, <2>2 DEF haveBar, FileItem, SecretItem
<1>4. (pc # "idle") = FALSE /\ result = "none"
  BY DEF Init
<1>5. scopeBar \subseteq FileItem \cup SecretItem
  BY DEF scopeBar
<1> QED BY <1>2, <1>3, <1>4, <1>5 DEF Abstract!Init

\* A step that touches no file, secret, edit or verdict is no step of the
\* reconciler.
LEMMA RefinesStutter ==
    ASSUME UNCHANGED <<desired, wanted, disk, edgeDisk, podman, onEdge, edgeConn, result>>,
           pc' = "idle" <=> pc = "idle"
    PROVE  UNCHANGED Abstract!vars
<1>1. wantBar' = wantBar /\ haveBar' = haveBar /\ scopeBar' = scopeBar
  BY BarFrame
<1>2. (pc # "idle")' = (pc # "idle")
  OBVIOUS
<1> QED BY <1>1, <1>2 DEF Abstract!vars

\* A run that ends in an error with every file and secret left alone gives up.
LEMMA RefinesGiveUp ==
    ASSUME UNCHANGED <<desired, wanted, disk, edgeDisk, podman, onEdge, edgeConn>>,
           pc # "idle", pc' = "idle", result' = "error"
    PROVE  Abstract!Next
<1>1. wantBar' = wantBar /\ haveBar' = haveBar /\ scopeBar' = scopeBar
  BY BarFrame
<1>2. Abstract!GiveUp
  BY <1>1 DEF Abstract!GiveUp, Abstract!End
<1> QED BY <1>2 DEF Abstract!Next

\* A file that is uploaded because it differed is repaired; one whose probe
\* failed, or a fragment stored where Caddy does not look, changes nothing.
LEMMA RefinesUpload ==
    ASSUME IInv, Upload
    PROVE  Abstract!Next \/ UNCHANGED Abstract!vars
<1> DEFINE f == Paths[i]
<1>1. f \in File /\ pc = "write"
  BY Positions DEF IInv, TypeOK, Upload, InLoop
<1>2. /\ Rendered(f) /\ Store(f, desired[f])
      /\ UNCHANGED <<desired, wanted, onEdge, edgeConn, podman, pc, result>>
  BY DEF Upload
<1> HIDE DEF f
<1>3. wantBar' = wantBar /\ scopeBar' = scopeBar
  BY <1>2, BarFrame
<1>4. CASE <<"file", f>> \notin scopeBar
  <2>1. haveBar' = haveBar
    BY <1>1, <1>2, <1>4, StoreItem
  <2> QED BY <1>2, <1>3, <2>1 DEF Abstract!vars
<1>5. CASE <<"file", f>> \in scopeBar /\ Remote(f) # desired[f]
  <2>1. haveBar' = [haveBar EXCEPT ![<<"file", f>>] = desired[f]] /\ Place(f) = Remote(f)
    BY <1>1, <1>2, <1>5, StoreItem
  <2>2. /\ wantBar[<<"file", f>>] = desired[f] /\ haveBar[<<"file", f>>] = Place(f)
        /\ <<"file", f>> \in FileItem \cup SecretItem
    BY <1>1, ItemValues
  <2>3. ~Abstract!Right(<<"file", f>>)
    BY <1>2, <1>5, <2>1, <2>2 DEF Abstract!Right, Rendered
  <2>4. Abstract!Repair(<<"file", f>>)
    BY <1>1, <1>2, <1>3, <1>5, <2>1, <2>2, <2>3 DEF Abstract!Repair
  <2> QED BY <2>2, <2>4 DEF Abstract!Next
<1>6. CASE <<"file", f>> \in scopeBar /\ Remote(f) = desired[f]
  <2>1. haveBar' = [haveBar EXCEPT ![<<"file", f>>] = desired[f]] /\ Place(f) = Remote(f)
    BY <1>1, <1>2, <1>6, StoreItem
  <2>2. haveBar[<<"file", f>>] = desired[f]
    BY <1>1, <1>6, <2>1, ItemValues
  <2>3. haveBar = [x \in FileItem \cup SecretItem |-> haveBar[x]]
    BY DEF haveBar
  <2>4. haveBar' = haveBar
    BY <2>1, <2>2, <2>3
  <2> QED BY <1>2, <1>3, <2>4 DEF Abstract!vars
<1> QED BY <1>4, <1>5, <1>6

\* A run cut off in an upload breaks the file it was uploading, or gives up.
LEMMA RefinesTorn == ASSUME IInv, UploadTorn PROVE Abstract!Next
<1> DEFINE f == Paths[i]
<1>1. f \in File /\ pc = "write"
  BY Positions DEF IInv, TypeOK, UploadTorn, InLoop
<1>2. /\ Rendered(f) /\ Store(f, Torn)
      /\ UNCHANGED <<desired, wanted, onEdge, edgeConn, podman>>
      /\ pc' = "idle" /\ result' = "error"
  BY DEF UploadTorn, Fails
<1> HIDE DEF f
<1>3. wantBar' = wantBar /\ scopeBar' = scopeBar
  BY <1>2, BarFrame
<1>4. CASE <<"file", f>> \notin scopeBar
  <2>1. haveBar' = haveBar
    BY <1>1, <1>2, <1>4, StoreItem
  <2>2. Abstract!GiveUp
    BY <1>1, <1>2, <1>3, <2>1 DEF Abstract!GiveUp, Abstract!End
  <2> QED BY <2>2 DEF Abstract!Next
<1>5. CASE <<"file", f>> \in scopeBar
  <2>1. haveBar' = [haveBar EXCEPT ![<<"file", f>>] = Torn] /\ Place(f) = Remote(f)
    BY <1>1, <1>2, <1>5, StoreItem
  <2>2. /\ wantBar[<<"file", f>>] = desired[f] /\ haveBar[<<"file", f>>] = Place(f)
        /\ <<"file", f>> \in FileItem \cup SecretItem
    BY <1>1, ItemValues
  <2>3. wantBar[<<"file", f>>] # None
    BY <1>2, <2>2 DEF Rendered
  <2>4. Abstract!Break(<<"file", f>>)
    BY <1>1, <1>2, <1>3, <1>5, <2>1, <2>3 DEF Abstract!Break, Abstract!End
  <2> QED BY <2>2, <2>4 DEF Abstract!Next
<1> QED BY <1>4, <1>5

\* A secret that is pushed is repaired, or was right already.
LEMMA RefinesPush ==
    ASSUME IInv, pushSecrets
    PROVE  Abstract!Next \/ UNCHANGED Abstract!vars
<1> DEFINE s == Leaves[i]
           Item == FileItem \cup SecretItem
<1>1. s \in Secret /\ pc = "push"
  BY Positions DEF IInv, TypeOK, pushSecrets, InLoop
<1>2. /\ podman' = [podman EXCEPT ![s] = wanted[s]]
      /\ UNCHANGED <<desired, wanted, onEdge, edgeConn, disk, edgeDisk, pc, result>>
  BY DEF pushSecrets
<1> HIDE DEF s
<1>3. wantBar' = wantBar /\ scopeBar' = scopeBar
  BY <1>2, BarFrame
<1>4. podman \in [Secret -> Desired] /\ wanted[s] \in Version /\ wanted[s] # None
  BY <1>1, ContentAssumption DEF IInv, TypeOK
<1>5. /\ wantBar[<<"secret", s>>] = wanted[s] /\ haveBar[<<"secret", s>>] = podman[s]
      /\ <<"secret", s>> \in Item /\ <<"secret", s>> \in scopeBar
  BY <1>1, ItemValues
<1>6. CASE podman[s] = wanted[s]
  <2>1. podman' = podman
    BY <1>1, <1>2, <1>4, <1>6
  <2> QED BY <1>2, <2>1, RefinesStutter
<1>7. CASE podman[s] # wanted[s]
  <2>1. \A f \in File : haveBar'[<<"file", f>>] = haveBar[<<"file", f>>]
    <3>1. \A f \in File : <<"file", f>> \in FileItem
      BY ItemValues
    <3>2. \A f \in File : Place(f)' = Place(f)
      BY <1>2 DEF Place, CaddyDir
    <3> QED BY <3>1, <3>2 DEF haveBar
  <2>2. \A t \in Secret : haveBar'[<<"secret", t>>] = IF t = s THEN wanted[s] ELSE podman[t]
    <3>1. \A t \in Secret : <<"secret", t>> \in SecretItem /\ <<"secret", t>> \notin FileItem
      BY ItemValues
    <3>2. \A t \in Secret : haveBar'[<<"secret", t>>] = podman'[t]
      BY <3>1 DEF haveBar
    <3> QED BY <1>1, <1>2, <1>4, <3>2
  <2>3. haveBar = [y \in Item |-> haveBar[y]] /\ haveBar' = [y \in Item |-> haveBar'[y]]
    BY DEF haveBar
  <2>4. \A t \in Secret : <<"secret", t>> = <<"secret", s>> => t = s
    OBVIOUS
  <2>5. \A f \in File : <<"file", f>> # <<"secret", s>>
    OBVIOUS
  <2>6. \A y \in Item : haveBar'[y] = IF y = <<"secret", s>> THEN wanted[s] ELSE haveBar[y]
    BY <2>1, <2>2, <2>4, <2>5, ItemValues
  <2>7. haveBar' = [haveBar EXCEPT ![<<"secret", s>>] = wanted[s]]
    <3> DEFINE x == <<"secret", s>>
    <3> HIDE DEF x, Item
    <3>1. haveBar' = [haveBar EXCEPT ![x] = wanted[s]]
      BY <2>3, <2>6 DEF x
    <3> QED BY <3>1 DEF x
  <2>8. ~Abstract!Right(<<"secret", s>>)
    BY <1>4, <1>5, <1>7 DEF Abstract!Right
  <2>9. Abstract!Repair(<<"secret", s>>)
    BY <1>1, <1>2, <1>3, <1>5, <2>7, <2>8 DEF Abstract!Repair
  <2> QED BY <1>5, <2>9 DEF Abstract!Next
<1> QED BY <1>6, <1>7

\* When the marker is written all the run answers for is right.
LEMMA RefinesSucceed == ASSUME IInv, WriteMarker PROVE Abstract!Next
<1>1. /\ \A f \in File : UpToDate(f)
      /\ podman = wanted /\ pc = "marker" /\ pc' = "idle" /\ result' = "ok"
      /\ UNCHANGED <<desired, wanted, disk, edgeDisk, podman, onEdge, edgeConn>>
  BY DEF WriteMarker, IInv, FilesInv, SecretsInv, Past, Phase
<1>2. wantBar' = wantBar /\ haveBar' = haveBar /\ scopeBar' = scopeBar
  BY <1>1, BarFrame
<1>3. ASSUME NEW f \in File, <<"file", f>> \in scopeBar PROVE Abstract!Right(<<"file", f>>)
  <2>1. f \in Fragments => onEdge \/ edgeConn
    BY <1>3, ItemValues
  <2>2. Place(f) = Remote(f)
    BY <2>1 DEF Place, CaddyDir, Remote, ToEdge, IInv, ControlInv
  <2>3. Rendered(f) => Place(f) = desired[f]
    BY <1>1, <2>2 DEF UpToDate, remoteMatches
  <2> QED BY <2>3, ItemValues DEF Abstract!Right, Rendered
<1>4. ASSUME NEW s \in Secret PROVE Abstract!Right(<<"secret", s>>)
  BY <1>1, ItemValues DEF Abstract!Right
<1>5. scopeBar \subseteq FileItem \cup SecretItem
  BY DEF scopeBar
<1>6. \A x \in scopeBar : Abstract!Right(x)
  BY <1>3, <1>4, <1>5, ItemValues
<1>7. Abstract!Succeed
  BY <1>1, <1>2, <1>6 DEF Abstract!Succeed, Abstract!End
<1> QED BY <1>7 DEF Abstract!Next

\* Every step of DeployStack is a step of the reconciler, or none.
LEMMA RefinesStep == ASSUME IInv, Next PROVE Abstract!Next \/ UNCHANGED Abstract!vars
<1>1. CASE Edit
  <2>1. /\ pc = "idle" /\ pc' = "idle" /\ result' = "none"
        /\ UNCHANGED <<disk, edgeDisk, podman, onEdge, edgeConn>>
    BY <1>1 DEF Edit
  <2>2. haveBar' = haveBar /\ scopeBar' = scopeBar
    BY <2>1, BarFrame
  <2>3. desired' \in [File -> Desired] /\ wanted' \in [Secret -> Version]
    BY TypeStep DEF IInv, TypeOK
  <2>4. \A x \in FileItem \cup SecretItem : wantBar'[x] \in Version \cup {None}
    <3>1. \A f \in File : wantBar'[<<"file", f>>] = desired'[f]
      BY ItemValues DEF wantBar
    <3>2. \A s \in Secret : wantBar'[<<"secret", s>>] = wanted'[s]
      BY ItemValues DEF wantBar
    <3> QED BY <2>3, <3>1, <3>2, ItemValues DEF Desired
  <2>5. wantBar' \in [FileItem \cup SecretItem -> Version \cup {None}]
    BY <2>4 DEF wantBar
  <2>6. Abstract!Want
    BY <2>1, <2>2, <2>5 DEF Abstract!Want
  <2> QED BY <2>6 DEF Abstract!Next
<1>2. CASE Reboot
  <2>1. /\ UNCHANGED <<desired, wanted, disk, edgeDisk, podman, onEdge, edgeConn>>
        /\ pc' = "idle" /\ result' = IF pc = "idle" THEN result ELSE "error"
    BY <1>2 DEF Reboot
  <2> QED BY <2>1, RefinesStutter, RefinesGiveUp
<1>3. CASE Begin \/ BeginWithoutEdge
  <2>1. /\ pc = "idle" /\ pc' = "push" /\ result' = "none"
        /\ UNCHANGED <<onEdge, desired, wanted, disk, edgeDisk, podman>>
    BY <1>3, EnterFrame DEF IInv, TypeOK
  <2>2. wantBar' = wantBar /\ haveBar' = haveBar
    BY <2>1, BarFrame
  <2>3. scopeBar' \subseteq FileItem \cup SecretItem
    BY DEF scopeBar
  <2>4. Abstract!Start
    BY <2>1, <2>2, <2>3 DEF Abstract!Start
  <2> QED BY <2>4 DEF Abstract!Next
<1>4. CASE pushSecrets
  BY <1>4, RefinesPush
<1>5. CASE WriteFileSudo \/ ProbeFails
  BY <1>5, RefinesUpload DEF WriteFileSudo, ProbeFails
<1>6. CASE UploadTorn
  BY <1>6, RefinesTorn
<1>7. CASE WriteMarker
  BY <1>7, RefinesSucceed
<1>8. CASE RestartFails \/ StartUnknownUnit \/ HealthCheckFails \/ Abort
  <2>1. /\ UNCHANGED <<desired, wanted, disk, edgeDisk, podman, onEdge, edgeConn>>
        /\ pc # "idle" /\ pc' = "idle" /\ result' = "error"
    BY <1>8 DEF RestartFails, StartUnknownUnit, HealthCheckFails, Abort, Fails, InLoop
  <2> QED BY <2>1, RefinesGiveUp
<1>9. CASE SecretsPushed \/ FilesWritten \/ UnitsRestarted \/ UnitsStarted
  BY <1>9, RefinesStutter DEF SecretsPushed, FilesWritten, UnitsRestarted, UnitsStarted, Advance
<1>10. CASE CaddyReloads \/ SkipFile \/ SkipUnit
  BY <1>10, RefinesStutter DEF CaddyReloads, SkipFile, SkipUnit
<1>11. CASE ReloadEdge \/ DaemonReload
  BY <1>11, RefinesStutter DEF ReloadEdge, DaemonReload, UnitPhase
<1>12. CASE runHooks \/ runHealthCheck
  BY <1>12, RefinesStutter DEF runHooks, runHealthCheck
<1>13. CASE RestartUnit \/ StartUnit
  BY <1>13, RefinesStutter DEF RestartUnit, StartUnit, Launch
<1> QED BY NextCases, <1>1, <1>2, <1>3, <1>4, <1>5, <1>6, <1>7, <1>8, <1>9, <1>10, <1>11,
           <1>12, <1>13

\* DeployStack implements Reconciler for every stack, every history of edits
\* and every sequence of faults.
THEOREM Refinement == Spec => ImplementsReconciler
<1>1. ASSUME IInv, [Next]_vars PROVE [Abstract!Next]_(Abstract!vars)
  <2>1. CASE Next
    BY <1>1, <2>1, RefinesStep
  <2>2. CASE UNCHANGED vars
    BY <2>2, RefinesStutter DEF vars
  <2> QED BY <1>1, <2>1, <2>2
<1> QED BY <1>1, RefinesInit, Inductive, PTL DEF Spec, ImplementsReconciler, Abstract!Spec
=============================================================================
