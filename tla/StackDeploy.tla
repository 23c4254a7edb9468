---------------------------- MODULE StackDeploy ----------------------------
(***************************************************************************)
(* Repeated deploys of ONE stack to ONE host over SSH: deploy.DeployStack  *)
(* of internal/deploy/stack.go, entered from deployHost of                 *)
(* internal/cli/hosts.go.                                                  *)
(*                                                                         *)
(* The CLI keeps no record of what an earlier run did.  Whether a unit has *)
(* to be restarted, or Caddy reloaded, is decided by which files THIS run  *)
(* had to write.  The model keeps apart the three places a file's content  *)
(* lives in: the workspace (desired), the remote disk (disk, edgeDisk),    *)
(* and the process that read it when it last started (run, caddy).         *)
(*                                                                         *)
(* Simplifications.                                                        *)
(*  - A file's content is an opaque element of Version; None is no file,   *)
(*    and a template that renders to nothing.                              *)
(*  - A .container file stands for the unit Quadlet generates from it.     *)
(*  - Every unit reads every config file and secret of its stack.          *)
(*  - The workspace is edited between runs: a run reads it once, at start. *)
(***************************************************************************)
EXTENDS Naturals, Sequences

CONSTANTS
    Quadlets,     \* the stack's .container files under quadletDir
    Configs,      \* its other files, bind-mounted into the containers
    Fragments,    \* its files under caddyFragmentDir
    Paths,        \* all of these, in render.SortedPaths order
    Leaves,       \* the leaf names of its secrets, in sorted order
    HealthUnits,  \* the units its health checks probe
    ReloadHook,   \* it has the post_deploy hook that reloads the local Caddy
    Version,      \* possible contents of a file or secret
    None,         \* no file / an empty rendering
    Torn,         \* a file cut short by a connection lost during the upload
    MaxEdits,     \* bound: edits of the workspace
    MaxFaults     \* bound: commands that fail, connections that drop, reboots

File    == Quadlets \cup Configs \cup Fragments
Content == Version \cup {None, Torn}
Desired == Version \cup {None}
Secret  == {Leaves[k] : k \in 1..Len(Leaves)}

ASSUME FilesAssumption ==
    /\ Quadlets \cap Configs = {}
    /\ Quadlets \cap Fragments = {}
    /\ Configs \cap Fragments = {}
ASSUME PathsAssumption ==
    /\ Paths \in Seq(File)
    /\ \A f \in File : \E k \in 1..Len(Paths) : Paths[k] = f
ASSUME LeavesAssumption == Leaves \in Seq(STRING)
ASSUME ContentAssumption ==
    /\ None \notin Version
    /\ Torn \notin Version
    /\ None # Torn
ASSUME OtherAssumption ==
    /\ HealthUnits \subseteq Quadlets
    /\ ReloadHook \in BOOLEAN
    /\ MaxEdits \in Nat
    /\ MaxFaults \in Nat

VARIABLES
    \* the operator's side
    onEdge,      \* the target host is itself the edge (it carries base)
    desired,     \* what render.Stack yields for each file now
    wanted,      \* the value of each secret in SSM
    \* the fleet
    disk,        \* the files on the target host
    edgeDisk,    \* the Caddy fragments on the edge, when it is another host
    podman,      \* the podman secrets on the target host
    systemd,     \* the unit definitions as of the last daemon-reload
    up,          \* the units that are running
    run,         \* what each unit read when it was last started
    caddy,       \* the fragments in Caddy's loaded configuration
    marker,      \* the .deployed marker exists
    \* the current run of DeployStack
    pc,
    i,           \* position in the loop the run is in
    edgeConn,    \* opts.Edge # nil
    quadletChanged,
    edgeFragmentChanged,
    result,      \* how the last run ended, if nothing was edited since
    \* bounds
    edits,
    faults,
    \* history
    tainted,     \* "units", "caddy": a run was cut off while owing these a restart
    noop         \* this run found every file current, and nothing disturbed it

given == <<onEdge, desired, wanted, edits>>
files == <<disk, edgeDisk, podman, marker>>
procs == <<systemd, up, run, caddy>>
flags == <<edgeConn, quadletChanged, edgeFragmentChanged>>
aux   == <<faults, tainted, noop>>
vars  == <<given, files, procs, pc, i, flags, result, aux>>

Phase == {"idle", "push", "write", "edge", "reload", "restart", "start",
          "hooks", "health", "marker"}

Loaded == [unit : Content, config : [Configs -> Content], secret : [Secret -> Desired]]

(***************************************************************************)
(* Type correctness.                                                       *)
(***************************************************************************)
TypeOK ==
    /\ onEdge \in BOOLEAN
    /\ desired \in [File -> Desired]
    /\ wanted \in [Secret -> Version]
    /\ disk \in [File -> Content]
    /\ edgeDisk \in [Fragments -> Content]
    /\ podman \in [Secret -> Desired]
    /\ systemd \in [Quadlets -> Content]
    /\ up \subseteq Quadlets
    /\ run \in [Quadlets -> Loaded]
    /\ caddy \in [Fragments -> Content]
    /\ marker \in BOOLEAN
    /\ pc \in Phase
    /\ i \in Nat \ {0}
    /\ edgeConn \in BOOLEAN
    /\ quadletChanged \in BOOLEAN
    /\ edgeFragmentChanged \in BOOLEAN
    /\ result \in {"none", "ok", "error"}
    /\ edits \in Nat
    /\ faults \in Nat
    /\ tainted \subseteq {"units", "caddy"}
    /\ noop \in BOOLEAN

----------------------------------------------------------------------------
(***************************************************************************)
(* Where a file goes, and what a process reads.                            *)
(***************************************************************************)

Rendered(f) == desired[f] # None

\* A fragment goes to the edge when there is a connection to it, and is
\* otherwise written where it stands, on the target host.
ToEdge(f) == edgeConn /\ f \in Fragments

Remote(f) == IF ToEdge(f) THEN edgeDisk[f] ELSE disk[f]

\* Mutant: the file is taken for current as soon as it exists.
remoteMatches_Exists(f) == Remote(f) # None

\* Mutant: the file is compared on the target host, wherever it goes.
remoteMatches_Here(f) == disk[f] = desired[f]

remoteMatches(f) == Remote(f) = desired[f]

\* Mutant: a stack with a marker is not compared again.
UpToDate_OnceMarked(f) == marker \/ (Rendered(f) => remoteMatches(f))

\* The loop over the files has nothing to do for f.
UpToDate(f) == Rendered(f) => remoteMatches(f)

\* The directory Caddy imports is on its own host.
CaddyDir == IF onEdge THEN [f \in Fragments |-> disk[f]] ELSE edgeDisk

\* What a unit reads if it is started now from definition c.
Reads(c) == [unit   |-> c,
             config |-> [f \in Configs |-> disk[f]],
             secret |-> podman]

----------------------------------------------------------------------------
(***************************************************************************)
(* The initial state: a bootstrapped host no stack was deployed to, and a  *)
(* first release to deploy to it.                                          *)
(***************************************************************************)
Init ==
    /\ onEdge \in BOOLEAN
    /\ \E v \in Version : /\ desired = [f \in File |-> v]
                         /\ wanted = [s \in Secret |-> v]
    /\ disk = [f \in File |-> None]
    /\ edgeDisk = [f \in Fragments |-> None]
    /\ podman = [s \in Secret |-> None]
    /\ systemd = [q \in Quadlets |-> None]
    /\ up = {}
    /\ run = [q \in Quadlets |->
                 [unit   |-> None,
                  config |-> [f \in Configs |-> None],
                  secret |-> [s \in Secret |-> None]]]
    /\ caddy = [f \in Fragments |-> None]
    /\ marker = FALSE
    /\ pc = "idle"
    /\ i = 1
    /\ edgeConn = FALSE
    /\ quadletChanged = FALSE
    /\ edgeFragmentChanged = FALSE
    /\ result = "none"
    /\ edits = 0
    /\ faults = 0
    /\ tainted = {}
    /\ noop = FALSE

----------------------------------------------------------------------------
(***************************************************************************)
(* One run of DeployStack.                                                 *)
(***************************************************************************)

\* What a run cut off here leaves undone, and no later run will know of.
Owed ==
    {t \in {"units"} : quadletChanged /\ pc \in {"write", "edge", "reload", "restart"}}
      \cup {t \in {"caddy"} : edgeFragmentChanged /\ pc \in {"write", "edge"}}

\* The run returns an error from where it is.
Fails ==
    /\ pc' = "idle"
    /\ result' = "error"
    /\ noop' = FALSE
    /\ UNCHANGED <<flags, i>>

Fault ==
    /\ faults < MaxFaults
    /\ faults' = faults + 1

\* The run is in a loop over seq and has not reached its end.
InLoop(phase, seq) == pc = phase /\ i <= Len(seq)

\* deployHost dials the edge unless the target is the edge.
Enter(connected) ==
    /\ pc = "idle"
    /\ pc' = "push"
    /\ i' = 1
    /\ edgeConn' = connected
    /\ quadletChanged' = FALSE
    /\ edgeFragmentChanged' = FALSE
    /\ result' = "none"
    /\ noop' = \A f \in File :
                  Rendered(f) =>
                    desired[f] = IF connected /\ f \in Fragments THEN edgeDisk[f] ELSE disk[f]
    /\ UNCHANGED <<given, files, procs, tainted>>

Begin ==
    /\ Enter(~onEdge)
    /\ UNCHANGED faults

\* The dial fails: the error is dropped and opts.Edge stays nil.
BeginWithoutEdge ==
    /\ ~onEdge
    /\ Fault
    /\ Enter(FALSE)

\* Mutant: a secret that exists already is not replaced.
pushSecrets_CreateOnly ==
    /\ InLoop("push", Leaves)
    /\ podman' = [podman EXCEPT ![Leaves[i]] = IF @ = None THEN wanted[Leaves[i]] ELSE @]
    /\ i' = i + 1
    /\ UNCHANGED <<given, procs, flags, aux, disk, edgeDisk, marker, pc, result>>

\* pushSecrets: podman secret create --replace, one leaf after the other.
pushSecrets ==
    /\ InLoop("push", Leaves)
    /\ podman' = [podman EXCEPT ![Leaves[i]] = wanted[Leaves[i]]]
    /\ i' = i + 1
    /\ UNCHANGED <<given, procs, flags, aux, disk, edgeDisk, marker, pc, result>>

\* The loops end; render.Stack, dropEmpty and prePull change nothing here.
Advance(from, to, seq) ==
    /\ pc = from
    /\ i > Len(seq)
    /\ pc' = to
    /\ i' = 1
    /\ UNCHANGED <<given, files, procs, flags, aux, result>>

SecretsPushed  == Advance("push", "write", Leaves)
FilesWritten   == Advance("write", "edge", Paths)
UnitsRestarted == Advance("restart", "hooks", Paths)
UnitsStarted   == Advance("start", "hooks", Paths)

\* Put content c at file f, on the edge or on the target host.
Store(f, c) ==
    IF ToEdge(f)
    THEN edgeDisk' = [edgeDisk EXCEPT ![f] = c] /\ UNCHANGED disk
    ELSE disk' = [disk EXCEPT ![f] = c] /\ UNCHANGED edgeDisk

\* The loop body for a file that is up to date, or that renders to nothing.
SkipFile ==
    /\ InLoop("write", Paths)
    /\ UpToDate(Paths[i])
    /\ i' = i + 1
    /\ UNCHANGED <<given, files, procs, flags, aux, pc, result>>

\* Mutant: the flag of the last file written replaces the earlier ones.
FlagQuadlet_LastOnly(f) == f \in Quadlets

\* Writing f makes a restart due, or leaves it due.
FlagQuadlet(f) == quadletChanged \/ f \in Quadlets

\* The loop body for a file that is written, and what it flags for later.
Upload ==
    /\ InLoop("write", Paths)
    /\ Rendered(Paths[i])
    /\ Store(Paths[i], desired[Paths[i]])
    /\ quadletChanged' = FlagQuadlet(Paths[i])
    /\ edgeFragmentChanged' = (edgeFragmentChanged \/ ToEdge(Paths[i]))
    /\ i' = i + 1
    /\ UNCHANGED <<given, procs, podman, marker, pc, edgeConn, result, tainted>>

WriteFileSudo ==
    /\ Upload
    /\ ~remoteMatches(Paths[i])
    /\ UNCHANGED <<faults, noop>>

\* sha256sum could not be run: the file counts as different and is rewritten.
ProbeFails ==
    /\ Upload
    /\ remoteMatches(Paths[i])
    /\ Fault
    /\ noop' = FALSE

\* The connection drops while the content streams into `cat`: what arrived is
\* moved into place by the shell on the host, and the run ends.  The file was
\* written because it differed, or because its probe failed though it was right.
UploadTorn ==
    /\ InLoop("write", Paths)
    /\ Rendered(Paths[i])
    /\ Store(Paths[i], Torn)
    /\ tainted' = tainted \cup Owed
                    \cup {t \in {"units"} : Paths[i] \in Quadlets}
                    \cup {t \in {"caddy"} : ToEdge(Paths[i])}
    /\ Fault
    /\ Fails
    /\ UNCHANGED <<given, procs, podman, marker>>

\* Mutant: Caddy is reloaded when a quadlet changed.
ReloadCaddy_OnQuadlet == IF quadletChanged THEN edgeDisk ELSE caddy

\* caddy reload on the edge, if a fragment was written there.
ReloadCaddy == IF edgeFragmentChanged THEN edgeDisk ELSE caddy

\* Mutant: the units are restarted on every run.
UnitPhase_AlwaysRestart == "reload"

\* Mutant: the units are only ever started.
UnitPhase_NeverReload == "start"

\* Units are restarted if a quadlet was written, else only started.
UnitPhase == IF quadletChanged THEN "reload" ELSE "start"

ReloadEdge ==
    /\ pc = "edge"
    /\ caddy' = ReloadCaddy
    /\ pc' = UnitPhase
    /\ i' = 1
    /\ UNCHANGED <<given, files, flags, aux, systemd, up, run, result>>

\* Mutant: the daemon-reload is left out.
Generated_Missing == systemd

\* systemctl daemon-reload reruns the generators over every file on disk.
Generated == [q \in Quadlets |-> disk[q]]

DaemonReload ==
    /\ pc = "reload"
    /\ systemd' = Generated
    /\ pc' = "restart"
    /\ i' = 1
    /\ UNCHANGED <<given, files, flags, aux, up, run, caddy, result>>

\* The position of the loop over quadletUnits(files) is at a unit.
AtUnit == Paths[i] \in Quadlets /\ Rendered(Paths[i])

SkipUnit ==
    /\ InLoop("restart", Paths) \/ InLoop("start", Paths)
    /\ ~AtUnit
    /\ i' = i + 1
    /\ UNCHANGED <<given, files, procs, flags, aux, pc, result>>

\* Start unit q from systemd's definition of it.
Launch(q) ==
    /\ systemd[q] \in Version
    /\ up' = up \cup {q}
    /\ run' = [run EXCEPT ![q] = Reads(systemd[q])]
    /\ i' = i + 1
    /\ UNCHANGED <<given, files, flags, aux, systemd, caddy, pc, result>>

RestartUnit ==
    /\ InLoop("restart", Paths) /\ AtUnit
    /\ Launch(Paths[i])

\* The unit stops and does not come back: restart reports it, the run ends.
RestartFails ==
    /\ InLoop("restart", Paths) /\ AtUnit
    /\ up' = up \ {Paths[i]}
    /\ tainted' = tainted \cup Owed
    /\ Fault
    /\ Fails
    /\ UNCHANGED <<given, files, systemd, run, caddy>>

\* systemctl start does nothing to a running unit.
StartUnit ==
    /\ InLoop("start", Paths) /\ AtUnit
    /\ IF Paths[i] \in up
       THEN /\ i' = i + 1
            /\ UNCHANGED <<given, files, procs, flags, aux, pc, result>>
       ELSE Launch(Paths[i])

\* systemctl start of a unit no daemon-reload has produced: "not found".
StartUnknownUnit ==
    /\ InLoop("start", Paths) /\ AtUnit
    /\ Paths[i] \notin up
    /\ systemd[Paths[i]] \notin Version
    /\ Fails
    /\ UNCHANGED <<given, files, procs, faults, tainted>>

\* The post_deploy hooks of scope shared; one of them reloads a local Caddy.
\* Every run writes their scripts anew, beside the marker; nothing else reads them.
runHooks ==
    /\ pc = "hooks"
    /\ caddy' = IF ReloadHook /\ onEdge THEN CaddyDir ELSE caddy
    /\ tainted' = IF ReloadHook /\ onEdge THEN tainted \ {"caddy"} ELSE tainted
    /\ pc' = "health"
    /\ UNCHANGED <<given, files, flags, systemd, up, run, i, result, faults, noop>>

runHealthCheck ==
    /\ pc = "health"
    /\ HealthUnits \subseteq up
    /\ pc' = "marker"
    /\ UNCHANGED <<given, files, procs, flags, aux, i, result>>

\* Nothing answers on a probed port until the probe gives up.
HealthCheckFails ==
    /\ pc = "health"
    /\ ~(HealthUnits \subseteq up)
    /\ Fails
    /\ UNCHANGED <<given, files, procs, faults, tainted>>

WriteMarker ==
    /\ pc = "marker"
    /\ marker' = TRUE
    /\ pc' = "idle"
    /\ result' = "ok"
    /\ noop' = FALSE
    /\ UNCHANGED <<given, procs, flags, disk, edgeDisk, podman, i, faults, tainted>>

\* Any command fails, the connection drops, or the operator interrupts the
\* run.  A command that took effect before its failure was seen is its own
\* step followed by this one.
Abort ==
    /\ pc # "idle"
    /\ tainted' = tainted \cup Owed
    /\ Fault
    /\ Fails
    /\ UNCHANGED <<given, files, procs>>

----------------------------------------------------------------------------
(***************************************************************************)
(* The operator and the fleet.                                             *)
(***************************************************************************)

\* A new engine or workspace renders a file differently (or to nothing), or
\* the value of a secret is replaced in SSM.
Edit ==
    /\ pc = "idle"
    /\ edits < MaxEdits
    /\ edits' = edits + 1
    /\ result' = "none"
    /\ \/ /\ \E f \in File, c \in Desired : desired' = [desired EXCEPT ![f] = c]
          /\ UNCHANGED wanted
       \/ /\ \E s \in Secret, v \in Version : wanted' = [wanted EXCEPT ![s] = v]
          /\ UNCHANGED desired
    /\ UNCHANGED <<files, procs, flags, aux, onEdge, pc, i>>

\* The host reboots: systemd runs its generators over the files on disk and
\* starts every unit they yield.  A run in progress loses its connection.
Reboot ==
    /\ Fault
    /\ systemd' = [q \in Quadlets |-> disk[q]]
    /\ up' = {q \in Quadlets : disk[q] \in Version}
    /\ run' = [q \in Quadlets |-> IF disk[q] \in Version THEN Reads(disk[q]) ELSE run[q]]
    /\ caddy' = IF onEdge THEN CaddyDir ELSE caddy
    /\ tainted' = IF onEdge THEN {} ELSE (tainted \cup Owed) \ {"units"}
    /\ pc' = "idle"
    /\ result' = IF pc = "idle" THEN result ELSE "error"
    /\ noop' = FALSE
    /\ UNCHANGED <<given, files, flags, i>>

\* Caddy rereads its directory for another reason: another stack's deploy, or
\* a reboot of the edge.
CaddyReloads ==
    /\ caddy # CaddyDir
    /\ caddy' = CaddyDir
    /\ tainted' = tainted \ {"caddy"}
    /\ UNCHANGED <<given, files, flags, systemd, up, run, pc, i, result, faults, noop>>

----------------------------------------------------------------------------
RunStep ==
    \/ pushSecrets \/ SecretsPushed
    \/ SkipFile \/ WriteFileSudo \/ FilesWritten
    \/ ReloadEdge \/ DaemonReload
    \/ SkipUnit \/ RestartUnit \/ UnitsRestarted
    \/ StartUnit \/ StartUnknownUnit \/ UnitsStarted
    \/ runHooks \/ runHealthCheck \/ HealthCheckFails \/ WriteMarker

Next ==
    \/ Edit \/ Reboot \/ CaddyReloads
    \/ Begin \/ BeginWithoutEdge
    \/ RunStep
    \/ ProbeFails \/ UploadTorn \/ RestartFails \/ Abort

Spec == Init /\ [][Next]_vars

(***************************************************************************)
(* A run that has started takes its next step: each command returns or     *)
(* times out.  The operator runs the command again until it succeeds.      *)
(***************************************************************************)
Fairness == WF_vars(RunStep) /\ WF_vars(Begin)

FairSpec == Spec /\ Fairness

----------------------------------------------------------------------------
(***************************************************************************)
(* Properties.                                                             *)
(***************************************************************************)

\* A run of DeployStack that returned no error left every rendered file on
\* the machine it chose for it, and every secret in podman, with the content
\* rendered for that run, whatever faults the runs before it met.
OkMeansDelivered ==
    result = "ok" =>
        /\ \A f \in File : Rendered(f) => Remote(f) = desired[f]
        /\ podman = wanted

\* A run that succeeded after it changed a quadlet has every rendered unit
\* running from the definition, the config files and the secrets on the host.
RestartedMeansCurrent ==
    (result = "ok" /\ quadletChanged) =>
        \A q \in Quadlets : Rendered(q) => q \in up /\ run[q] = Reads(disk[q])

\* Between runs, a unit is down or runs from another definition than the one
\* on disk only if some run was cut off after it had changed a quadlet and
\* before it had restarted the units, and the host was not rebooted since.
StaleOnlyAfterAbort ==
    (pc = "idle" /\ "units" \notin tainted) =>
        \A q \in Quadlets : disk[q] \in Version => q \in up /\ run[q].unit = disk[q]

\* Caddy serves the fragments in its directory: on another host, unless a run
\* was cut off between writing one and reloading; on the target host, after a
\* run of a stack with the reload hook that succeeded.
EdgeServesItsFragments ==
    /\ (pc = "idle" /\ ~onEdge /\ "caddy" \notin tainted) => caddy = edgeDisk
    /\ (result = "ok" /\ onEdge /\ ReloadHook) => caddy = CaddyDir

\* A run that finds every file current writes none of the stack's files again
\* and restarts nothing that is running ("re-runs idempotent").  The secrets,
\* the hook scripts and the marker are written by every run.
NoopRunRestartsNothing ==
    [][noop /\ noop' =>
          /\ UNCHANGED <<disk, edgeDisk, systemd>>
          /\ \A q \in up : q \in up' /\ run'[q] = run[q]]_vars

\* A unit that a run starts or restarts, however the run ends, reads the secrets
\* and the config files this run has rendered, and comes up from the definition
\* it has rendered, unless an earlier run was cut off while it owed the units a
\* restart: a plain start then takes what systemd read before.
StartsWithItsInputs ==
    [][\A q \in Quadlets :
          (pc' # "idle" /\ run'[q] # run[q]) =>
              /\ run'[q].secret = wanted
              /\ \A f \in Configs : Rendered(f) => run'[q].config[f] = desired[f]
              /\ run'[q].unit = desired[q] \/ "units" \in tainted]_vars

\* A run that meets no fault of its own fails only when an earlier run was cut
\* off while it owed the units a restart (systemd then knows no unit to start,
\* and no later run reloads it), or when a health check probes a unit that is
\* not rendered.
FailsOnlyAfterAbort ==
    [][(pc # "idle" /\ result' = "error" /\ faults' = faults) =>
          "units" \in tainted \/ \E q \in HealthUnits : ~Rendered(q)]_vars

\* Once edits and faults stop, running the deploy again and again puts every
\* file where it belongs for good, a fragment on the edge included.
RetriesDeliverFiles ==
    <>[](\A f \in File : Rendered(f) =>
            desired[f] = IF f \in Fragments THEN CaddyDir[f] ELSE disk[f])
=============================================================================
