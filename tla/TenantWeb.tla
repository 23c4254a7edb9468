----------------------------- MODULE TenantWeb -----------------------------
(***************************************************************************)
(* The public web endpoints of the tenants: provisionTenantWeb of          *)
(* internal/cli/web.go, inside `mksrv tenant apply`.  A tenant's endpoint  *)
(* is a vhost fragment in the edge's Caddy directory; an endpoint with     *)
(* `sso` is gated by the tenant's own oauth2-proxy, which listens on a     *)
(* loopback port of the edge.                                              *)
(*                                                                         *)
(* Neither ports nor files are recorded.  A port is counted over all       *)
(* tenants by every run; the fragments of a tenant are found by a pattern  *)
(* of file names; a gate is restarted only if this run changed its unit.   *)
(*                                                                         *)
(* Tenants are numbered in the order of their ids and have one hostname    *)
(* each.  Ids and hostnames are sequences of the labels between their      *)
(* hyphens (or dots, which webFragmentPath turns into hyphens).  The unit  *)
(* file of a gate is told by the port in it.  A file that cannot be        *)
(* written stays as it is; StackDeploy is about uploads that are cut off.  *)
(***************************************************************************)
EXTENDS Naturals, Sequences, FiniteSets, SequencesExt

CONSTANTS
    N,          \* number of tenant ids that may occur in the workspace
    Id,         \* the labels of each tenant's id
    Slug,       \* the labels of each tenant's hostname
    MaxEdits,   \* bound: edits of the workspace
    MaxFaults   \* bound: commands that fail, reboots of the edge

Tenant == 1..N

ASSUME NAssumption == N \in Nat \ {0}
ASSUME NamesAssumption ==
    \A t \in Tenant : Id[t] \in Seq(STRING) /\ Slug[t] \in Seq(STRING) \ {<<>>}
ASSUME BoundsAssumption == MaxEdits \in Nat /\ MaxFaults \in Nat

\* absent: no tenants/<id>.yaml; none: no endpoint on the edge; open, sso: one.
Mode == {"absent", "none", "open", "sso"}

webSSOBasePort == 4180
Port == webSSOBasePort..(webSSOBasePort + N - 1)

webFragmentPath(t) == Id[t] \o Slug[t]
Path == {webFragmentPath(t) : t \in Tenant}

\* A vhost: whose hostname it serves, and through the gate on which port, if any.
Vhost == [of : Tenant, gate : Port \cup {0}]
NoFile == [of |-> 0, gate |-> 0]

VARIABLES
    mode,       \* the workspace
    unit,       \* the port in each gate's .container file, 0 when there is none
    gate,       \* the port each gate's running unit is to listen on, 0 when stopped
    bound,      \* the gates that have their port; the others are restarted by systemd
    fragment,   \* the files in Caddy's directory
    caddy,      \* those it has loaded
    pc,
    selected,   \* the tenants this tenant apply was asked for
    todo,       \* those the current loop has still to visit
    changed,    \* what this run has changed: "units", "fragments"
    restarts,   \* restartUnits
    result,     \* how the last run ended, if nothing happened since
    edits, faults,
    moved,      \* history: ports were given anew since all tenants were applied
    missed,     \* history: this run has dropped an error
    owed        \* history: what a command that failed has left undone

edge == <<unit, gate, bound, fragment, caddy>>
job  == <<pc, selected, todo, changed, restarts>>
hist == <<moved, missed, owed>>
vars == <<mode, edge, job, result, edits, faults, hist>>

Phase == {"idle", "apply", "gate", "stale", "write", "reload", "restart", "caddy", "rest"}

\* Gates that do not run from their unit file, and a Caddy that has not reloaded.
Debts   == [gates : SUBSET Tenant, caddy : BOOLEAN]
NoDebts == [gates |-> {}, caddy |-> FALSE]

\* Every port is one of the N, and a gate holds one only while its unit runs.
TypeOK ==
    /\ mode \in [Tenant -> Mode]
    /\ unit \in [Tenant -> Port \cup {0}]
    /\ gate \in [Tenant -> Port \cup {0}]
    /\ bound \subseteq {t \in Tenant : gate[t] # 0}
    /\ fragment \in [Path -> Vhost \cup {NoFile}]
    /\ caddy \in [Path -> Vhost \cup {NoFile}]
    /\ pc \in Phase
    /\ selected \subseteq Tenant
    /\ todo \subseteq selected
    /\ changed \subseteq {"units", "fragments"}
    /\ restarts \subseteq selected
    /\ result \in {"none", "ok", "error"}
    /\ edits \in 0..MaxEdits
    /\ faults \in 0..MaxFaults
    /\ {moved, missed} \subseteq BOOLEAN
    /\ owed \in Debts

----------------------------------------------------------------------------
Declared == {t \in Tenant : mode[t] # "absent"}
WebSSO(t) == mode[t] = "sso"
HasEndpoint(t) == mode[t] \in {"open", "sso"}

\* Mutant: ports counted from one.
webSSOPort_FromOne(t) == webSSOBasePort + Cardinality({u \in Declared : u <= t})

\* Mutant: ports counted over the tenants that have a gate.
webSSOPort_Gated(t) == webSSOBasePort + Cardinality({u \in Declared : u < t /\ WebSSO(u)})

\* The index of the tenant among the sorted ids of all tenants.
webSSOPort(t) == webSSOBasePort + Cardinality({u \in Declared : u < t})

webFragment(t) == [of |-> t, gate |-> IF WebSSO(t) THEN webSSOPort(t) ELSE 0]

\* The files the shell pattern 25-web-<id>-*.caddy stands for.
Matches(t) == {p \in Path : fragment[p] # NoFile /\ IsStrictPrefix(Id[t], p)}

\* Those of them the tenant has no endpoint for.
Stale(t) == Matches(t) \ (IF HasEndpoint(t) THEN {webFragmentPath(t)} ELSE {})

\* The loop visits the tenants in order and is at t.
Turn(t) == t \in todo /\ \A u \in todo : t <= u

\* A fleet that has served tenants 2..N so far, each behind its gate.
Init ==
    /\ mode = [t \in Tenant |-> IF t = 1 THEN "absent" ELSE "sso"]
    /\ unit = [t \in Tenant |-> IF t = 1 THEN 0 ELSE webSSOPort(t)]
    /\ gate = unit
    /\ bound = Declared
    /\ fragment = [p \in Path |-> IF \E t \in Declared : webFragmentPath(t) = p
                                  THEN webFragment(CHOOSE t \in Declared : webFragmentPath(t) = p)
                                  ELSE NoFile]
    /\ caddy = fragment
    /\ pc = "idle"
    /\ selected = {} /\ todo = {} /\ changed = {} /\ restarts = {}
    /\ result = "none"
    /\ edits = 0 /\ faults = 0
    /\ moved = FALSE /\ missed = FALSE
    /\ owed = NoDebts

Fault == faults < MaxFaults /\ faults' = faults + 1

----------------------------------------------------------------------------
\* The operator edits tenants/<id>.yaml between two runs.
Edit(t, m) ==
    /\ pc = "idle"
    /\ edits < MaxEdits
    /\ mode[t] # m
    /\ mode' = [mode EXCEPT ![t] = m]
    /\ edits' = edits + 1
    /\ result' = "none"
    /\ moved' = (moved \/ "absent" \in {m, mode[t]})
    /\ UNCHANGED <<edge, job, faults, missed, owed>>

\* runTenantApply for all tenants, or for the one named on the command line.
Begin(ids) ==
    /\ pc = "idle"
    /\ pc' = "apply"
    /\ selected' = ids
    /\ todo' = {} /\ changed' = {} /\ restarts' = {}
    /\ result' = "none"
    /\ missed' = FALSE
    /\ UNCHANGED <<mode, edge, edits, faults, moved, owed>>

\* provisionTenantWeb is entered once the stages before it are done.
provisionTenantWeb ==
    /\ pc = "apply"
    /\ pc' = "gate"
    /\ todo' = selected
    /\ UNCHANGED <<mode, edge, selected, changed, restarts, result, edits, faults, hist>>

\* The run ends with an error and leaves what it has not done yet.
Fails(removed) ==
    /\ Fault
    /\ pc' = "idle"
    /\ result' = "error"
    /\ owed' = [owed EXCEPT !.gates = @ \cup restarts,
                            !.caddy = @ \/ removed # {} \/ (pc # "rest" /\ "fragments" \in changed)]
    /\ UNCHANGED <<mode, selected, todo, changed, restarts, edits, moved, missed>>

AtGate(t) == pc = "gate" /\ Turn(t)

\* The tenant's unit file is there and up to date.
KeepUnit(t) ==
    /\ AtGate(t)
    /\ WebSSO(t)
    /\ unit[t] = webSSOPort(t)
    /\ pc' = "stale"
    /\ UNCHANGED <<mode, edge, selected, todo, changed, restarts, result, edits, faults, hist>>

\* Mutant: the unit is not put on the list of those to restart.
Queued_Forgotten(t) == restarts

Queued(t) == restarts \cup {t}

\* The unit file differs, or could not be read.
WriteUnit(t) ==
    /\ AtGate(t)
    /\ WebSSO(t)
    /\ \/ unit[t] # webSSOPort(t) /\ UNCHANGED faults
       \/ unit[t] = webSSOPort(t) /\ Fault
    /\ unit' = [unit EXCEPT ![t] = webSSOPort(t)]
    /\ changed' = changed \cup {"units"}
    /\ restarts' = Queued(t)
    /\ pc' = "stale"
    /\ UNCHANGED <<mode, gate, bound, fragment, caddy, selected, todo, result, edits, hist>>

\* A tenant without an sso endpoint has no gate, or its gate is torn down.  The
\* errors of those commands are dropped: `done` are the ones that worked.
NoGate(t) ==
    /\ AtGate(t)
    /\ ~WebSSO(t)
    /\ unit[t] = 0
    /\ pc' = "stale"
    /\ UNCHANGED <<mode, edge, selected, todo, changed, restarts, result, edits, faults, hist>>

\* Mutant: the unit's file is removed, its service never stopped.
Stopped_Never(done) == FALSE

Stopped(done) == "stop" \in done

TearDown(t, done) ==
    /\ AtGate(t)
    /\ ~WebSSO(t)
    /\ unit[t] # 0
    /\ gate' = IF Stopped(done) THEN [gate EXCEPT ![t] = 0] ELSE gate
    /\ bound' = IF Stopped(done) THEN bound \ {t} ELSE bound
    /\ unit' = IF "rm" \in done THEN [unit EXCEPT ![t] = 0] ELSE unit
    /\ owed' = [owed EXCEPT !.gates = IF {"stop", "rm"} \subseteq done THEN @ \ {t}
                                      ELSE IF {"stop", "rm"} \cap done = {} THEN @
                                      ELSE @ \cup {t}]
    /\ \/ done = {"test", "stop", "rm"} /\ UNCHANGED <<faults, missed>>
       \/ done # {"test", "stop", "rm"} /\ Fault /\ missed' = TRUE
    /\ changed' = IF "test" \in done THEN changed \cup {"units"} ELSE changed
    /\ pc' = "stale"
    /\ UNCHANGED <<mode, fragment, caddy, selected, todo, restarts, result, edits, moved>>

----------------------------------------------------------------------------
Without(paths) == [p \in Path |-> IF p \in paths THEN NoFile ELSE fragment[p]]

\* The files the pattern finds and the tenant does not want are removed.
RemoveStale(t) ==
    /\ pc = "stale" /\ Turn(t)
    /\ fragment' = Without(Stale(t))
    /\ changed' = IF Stale(t) = {} THEN changed ELSE changed \cup {"fragments"}
    /\ pc' = "write"
    /\ UNCHANGED <<mode, unit, gate, bound, caddy, selected, todo, restarts, result, edits,
                   faults, hist>>

\* ls cannot be run: the stale files are not looked at.
ListFails(t) ==
    /\ pc = "stale" /\ Turn(t)
    /\ Fault
    /\ missed' = TRUE
    /\ pc' = "write"
    /\ UNCHANGED <<mode, edge, selected, todo, changed, restarts, result, edits, moved, owed>>

RemoveFails(t) ==
    /\ pc = "stale" /\ Turn(t)
    /\ \E removed \in SUBSET Stale(t) :
          /\ removed # Stale(t)
          /\ fragment' = Without(removed)
          /\ Fails(removed)
    /\ UNCHANGED <<unit, gate, bound, caddy>>

\* The vhosts are written whether or not they differ; then comes the next tenant.
WriteFragment(t) ==
    /\ pc = "write" /\ Turn(t)
    /\ IF HasEndpoint(t)
       THEN /\ fragment' = [fragment EXCEPT ![webFragmentPath(t)] = webFragment(t)]
            /\ changed' = changed \cup {"fragments"}
       ELSE UNCHANGED <<fragment, changed>>
    /\ todo' = todo \ {t}
    /\ pc' = "gate"
    /\ UNCHANGED <<mode, unit, gate, bound, caddy, selected, restarts, result, edits, faults,
                   hist>>

----------------------------------------------------------------------------
\* After the loop: systemd, the gates, Caddy.  A run that changed nothing skips them.
LoopDone ==
    /\ pc = "gate" /\ todo = {}
    /\ pc' = IF "units" \in changed THEN "reload"
             ELSE IF changed # {} THEN "caddy" ELSE "rest"
    /\ UNCHANGED <<mode, edge, selected, todo, changed, restarts, result, edits, faults, hist>>

\* A gate without its port is being restarted all the time, and now from its
\* new unit.
DaemonReload ==
    /\ pc = "reload"
    /\ gate' = [t \in Tenant |-> IF t \in bound \/ gate[t] = 0 THEN gate[t] ELSE unit[t]]
    /\ pc' = "restart"
    /\ UNCHANGED <<mode, unit, bound, fragment, caddy, selected, todo, changed, restarts,
                   result, edits, faults, hist>>

\* systemctl restart returns before the process has its port.
Restart ==
    /\ pc = "restart"
    /\ \E t \in restarts :
          /\ \A u \in restarts : t <= u
          /\ gate' = [gate EXCEPT ![t] = unit[t]]
          /\ bound' = bound \ {t}
          /\ restarts' = restarts \ {t}
          /\ owed' = [owed EXCEPT !.gates = @ \ {t}]
    /\ UNCHANGED <<mode, unit, fragment, caddy, pc, selected, todo, changed, result, edits,
                   faults, moved, missed>>

RestartsDone ==
    /\ pc = "restart" /\ restarts = {}
    /\ pc' = "caddy"
    /\ UNCHANGED <<mode, edge, selected, todo, changed, restarts, result, edits, faults, hist>>

\* Mutant: only a run that wrote a unit reloads Caddy.
Reloaded_OnUnits == IF "units" \in changed THEN fragment ELSE caddy

Reloaded == fragment

ReloadCaddy ==
    /\ pc = "caddy"
    /\ caddy' = Reloaded
    /\ owed' = [owed EXCEPT !.caddy = FALSE]
    /\ pc' = "rest"
    /\ UNCHANGED <<mode, unit, gate, bound, fragment, selected, todo, changed, restarts, result,
                   edits, faults, moved, missed>>

\* What a tenant whose file was deleted has left on the edge.
Orphaned(t) == t \notin Declared /\ (gate[t] # 0 \/ \E p \in Path : caddy[p].of = t)

\* The stages after provisionTenantWeb are done.
Finish ==
    /\ pc = "rest"
    /\ pc' = "idle"
    /\ result' = "ok"
    /\ moved' = (moved /\ ~(/\ selected = Declared
                            /\ ~missed /\ owed = NoDebts
                            /\ \A t \in Tenant : ~Orphaned(t)))
    /\ UNCHANGED <<mode, edge, selected, todo, changed, restarts, edits, faults, missed, owed>>

\* Any command of tenant apply fails, or the operator interrupts it.
Abort ==
    /\ pc # "idle"
    /\ Fails({})
    /\ UNCHANGED edge

----------------------------------------------------------------------------
\* oauth2-proxy finds its port free; its unit has Restart=always without a limit.
Bind(t) ==
    /\ gate[t] # 0 /\ t \notin bound
    /\ \A u \in bound : gate[u] # gate[t]
    /\ bound' = bound \cup {t}
    /\ UNCHANGED <<mode, unit, gate, fragment, caddy, job, result, edits, faults, hist>>

\* The edge reboots between runs: gates and Caddy start from the files.
Reboot ==
    /\ pc = "idle"
    /\ Fault
    /\ gate' = unit
    /\ bound' = {}
    /\ caddy' = fragment
    /\ owed' = [owed EXCEPT !.gates = {}, !.caddy = FALSE]
    /\ UNCHANGED <<mode, unit, fragment, job, result, edits, moved, missed>>

\* Caddy is reloaded for another reason.
CaddyReloads ==
    /\ caddy # fragment
    /\ caddy' = fragment
    /\ owed' = [owed EXCEPT !.caddy = FALSE]
    /\ UNCHANGED <<mode, unit, gate, bound, fragment, job, result, edits, faults, moved, missed>>

----------------------------------------------------------------------------
RunStep ==
    \/ provisionTenantWeb
    \/ \E t \in Tenant :
          \/ KeepUnit(t) \/ WriteUnit(t) \/ NoGate(t)
          \/ \E done \in {{}, {"test"}, {"test", "stop"}, {"test", "rm"}, {"test", "stop", "rm"}} :
                TearDown(t, done)
          \/ RemoveStale(t) \/ ListFails(t) \/ WriteFragment(t)
    \/ LoopDone \/ DaemonReload \/ Restart \/ RestartsDone \/ ReloadCaddy \/ Finish

Next ==
    \/ \E t \in Tenant, m \in Mode : Edit(t, m)
    \/ Begin(Declared)
    \/ \E t \in Declared : Begin({t})
    \/ RunStep
    \/ \E t \in Tenant : RemoveFails(t) \/ Bind(t)
    \/ Abort \/ Reboot \/ CaddyReloads

Spec == Init /\ [][Next]_vars

(***************************************************************************)
(* Every command of a run returns; systemd starts a gate again until it    *)
(* has its port; the operator keeps running the full tenant apply,         *)
(* whatever single tenants are applied in between.                         *)
(***************************************************************************)
Fairness ==
    /\ WF_vars(RunStep)
    /\ \A t \in Tenant : WF_vars(Bind(t))
    /\ SF_vars(Begin(Declared))

FairSpec == Spec /\ Fairness

----------------------------------------------------------------------------
\* A later tenant of the same run finds the file of t by its own pattern, and
\* takes it for a stale one of its own.
Globbed(t, ids) ==
    \E u \in ids : u > t /\ IsStrictPrefix(Id[u], webFragmentPath(t))

(***************************************************************************)
(* A tenant apply that returned no error has each endpoint it was asked    *)
(* for in Caddy, with the gate of the workspace, and a gate that runs from *)
(* the port the vhost names, unless an interrupted run left it behind;     *)
(* only an endpoint whose file name continues the id of a tenant visited   *)
(* later is lost.                                                          *)
(***************************************************************************)
OkMeansServed ==
    result = "ok" =>
        \A t \in selected :
            /\ (HasEndpoint(t) /\ ~Globbed(t, selected)) =>
                   caddy[webFragmentPath(t)] = webFragment(t)
            /\ (WebSSO(t) /\ t \notin owed.gates) => gate[t] = webSSOPort(t)

(***************************************************************************)
(* Between runs a gate runs from its unit file and Caddy from its          *)
(* directory, unless a run was cut off before it got to them: what was     *)
(* changed is written, reloaded and restarted in the same run.             *)
(***************************************************************************)
BehindOnlyAfterFailure ==
    pc = "idle" =>
        /\ \A t \in Tenant \ owed.gates : gate[t] = unit[t]
        /\ ~owed.caddy => caddy = fragment

(***************************************************************************)
(* Between runs the gate behind a vhost is the one of the vhost's tenant,  *)
(* unless a tenant was added or removed since the last time all of them    *)
(* were applied: only that moves ports.                                    *)
(***************************************************************************)
ForeignGateOnlyAfterMove ==
    (pc = "idle" /\ ~moved) =>
        \A p \in Path, u \in bound :
            (caddy[p].gate # 0 /\ gate[u] = caddy[p].gate) => caddy[p].of = u

(***************************************************************************)
(* Repeating tenant apply brings every gate up on its port, although ports *)
(* are handed over while the gates restart one by one, unless a tenant     *)
(* that is no longer declared holds one, or a restart is still owed.       *)
(***************************************************************************)
GatesComeUp ==
    \/ <>[](\A t \in Declared : WebSSO(t) => t \in bound /\ gate[t] = webSSOPort(t))
    \/ <>[](owed.gates # {} \/ \E t \in Tenant \ Declared : gate[t] # 0)

=============================================================================
