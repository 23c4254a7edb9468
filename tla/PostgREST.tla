----------------------------- MODULE PostgREST -----------------------------
(***************************************************************************)
(* One PostgREST container per tenant: reconcilePostgREST of               *)
(* internal/cli/postgrest.go, inside `mksrv tenant apply`                  *)
(* (internal/cli/tenant.go), and the two other places that must name the   *)
(* port a tenant's container listens on: its Caddy vhost on the edge, and  *)
(* the "rest" forward that reconcileConfigd puts in the broker's roster.   *)
(*                                                                         *)
(* A port is not stored anywhere: every run computes it again from the     *)
(* workspace, so an edit of one tenant moves the ports of others.          *)
(*                                                                         *)
(* Tenants are numbered in the order of their ids.  The parts of tenant    *)
(* apply that touch no port (realms, databases, Redis, ...) appear as the  *)
(* errors they may return.                                                 *)
(***************************************************************************)
EXTENDS Naturals, FiniteSets

CONSTANTS
    N,          \* number of tenant ids that may occur in the workspace
    MaxEdits,   \* bound: edits of the workspace
    MaxFaults   \* bound: commands that fail, reboots of the data host

ASSUME NAssumption == N \in Nat \ {0}
ASSUME BoundsAssumption == MaxEdits \in Nat /\ MaxFaults \in Nat

Tenant == 1..N

\* absent: no tenants/<id>.yaml; plain: does not consume `database`; off: does,
\* with `postgrest: false`; on: gets a container.
Kind == {"absent", "plain", "off", "on"}

postgrestBasePort == 3010
Port == {0} \cup postgrestBasePort..(postgrestBasePort + N - 1)  \* 0: none

VARIABLES
    kind,       \* the workspace
    unit,       \* port published by the tenant's .container file on the data host
    listening,  \* port its running container holds, 0 when it is down
    fragment,   \* port its vhost file on the edge proxies to
    caddy,      \* port its vhost in Caddy's loaded configuration proxies to
    forward,    \* port of the "rest" forward in the configd roster
    pc,
    selected,   \* the tenants this tenant apply was asked for
    todo,       \* those the current loop has still to visit
    result,     \* how the last run ended, if nothing happened since
    edits,
    faults,
    failed      \* history: a run, or a teardown step of it, has failed

hosts == <<unit, listening, fragment, caddy, forward>>
vars  == <<kind, hosts, pc, selected, todo, result, edits, faults, failed>>

Phase == {"idle", "apply", "teardown", "unit", "fragment", "restart",
          "health", "roster"}

TypeOK ==
    /\ kind \in [Tenant -> Kind]
    /\ {unit, listening, fragment, caddy, forward} \subseteq [Tenant -> Port]
    /\ pc \in Phase
    /\ selected \subseteq Tenant
    /\ todo \subseteq Tenant
    /\ result \in {"none", "ok", "error"}
    /\ edits \in 0..MaxEdits
    /\ faults \in 0..MaxFaults
    /\ failed \in BOOLEAN

----------------------------------------------------------------------------
Declared  == {t \in Tenant : kind[t] # "absent"}
OfKind(k) == {t \in Tenant : kind[t] = k}

postgrestConsumerIDs == OfKind("on")

\* Mutant: positions are counted from one.
postgrestPort_FromOne(ids, t) ==
    IF t \in ids THEN postgrestBasePort + Cardinality({u \in ids : u <= t}) ELSE 0

\* Position of t in the sorted ids; 0 when it is not among them.
postgrestPort(ids, t) ==
    IF t \in ids THEN postgrestBasePort + Cardinality({u \in ids : u < t}) ELSE 0

Assigned(t) == postgrestPort(postgrestConsumerIDs, t)

\* The loops visit the tenants in order: t is next.
Turn(t) == t \in todo /\ \A u \in todo : t <= u

Clash == \E t \in postgrestConsumerIDs, u \in Tenant :
            u # t /\ listening[u] = Assigned(t)

----------------------------------------------------------------------------
\* A fleet that has served tenants 2..N so far; tenant 1 is not declared.
Init ==
    /\ kind = [t \in Tenant |-> IF t = 1 THEN "absent" ELSE "on"]
    /\ unit = [t \in Tenant |-> Assigned(t)]
    /\ listening = unit
    /\ fragment = unit
    /\ caddy = unit
    /\ forward = unit
    /\ pc = "idle"
    /\ selected = {}
    /\ todo = {}
    /\ result = "none"
    /\ edits = 0
    /\ faults = 0
    /\ failed = FALSE

Fault == faults < MaxFaults /\ faults' = faults + 1

\* The operator edits tenants/<id>.yaml between two runs.
Edit(t, k) ==
    /\ pc = "idle"
    /\ edits < MaxEdits
    /\ kind[t] # k
    /\ kind' = [kind EXCEPT ![t] = k]
    /\ edits' = edits + 1
    /\ result' = "none"
    /\ UNCHANGED <<hosts, pc, selected, todo, faults, failed>>

\* runTenantApply for all tenants, or for the one named on the command line.
Begin(ids) ==
    /\ pc = "idle"
    /\ pc' = "apply"
    /\ selected' = ids
    /\ result' = "none"
    /\ UNCHANGED <<kind, hosts, todo, edits, faults, failed>>

\* A new loop over ids begins, or the phase after it when there is nothing to do.
Loop(phase, ids) == pc' = phase /\ todo' = ids

\* reconcilePostgREST is entered once realms, policy and databases are done.
reconcilePostgREST ==
    /\ pc = "apply"
    /\ IF selected \cap (OfKind("on") \cup OfKind("off")) = {}
       THEN Loop("roster", {})
       ELSE Loop("teardown", selected \cap OfKind("off"))
    /\ UNCHANGED <<kind, hosts, selected, result, edits, faults, failed>>

\* Mutant: the vhost of a tenant that turned PostgREST off is left behind.
Remove_KeepFragment(t, done) ==
    /\ listening' = IF "stop" \in done THEN [listening EXCEPT ![t] = 0] ELSE listening
    /\ unit' = IF "unit" \in done THEN [unit EXCEPT ![t] = 0] ELSE unit
    /\ UNCHANGED fragment

\* The commands that tear a container down ignore their errors: `done` are
\* the ones that worked.
Remove(t, done) ==
    /\ listening' = IF "stop" \in done THEN [listening EXCEPT ![t] = 0] ELSE listening
    /\ unit' = IF "unit" \in done THEN [unit EXCEPT ![t] = 0] ELSE unit
    /\ fragment' = IF "fragment" \in done THEN [fragment EXCEPT ![t] = 0] ELSE fragment

Teardown ==
    /\ pc = "teardown"
    /\ \E t \in Tenant :
          /\ Turn(t)
          /\ \/ Remove(t, {"stop", "unit", "fragment"}) /\ UNCHANGED <<faults, failed>>
             \/ /\ \E done \in {{}, {"stop"}, {"unit", "fragment"}, {"stop", "unit"}} : Remove(t, done)
                /\ Fault
                /\ failed' = TRUE
          /\ todo' = todo \ {t}
    /\ UNCHANGED <<kind, caddy, forward, pc, selected, result, edits>>

\* With no container to deploy, Caddy is reloaded, or not: the error is
\* dropped.  Then the function returns.
TeardownDone ==
    /\ pc = "teardown" /\ todo = {}
    /\ \/ /\ selected \cap OfKind("on") # {}
          /\ Loop("unit", selected \cap OfKind("on"))
          /\ UNCHANGED <<caddy, faults, failed>>
       \/ /\ selected \cap OfKind("on") = {}
          /\ Loop("roster", {})
          /\ \/ caddy' = fragment /\ UNCHANGED <<faults, failed>>
             \/ Fault /\ failed' = TRUE /\ UNCHANGED caddy
    /\ UNCHANGED <<kind, unit, listening, fragment, forward, selected, result, edits>>

WriteUnit ==
    /\ pc = "unit"
    /\ \E t \in Tenant : Turn(t) /\ unit' = [unit EXCEPT ![t] = Assigned(t)]
    /\ pc' = "fragment"
    /\ UNCHANGED <<kind, listening, fragment, caddy, forward, selected, todo, result,
                   edits, faults, failed>>

WriteFragment ==
    /\ pc = "fragment"
    /\ \E t \in Tenant :
          /\ Turn(t)
          /\ fragment' = [fragment EXCEPT ![t] = Assigned(t)]
          /\ Loop("unit", todo \ {t})
    /\ UNCHANGED <<kind, unit, listening, caddy, forward, selected, result, edits,
                   faults, failed>>

DaemonReload ==
    /\ pc = "unit" /\ todo = {}
    /\ Loop("restart", selected \cap OfKind("on"))
    /\ UNCHANGED <<kind, hosts, selected, result, edits, faults, failed>>

\* A port is published to one container at a time.
PortFree(t) == \A u \in Tenant \ {t} : listening[u] # unit[t]

Restart ==
    /\ pc = "restart"
    /\ \E t \in Tenant :
          /\ Turn(t)
          /\ PortFree(t)
          /\ listening' = [listening EXCEPT ![t] = unit[t]]
          /\ todo' = todo \ {t}
    /\ UNCHANGED <<kind, unit, fragment, caddy, forward, pc, selected, result, edits,
                   faults, failed>>

\* The container stops and cannot publish its port: systemctl restart fails
\* and the run ends with the containers after it not restarted.
RestartFails ==
    /\ pc = "restart"
    /\ \E t \in Tenant : Turn(t) /\ ~PortFree(t) /\ listening' = [listening EXCEPT ![t] = 0]
    /\ pc' = "idle"
    /\ result' = "error"
    /\ failed' = TRUE
    /\ UNCHANGED <<kind, unit, fragment, caddy, forward, selected, todo, edits, faults>>

\* Mutant: the new fragments are not loaded.
Reloaded_Skipped == caddy

Reloaded == fragment

ReloadCaddy ==
    /\ pc = "restart" /\ todo = {}
    /\ caddy' = Reloaded
    /\ pc' = "health"
    /\ UNCHANGED <<kind, unit, listening, fragment, forward, selected, todo, result, edits,
                   faults, failed>>

\* Mutant: the probed port is counted over every tenant.
ProbePort_Declared(t) == postgrestPort(Declared, t)

ProbePort(t) == Assigned(t)

\* The probe asks for an answer on the port, from whichever container.
HealthCheck ==
    /\ pc = "health"
    /\ \A t \in selected \cap OfKind("on") :
          \E u \in Tenant : listening[u] = ProbePort(t)
    /\ pc' = "roster"
    /\ UNCHANGED <<kind, hosts, selected, todo, result, edits, faults, failed>>

\* The rest of tenant apply: reconcileConfigd rebuilds the roster from every
\* declared tenant, with ports counted over all of them.
reconcileConfigd ==
    /\ pc = "roster"
    /\ forward' = [t \in Tenant |-> IF kind[t] \in {"off", "on"}
                                    THEN postgrestPort(Declared, t) ELSE 0]
    /\ pc' = "idle"
    /\ result' = "ok"
    /\ UNCHANGED <<kind, unit, listening, fragment, caddy, selected, todo, edits, faults, failed>>

\* Any other step of tenant apply returns an error.
Abort ==
    /\ pc # "idle"
    /\ Fault
    /\ pc' = "idle"
    /\ result' = "error"
    /\ failed' = TRUE
    /\ UNCHANGED <<kind, hosts, selected, todo, edits>>

\* The data host reboots: its units start from the files; of two that publish
\* one port, one comes up.
Reboot ==
    /\ pc = "idle"
    /\ Fault
    /\ \E won \in SUBSET {t \in Tenant : unit[t] # 0} :
          /\ \A t \in Tenant : unit[t] # 0 =>
                Cardinality({u \in won : unit[u] = unit[t]}) = 1
          /\ listening' = [t \in Tenant |-> IF t \in won THEN unit[t] ELSE 0]
    /\ result' = "none"
    /\ UNCHANGED <<kind, unit, fragment, caddy, forward, pc, selected, todo, edits, failed>>

\* Caddy reloads for another reason (a stack's deploy, a reboot of the edge).
CaddyReloads ==
    /\ caddy # fragment
    /\ caddy' = fragment
    /\ UNCHANGED <<kind, unit, listening, fragment, forward, pc, selected, todo, result,
                   edits, faults, failed>>

----------------------------------------------------------------------------
RunStep ==
    \/ reconcilePostgREST \/ Teardown \/ TeardownDone
    \/ WriteUnit \/ WriteFragment \/ DaemonReload
    \/ Restart \/ RestartFails \/ ReloadCaddy \/ HealthCheck
    \/ reconcileConfigd

Next ==
    \/ \E t \in Tenant, k \in Kind : Edit(t, k)
    \/ Begin(Declared)
    \/ \E t \in Declared : Begin({t})
    \/ RunStep
    \/ Abort \/ Reboot \/ CaddyReloads

Spec == Init /\ [][Next]_vars

(***************************************************************************)
(* Every command of a run returns, and the operator keeps running the full *)
(* tenant apply, whatever single tenants are applied in between.           *)
(***************************************************************************)
FairSpec == Spec /\ WF_vars(RunStep) /\ SF_vars(Begin(Declared))

----------------------------------------------------------------------------
\* A tenant apply that returned no error left each tenant it was asked for
\* with a container on the port its vhost proxies to, and nobody else's there.
OkMeansServed ==
    result = "ok" =>
        \A t \in selected \cap postgrestConsumerIDs :
            /\ listening[t] = Assigned(t)
            /\ caddy[t] = listening[t]
            /\ \A u \in Tenant \ {t} : listening[u] # caddy[t]

\* Between runs, a vhost reaches another tenant's container only after a run has
\* failed: one that rewrote the vhosts before it could restart the containers,
\* or one that lost a step of a teardown.
OthersDataOnlyAfterFailure ==
    (pc = "idle" /\ ~failed) =>
        \A t, u \in Tenant : (caddy[t] # 0 /\ listening[u] = caddy[t]) => u = t

\* The data API comes up on every retry of tenant apply, unless some container
\* keeps a port that the workspace now gives to another tenant.
RetriesSucceedUnlessClash == []<>(result = "ok") \/ <>[]Clash

\* What the comment on postgrestConsumerIDs says: the port is an index into the
\* list of PostgREST consumers, "not the raw tenant-id list".  The forward
\* handed to a tenant's clients names the port its container listens on.
ForwardReachesContainer ==
    result = "ok" =>
        \A t \in selected \cap postgrestConsumerIDs : forward[t] = listening[t]
=============================================================================
