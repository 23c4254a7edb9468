--------------------------- MODULE ConfigdRollout ---------------------------
(***************************************************************************)
(* The last part of `mksrv tenant apply`: reconcileConfigd of              *)
(* internal/cli/tenant.go renews what the broker configd runs from (a      *)
(* Headscale API key, a signing key and its id, the tenant roster), pushes *)
(* it to the edge as podman secrets and restarts the broker.               *)
(*                                                                         *)
(* Nothing keeps two operators from running it at the same time, and it    *)
(* expires the broker's old API key long before the broker has the new     *)
(* one.  The model has several operators, SSM (internal/secrets), the API  *)
(* keys of Headscale (internal/headscale), the podman secrets on the edge  *)
(* and the broker process (cmd/configd), which reads them when it starts.  *)
(***************************************************************************)
EXTENDS Naturals, FiniteSets

CONSTANTS
    Operator,   \* people or machines that run tenant apply
    ApiKeys,    \* bound: Headscale API keys that exist at one time
    SigningKey, \* values of the signing key
    Roster,     \* contents of tenants/*.yaml, as rendered into the roster
    Unset,      \* no parameter, no secret, no value yet
    MaxEvents   \* bound: failures, crashes, edits, rebuilds, rotations

ASSUME BoundsAssumption == ApiKeys \in Nat /\ MaxEvents \in Nat

ApiKey == 1..ApiKeys
Kid    == {"default", "rotated"}

\* The podman secrets, in the order they are pushed.
Leaf == <<"apikey", "key", "kid", "tenants">>

VARIABLES
    roster,   \* the workspace
    ssm,      \* the parameters kid, key and apikey
    live,     \* the API keys Headscale accepts
    secret,   \* the podman secrets on the edge
    broker,   \* what the running configd read, Unset when it has never started
    phase,    \* per operator: its step
    have,     \* per operator: the values it holds
    seen,     \* per operator: the keys it listed and has still to expire
    i,        \* per operator: the next secret to push
    clean,    \* per operator, history: nobody interfered since it minted its key
    owed,     \* history: what happened last to the API keys was interference
    result,   \* what the last run reported as served, until the next one mints a key
    events

world == <<roster, ssm, live, secret, broker>>
local == <<have, seen, i>>
rolloutVars == <<world, phase, local, clean, owed, result, events>>

Phase == {"idle", "kidGet", "kidPut", "keyGet", "keyPut", "mint", "put", "list",
          "expire", "push", "restart", "health"}

Held == [apikey : ApiKey \cup {Unset}, key : SigningKey \cup {Unset},
         kid : Kid \cup {Unset}, tenants : Roster \cup {Unset}]

RolloutTypeOK ==
    /\ roster \in Roster
    /\ ssm \in [kid : Kid \cup {Unset}, key : SigningKey \cup {Unset}, apikey : ApiKey \cup {Unset}]
    /\ live \subseteq ApiKey
    /\ secret \in Held
    /\ broker \in Held \cup {Unset}
    /\ phase \in [Operator -> Phase]
    /\ have \in [Operator -> Held]
    /\ seen \in [Operator -> SUBSET ApiKey]
    /\ i \in [Operator -> 1..5]
    /\ clean \in [Operator -> BOOLEAN]
    /\ owed \in BOOLEAN
    /\ result \in Held \cup {Unset}
    /\ events \in 0..MaxEvents

----------------------------------------------------------------------------
Nothing == [apikey |-> Unset, key |-> Unset, kid |-> Unset, tenants |-> Unset]

Idle(o) == phase[o] = "idle"
Quiet   == \A o \in Operator : Idle(o)

\* o has minted its key and has not restarted the broker with it.
Renewing(o) == phase[o] \in {"put", "list", "expire", "push", "restart"}

RolloutInit ==
    /\ roster \in Roster
    /\ ssm = [kid |-> Unset, key |-> Unset, apikey |-> Unset]
    /\ live = {}
    /\ secret = Nothing
    /\ broker = Unset
    /\ phase = [o \in Operator |-> "idle"]
    /\ have = [o \in Operator |-> Nothing]
    /\ seen = [o \in Operator |-> {}]
    /\ i = [o \in Operator |-> 1]
    /\ clean = [o \in Operator |-> FALSE]
    /\ owed = FALSE
    /\ result = Unset
    /\ events = 0

Event == events < MaxEvents /\ events' = events + 1

Goto(o, next) == phase' = [phase EXCEPT ![o] = next]

Hold(o, field, value) == have' = [have EXCEPT ![o][field] = value]

\* The run is over; the process and what it held are gone.
Leave(o) ==
    /\ Goto(o, "idle")
    /\ have' = [have EXCEPT ![o] = Nothing]
    /\ seen' = [seen EXCEPT ![o] = {}]
    /\ i' = [i EXCEPT ![o] = 1]
    /\ clean' = [clean EXCEPT ![o] = FALSE]

----------------------------------------------------------------------------
\* The operator starts tenant apply and loads the workspace.
Begin(o) ==
    /\ Idle(o)
    /\ Goto(o, "kidGet")
    /\ Hold(o, "tenants", roster)
    /\ UNCHANGED <<world, seen, i, clean, owed, result, events>>

\* EnsureString asks for the kid; any error counts as "not there".
EnsureStringGet(o) ==
    /\ phase[o] = "kidGet"
    /\ \/ /\ ssm.kid # Unset
          /\ Hold(o, "kid", ssm.kid)
          /\ Goto(o, "keyGet")
          /\ UNCHANGED events
       \/ /\ \/ ssm.kid = Unset /\ UNCHANGED events
             \/ ssm.kid # Unset /\ Event
          /\ Goto(o, "kidPut")
          /\ UNCHANGED have
    /\ UNCHANGED <<world, seen, i, clean, owed, result>>

EnsureStringPut(o) ==
    /\ phase[o] = "kidPut"
    /\ ssm' = [ssm EXCEPT !.kid = "default"]
    /\ Hold(o, "kid", "default")
    /\ Goto(o, "keyGet")
    /\ UNCHANGED <<roster, live, secret, broker, seen, i, clean, owed, result, events>>

\* EnsureRandom asks for the signing key; only "not found" leads to a new one.
EnsureRandomGet(o) ==
    /\ phase[o] = "keyGet"
    /\ \/ ssm.key # Unset /\ Hold(o, "key", ssm.key) /\ Goto(o, "mint")
       \/ ssm.key = Unset /\ Goto(o, "keyPut") /\ UNCHANGED have
    /\ UNCHANGED <<world, seen, i, clean, owed, result, events>>

\* Mutant: the generated value overwrites what another run stored.
MayStore_Overwrite == TRUE

\* PutParameter with Overwrite false.
MayStore == ssm.key = Unset

EnsureRandomPut(o, k) ==
    /\ phase[o] = "keyPut"
    /\ MayStore
    /\ ssm' = [ssm EXCEPT !.key = k]
    /\ Hold(o, "key", k)
    /\ Goto(o, "mint")
    /\ UNCHANGED <<roster, live, secret, broker, seen, i, clean, owed, result, events>>

\* Another run stored its key first: the call fails and the run ends.
EnsureRandomLoses(o) ==
    /\ phase[o] = "keyPut"
    /\ ~MayStore
    /\ Leave(o)
    /\ UNCHANGED <<world, owed, result, events>>

\* An API key no one knows of.
Fresh == ApiKey \ (live \cup {ssm.apikey, secret.apikey} \cup {have[o].apikey : o \in Operator}
                   \cup UNION {seen[o] : o \in Operator}
                   \cup {r.apikey : r \in {broker, result} \ {Unset}})

\* The key Headscale generates.
NewKey == CHOOSE k \in Fresh : TRUE

\* The API key is new every time.  From here to the restart the run must not
\* meet another one in the same stretch.
CreateAPIKey(o) ==
    /\ phase[o] = "mint"
    /\ Fresh # {}
    /\ live' = live \cup {NewKey}
    /\ Hold(o, "apikey", NewKey)
    /\ Goto(o, "put")
    /\ clean' = [p \in Operator |-> IF p = o THEN \A q \in Operator : ~Renewing(q)
                                    ELSE FALSE]
    /\ result' = Unset
    /\ UNCHANGED <<roster, ssm, secret, broker, seen, i, owed, events>>

PutAPIKey(o) ==
    /\ phase[o] = "put"
    /\ ssm' = [ssm EXCEPT !.apikey = have[o].apikey]
    /\ Goto(o, "list")
    /\ UNCHANGED <<roster, live, secret, broker, local, clean, owed, result, events>>

\* Mutant: the new key is expired with the old ones.
ToExpire_All(o) == live

\* What ExpireAPIKeysExcept goes through: every key but the new one.
ToExpire(o) == live \ {have[o].apikey}

ListAPIKeys(o) ==
    /\ phase[o] = "list"
    /\ seen' = [seen EXCEPT ![o] = ToExpire(o)]
    /\ Goto(o, "expire")
    /\ UNCHANGED <<world, have, i, clean, owed, result, events>>

ExpireAPIKey(o) ==
    /\ phase[o] = "expire"
    /\ \E k \in seen[o] :
          /\ live' = live \ {k}
          /\ seen' = [seen EXCEPT ![o] = @ \ {k}]
    /\ UNCHANGED <<roster, ssm, secret, broker, phase, have, i, clean, owed, result, events>>

\* The loop ends, or one of its commands fails: that is only a warning.
ExpireDone(o) ==
    /\ \/ phase[o] = "expire" /\ seen[o] = {} /\ UNCHANGED events
       \/ phase[o] = "expire" /\ seen[o] # {} /\ Event
       \/ phase[o] = "list" /\ Event
    /\ Goto(o, "push")
    /\ seen' = [seen EXCEPT ![o] = {}]
    /\ UNCHANGED <<world, have, i, clean, owed, result>>

\* Mutant: the values are pushed under one another's names.
Pushed_Swapped(o) == have[o][Leaf[5 - i[o]]]

\* podman secret create --replace, one leaf after the other.
Pushed(o) == have[o][Leaf[i[o]]]

PushSecret(o) ==
    /\ phase[o] = "push"
    /\ secret' = [secret EXCEPT ![Leaf[i[o]]] = Pushed(o)]
    /\ i' = [i EXCEPT ![o] = @ + 1]
    /\ Goto(o, IF i[o] = 4 THEN "restart" ELSE "push")
    /\ UNCHANGED <<roster, ssm, live, broker, have, seen, clean, owed, result, events>>

\* Mutant: systemctl start in place of restart.
Started_NoRestart == IF broker = Unset THEN secret ELSE broker

\* A broker that starts reads the secrets that are there.
Started == secret

\* The unit file is written and systemd restarts the broker.
RestartConfigd(o) ==
    /\ phase[o] = "restart"
    /\ broker' = Started
    /\ owed' = ~clean[o]
    /\ Goto(o, "health")
    /\ UNCHANGED <<roster, ssm, live, secret, local, clean, result, events>>

\* /healthz answers; it says nothing about the API key.  The run prints the
\* public half of the signing key it holds.
HealthCheck(o) ==
    /\ phase[o] = "health"
    /\ Leave(o)
    /\ result' = IF clean[o] THEN have[o] ELSE result
    /\ UNCHANGED <<world, owed, events>>

\* Any other command fails, or the operator interrupts the run.
Abort(o) ==
    /\ ~Idle(o)
    /\ Event
    /\ Leave(o)
    /\ owed' = (owed \/ phase[o] \in {"expire", "push", "restart"})
    /\ UNCHANGED <<world, result>>

----------------------------------------------------------------------------
EditTenants ==
    /\ Event
    /\ roster' \in Roster \ {roster}
    /\ UNCHANGED <<ssm, live, secret, broker, phase, local, clean, owed, result>>

\* systemd starts the broker again after a crash or a reboot of the edge.
BrokerRestarts ==
    /\ broker # Unset
    /\ Event
    /\ broker' = secret
    /\ UNCHANGED <<roster, ssm, live, secret, phase, local, clean, owed, result>>

\* The edge is relaunched in place with an empty Headscale database.
HeadscaleRelaunched ==
    /\ live # {}
    /\ Event
    /\ live' = {}
    /\ clean' = [o \in Operator |-> FALSE]
    /\ owed' = TRUE
    /\ result' = Unset
    /\ UNCHANGED <<roster, ssm, secret, broker, phase, local>>

\* Between runs an operator puts a new signing key and id into SSM.
RotateSigningKey ==
    /\ Quiet
    /\ ssm.key # Unset
    /\ Event
    /\ \E k \in SigningKey \ {ssm.key} : ssm' = [ssm EXCEPT !.kid = "rotated", !.key = k]
    /\ UNCHANGED <<roster, live, secret, broker, phase, local, clean, owed, result>>

----------------------------------------------------------------------------
Step(o) ==
    \/ EnsureStringGet(o) \/ EnsureStringPut(o)
    \/ EnsureRandomGet(o) \/ EnsureRandomLoses(o)
    \/ \E k \in SigningKey : EnsureRandomPut(o, k)
    \/ CreateAPIKey(o) \/ PutAPIKey(o)
    \/ ListAPIKeys(o) \/ ExpireAPIKey(o) \/ ExpireDone(o)
    \/ PushSecret(o) \/ RestartConfigd(o) \/ HealthCheck(o)

RolloutNext ==
    \/ \E o \in Operator : Begin(o) \/ Step(o) \/ Abort(o)
    \/ EditTenants \/ BrokerRestarts \/ HeadscaleRelaunched \/ RotateSigningKey

RolloutSpec == RolloutInit /\ [][RolloutNext]_rolloutVars

----------------------------------------------------------------------------
\* The broker can mint pre-auth keys.
CanMint == broker # Unset /\ broker.apikey \in live

(***************************************************************************)
(* After a run that reported success the broker runs on exactly what that  *)
(* run held, so the public key it printed verifies what the broker signs,  *)
(* and its API key is accepted: as long as no other run mints a key, also  *)
(* through restarts of the broker.                                         *)
(***************************************************************************)
OkMeansServed == result # Unset => broker = result /\ CanMint /\ ssm.apikey = result.apikey

(***************************************************************************)
(* When no run is in progress, a broker whose API key is dead was left so  *)
(* by interference: a rebuilt Headscale, a run cut off between expiring    *)
(* the old key and restarting the broker, or two runs that overlapped      *)
(* between minting and restarting.                                         *)
(***************************************************************************)
DeadKeyOnlyAfterInterference == (Quiet /\ broker # Unset /\ ~owed) => CanMint

(***************************************************************************)
(* All runs in progress hold one signing key, the one in SSM, however they *)
(* interleave: whoever loses the race to create it gives up (EnsureRandom  *)
(* puts without Overwrite).                                                *)
(***************************************************************************)
OneSigningKey == \A o \in Operator : have[o].key # Unset => have[o].key = ssm.key

=============================================================================
