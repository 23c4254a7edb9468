-------------------------------- MODULE Mail --------------------------------
(***************************************************************************)
(* The mail stages of `tenant apply` (internal/cli/mail_hosting.go):       *)
(* provisionMail keeps the shared mail server's accounts, certificate,     *)
(* relay credentials and DKIM keys, provisionMTASTS the policy hosts on    *)
(* the edge.                                                               *)
(*                                                                         *)
(* The server reads accounts and certificate when it starts, Caddy its     *)
(* fragments when it reloads.  A timer on the mail host runs the           *)
(* certificate script every day, beside any run.                           *)
(*                                                                         *)
(* A run reads back what it is about to write (accounts, script,           *)
(* certificate, fragments) and drops the error: a read that fails gives    *)
(* nothing, and the run goes on.                                           *)
(*                                                                         *)
(* Simplifications.                                                        *)
(*  - One run at a time.  A tenant has one domain and one mailbox; two     *)
(*    addresses with one local part would share their password parameter.  *)
(*  - A hash stands for the password it verifies: openssl salts anew, so   *)
(*    the text of a generated one differs from run to run.                 *)
(***************************************************************************)
EXTENDS Naturals, Sequences, FiniteSets

CONSTANTS
    Order,      \* the tenants by id, a sequence
    Globs,      \* <<t, u>>: the pattern 16-mta-sts-<t>-* also matches files of u
    None,       \* nothing there
    MaxEvents   \* bound: failures, cuts, renewals by the timer, edits

Tenant == {Order[k] : k \in 1..Len(Order)}

\* No tenant is twice in s.
Distinct(s) == \A j, k \in 1..Len(s) : s[j] = s[k] => j = k

ASSUME OrderAssumption == Order \in Seq(Tenant) /\ Distinct(Order)
ASSUME GlobsAssumption == Globs \subseteq Tenant \X Tenant
ASSUME NoneAssumption == None \notin {"seeded", "generated"} /\ \A S \in SUBSET Tenant : S # None
ASSUME EventsAssumption == MaxEvents \in Nat

VARIABLES
    ws,        \* per tenant: hosted, branded, sts; whether mail is relayed
    ssm,       \* seeded hashes, generated passwords, version of the relay credentials
    accounts,  \* postfix-accounts.cf: per tenant the password of its line, or None
    read,      \* the accounts the server has read
    script,    \* the tenants whose names are in the certificate script, or None
    cert,      \* the tenants whose names are in the certificate, or None
    certRead,  \* the server runs with this very certificate
    acme,      \* the tenants whose names acme.sh last got a certificate for, or None
    relay,     \* the versions of the two relay secrets
    dkim,      \* tenants whose domain has a key
    txt,       \* tenants whose key is published
    frag,      \* tenants with an MTA-STS fragment on the edge
    torn,      \* fragments whose upload was cut short
    served,    \* tenants whose fragment Caddy has read
    \* the current run
    pc,
    ids,       \* the tenants it is for, as they were named or else by id
    todo,      \* the tenants the stage has still to go through
    lines,     \* the accounts gathered so far
    force,     \* the certificate script was changed, as far as the run could read it
    blank,     \* the certificate read at the start of the stage was empty
    renewed,   \* the certificate is not the one read at the start of the stage
    changed,   \* a fragment was written or removed
    \* history and bounds
    owed,      \* restarts or reloads that a cut run, the timer, or a run that could
               \* read the certificate neither before nor after issuing it has left undone
    stale,     \* a run was cut off between writing the certificate script and running it
    unlisted,  \* listing the fragments failed in this run, which went on
    done,      \* the ids of the last successful run, if nothing happened since
    events

server == <<accounts, read, script, cert, certRead, acme, relay, dkim, txt>>
edge   == <<frag, torn, served>>
local  == <<pc, ids, todo, lines, force, blank, renewed, changed>>
hist   == <<owed, stale, unlisted>>
vars   == <<ws, ssm, server, edge, local, hist, done, events>>

Password == {"seeded", "generated"}
NoLines  == [t \in Tenant |-> None]

(***************************************************************************)
(* Type correctness.                                                       *)
(***************************************************************************)
TypeOK ==
    /\ ws \in [mail : [Tenant -> [hosted : BOOLEAN, branded : BOOLEAN, sts : BOOLEAN]], relay : BOOLEAN]
    /\ ssm \in [seeded : SUBSET Tenant, generated : SUBSET Tenant, ses : Nat]
    /\ accounts \in [Tenant -> Password \cup {None}] /\ read \in [Tenant -> Password \cup {None}]
    /\ script \in {None} \cup SUBSET Tenant /\ cert \in {None} \cup SUBSET Tenant
    /\ certRead \in BOOLEAN /\ acme \in {None} \cup SUBSET Tenant
    /\ relay \in [{"user", "password"} -> Nat \cup {None}]
    /\ dkim \subseteq Tenant /\ txt \subseteq Tenant
    /\ frag \subseteq Tenant /\ torn \subseteq frag /\ served \subseteq Tenant
    /\ pc \in {"idle", "lines", "accounts", "restartA", "script", "timer", "issue", "restartC",
               "relay", "dkim", "sts", "fragment"}
    /\ ids \in Seq(Tenant)
    /\ todo \subseteq Tenant
    /\ lines \in [Tenant -> Password \cup {None}]
    /\ force \in BOOLEAN /\ blank \in BOOLEAN /\ renewed \in BOOLEAN /\ changed \in BOOLEAN
    /\ owed \subseteq {"accounts", "cert", "caddy"}
    /\ stale \in BOOLEAN /\ unlisted \in BOOLEAN
    /\ done \in Seq(Tenant)
    /\ events \in 0..MaxEvents

----------------------------------------------------------------------------
Init ==
    /\ ws = [mail |-> [t \in Tenant |-> [hosted |-> TRUE, branded |-> FALSE, sts |-> TRUE]],
             relay |-> TRUE]
    /\ \E S \in SUBSET Tenant : ssm = [seeded |-> S, generated |-> {}, ses |-> 0]
    /\ accounts = NoLines /\ read = NoLines
    /\ script = None /\ cert = None /\ certRead = FALSE /\ acme = None
    /\ relay = [s \in {"user", "password"} |-> None]
    /\ dkim = {} /\ txt = {} /\ frag = {} /\ torn = {} /\ served = {}
    /\ pc = "idle" /\ ids = <<>> /\ todo = {} /\ lines = NoLines
    /\ force = FALSE /\ blank = FALSE /\ renewed = FALSE /\ changed = FALSE
    /\ owed = {} /\ stale = FALSE /\ unlisted = FALSE
    /\ done = <<>>
    /\ events = 0

Event == events < MaxEvents /\ events' = events + 1

\* t comes before u in s.
Before(s, t, u) == \E j, k \in 1..Len(s) : j < k /\ s[j] = t /\ s[k] = u

\* A loop over s is at t.
Turn(s, t) == t \in todo /\ \A u \in todo \ {t} : Before(s, t, u)

selected == {ids[k] : k \in 1..Len(ids)}

\* Mutant: only the tenants of this run.
MailTenants_Selected == {t \in selected : ws.mail[t].hosted}

\* All of them, so that a run for one keeps the others' mailboxes.
MailTenants == {t \in Tenant : ws.mail[t].hosted}

\* tenant apply [ID...]: any tenants in any order, and all of them by default.
Selections == {s \in UNION {[1..n -> Tenant] : n \in 1..Len(Order)} : Distinct(s)}

Start(s) ==
    /\ pc = "idle"
    /\ pc' = IF \E t \in Tenant : ws.mail[t].hosted THEN "lines" ELSE "sts"
    /\ ids' = s
    /\ todo' = IF \E t \in Tenant : ws.mail[t].hosted THEN Tenant ELSE {s[k] : k \in 1..Len(s)}
    /\ lines' = NoLines /\ force' = FALSE /\ blank' = FALSE /\ renewed' = FALSE /\ changed' = FALSE
    /\ unlisted' = FALSE
    /\ done' = <<>>
    /\ UNCHANGED <<ws, ssm, server, edge, owed, stale, events>>

----------------------------------------------------------------------------
(* reconcileMailboxes                                                      *)

\* A seeded hash is taken as it is; otherwise the password is made sure of and hashed.
GatherLine ==
    /\ pc = "lines"
    /\ \E t \in Tenant :
          /\ Turn(Order, t)
          /\ lines' = [lines EXCEPT ![t] = IF t \notin MailTenants THEN None
                                           ELSE IF t \in ssm.seeded THEN "seeded" ELSE "generated"]
          /\ ssm' = [ssm EXCEPT !.generated = IF t \in MailTenants \ ssm.seeded THEN @ \cup {t} ELSE @]
          /\ todo' = todo \ {t}
    /\ UNCHANGED <<ws, server, edge, pc, ids, force, blank, renewed, changed, hist, done, events>>

\* A line with a generated password never compares equal.
SameText == lines = accounts /\ \A t \in Tenant : lines[t] # "generated"

CompareAccounts ==
    /\ pc = "lines" /\ todo = {}
    /\ \/ pc' = (IF SameText THEN "script" ELSE "accounts") /\ UNCHANGED events
       \/ pc' = "accounts" /\ Event
    /\ UNCHANGED <<ws, ssm, server, edge, ids, todo, lines, force, blank, renewed, changed, hist, done>>

WriteAccounts ==
    /\ pc = "accounts"
    /\ accounts' = lines
    /\ pc' = "restartA"
    /\ UNCHANGED <<ws, ssm, read, script, cert, certRead, acme, relay, dkim, txt, edge,
                   ids, todo, lines, force, blank, renewed, changed, hist, done, events>>

\* The server starts with what is on disk.
RestartServer(from, to) ==
    /\ pc = from /\ pc' = to
    /\ read' = accounts
    /\ certRead' = (cert # None)
    /\ owed' = owed \ {"accounts", "cert"}
    /\ UNCHANGED <<ws, ssm, accounts, script, cert, acme, relay, dkim, txt, edge,
                   ids, todo, lines, force, blank, renewed, changed, stale, unlisted, done>>

RestartForAccounts == RestartServer("restartA", "script") /\ UNCHANGED events

----------------------------------------------------------------------------
(* reconcileMailCert                                                       *)

Hostnames == {t \in Tenant : ws.mail[t].hosted /\ ws.mail[t].branded}

WriteScript ==
    /\ pc = "script"
    /\ \/ force' = (script # Hostnames) /\ UNCHANGED events
       \/ force' = TRUE /\ Event
    /\ script' = Hostnames
    /\ stale' = (stale /\ ~force')
    /\ pc' = "timer"
    /\ UNCHANGED <<ws, ssm, accounts, read, cert, certRead, acme, relay, dkim, txt, edge,
                   ids, todo, lines, blank, renewed, changed, owed, unlisted, done>>

\* The units and the timer; then the certificate is read, and issued if need be.
EnableTimer ==
    /\ pc = "timer"
    /\ \/ blank' = (cert = None) /\ UNCHANGED events
       \/ blank' = TRUE /\ Event
    /\ pc' = IF force \/ blank' THEN "issue" ELSE "restartC"
    /\ renewed' = FALSE
    /\ UNCHANGED <<ws, ssm, server, edge, ids, todo, lines, force, changed, hist, done>>

\* The script issues for its names and installs the files; nobody restarts the server there.
Issued ==
    /\ cert' = script /\ acme' = script
    /\ certRead' = FALSE
    /\ UNCHANGED <<accounts, read, script, relay, dkim, txt>>

\* Forced, for other names than before, or due.
IssueCert ==
    /\ pc = "issue"
    /\ Issued
    /\ renewed' = TRUE
    /\ stale' = FALSE
    /\ pc' = "restartC"
    /\ UNCHANGED <<ws, ssm, edge, ids, todo, lines, force, blank, changed, owed, unlisted, done, events>>

\* A new certificate that reads differently, or one that cannot be read, after one that could.
RestartForCert ==
    /\ RestartServer("restartC", "relay")
    /\ \/ renewed /\ UNCHANGED events
       \/ ~blank /\ Event

\* Nothing was read before, and nothing after: no change, so no restart.
CertUnread ==
    /\ pc = "restartC" /\ blank
    /\ Event
    /\ pc' = "relay"
    /\ owed' = owed \cup {"cert"}
    /\ UNCHANGED <<ws, ssm, server, edge, ids, todo, lines, force, blank, renewed, changed,
                   stale, unlisted, done>>

CertUnchanged ==
    /\ pc = "restartC" /\ ~renewed
    /\ pc' = "relay"
    /\ UNCHANGED <<ws, ssm, server, edge, ids, todo, lines, force, blank, renewed, changed, hist, done, events>>

----------------------------------------------------------------------------
(* reconcileMailRelay and reconcileDKIM                                    *)

\* The two secrets in the order of a Go map.
PushRelaySecret(s) ==
    /\ pc = "relay" /\ ws.relay
    /\ relay[s] # ssm.ses
    /\ relay' = [relay EXCEPT ![s] = ssm.ses]
    /\ UNCHANGED <<ws, ssm, accounts, read, script, cert, certRead, acme, dkim, txt, edge, local, hist, done, events>>

RelayDone ==
    /\ pc = "relay"
    /\ ws.relay => \A s \in DOMAIN relay : relay[s] = ssm.ses
    /\ pc' = "dkim"
    /\ todo' = {t \in selected : ws.mail[t].hosted}
    /\ UNCHANGED <<ws, ssm, server, edge, ids, lines, force, blank, renewed, changed, hist, done, events>>

\* A key is generated once.
GenerateDKIM ==
    /\ pc = "dkim"
    /\ \E t \in Tenant \ dkim : Turn(ids, t) /\ dkim' = dkim \cup {t}
    /\ UNCHANGED <<ws, ssm, accounts, read, script, cert, certRead, acme, relay, txt, edge, local, hist, done, events>>

UpsertTXT ==
    /\ pc = "dkim"
    /\ \E t \in dkim : Turn(ids, t) /\ txt' = txt \cup {t} /\ todo' = todo \ {t}
    /\ UNCHANGED <<ws, ssm, accounts, read, script, cert, certRead, acme, relay, dkim, edge,
                   pc, ids, lines, force, blank, renewed, changed, hist, done, events>>

DKIMDone ==
    /\ pc = "dkim" /\ todo = {}
    /\ pc' = "sts"
    /\ todo' = selected
    /\ UNCHANGED <<ws, ssm, server, edge, ids, lines, force, blank, renewed, changed, hist, done, events>>

----------------------------------------------------------------------------
(* provisionMTASTS                                                         *)

WantsSTS(t) == ws.mail[t].hosted /\ ws.mail[t].sts

\* What the pattern of t finds and t does not want.
Removed(t) ==
    {u \in frag : (u = t \/ <<t, u>> \in Globs) /\ ~(u = t /\ WantsSTS(t))}

\* Mutant: only a written fragment counts as a change.
Counts_Written(gone, new) == new # {}

Counts(gone, new) == gone # {} \/ new # {}

\* The listing may fail, and nothing is removed then.
RemoveFragments ==
    /\ pc = "sts" /\ todo # {}
    /\ \/ /\ \E t \in Tenant :
                /\ Turn(ids, t)
                /\ frag' = frag \ Removed(t)
                /\ torn' = torn \ Removed(t)
                /\ changed' = (changed \/ Counts(Removed(t), {}))
          /\ UNCHANGED <<unlisted, events>>
       \/ /\ Event
          /\ unlisted' = TRUE
          /\ UNCHANGED <<frag, torn, changed>>
    /\ pc' = "fragment"
    /\ UNCHANGED <<ws, ssm, server, served, ids, todo, lines, force, blank, renewed, owed, stale, done>>

\* Whether the fragment that t wants is missing or not what is wanted.
Wanting(t) == IF WantsSTS(t) THEN {t} \ (frag \ torn) ELSE {}

WriteFragment ==
    /\ pc = "fragment"
    /\ \E t \in Tenant, new \in SUBSET Tenant :
          /\ Turn(ids, t)
          /\ \/ new = Wanting(t) /\ UNCHANGED events
             \/ WantsSTS(t) /\ new = {t} /\ Event
          /\ frag' = frag \cup new /\ torn' = torn \ new
          /\ changed' = (changed \/ Counts({}, new))
          /\ todo' = todo \ {t}
    /\ pc' = "sts"
    /\ UNCHANGED <<ws, ssm, server, served, ids, lines, force, blank, renewed, hist, done>>

Leave ==
    /\ pc' = "idle" /\ ids' = <<>> /\ todo' = {} /\ lines' = NoLines
    /\ force' = FALSE /\ blank' = FALSE /\ renewed' = FALSE /\ changed' = FALSE

\* Caddy is reloaded, or else restarted, if any fragment changed.  With a torn
\* one it refuses the reload and dies once restarted, which systemd calls a success.
Reload ==
    /\ pc = "sts" /\ todo = {}
    /\ served' = IF ~changed THEN served ELSE IF torn = {} THEN frag ELSE {}
    /\ owed' = IF ~changed THEN owed ELSE IF torn = {} THEN owed \ {"caddy"} ELSE owed \cup {"caddy"}
    /\ Leave
    /\ done' = ids
    /\ UNCHANGED <<ws, ssm, server, frag, torn, stale, unlisted, events>>

----------------------------------------------------------------------------
(* Failures and the world outside                                          *)

\* A step fails or the run dies: what it had still to restart stays as it is.
Cut ==
    /\ pc # "idle"
    /\ Event
    /\ owed' = owed \cup (IF pc = "restartA" THEN {"accounts"} ELSE {})
                    \cup (IF pc = "restartC" /\ renewed THEN {"cert"} ELSE {})
                    \cup (IF changed THEN {"caddy"} ELSE {})
    /\ stale' = (stale \/ (pc \in {"timer", "issue"} /\ force))
    /\ Leave
    /\ UNCHANGED <<ws, ssm, server, edge, unlisted, done>>

\* acme.sh has such a certificate and it is not due: it fails, and with it the
\* script, which installs nothing.
IssueSkipped ==
    /\ pc = "issue" /\ ~force /\ acme = script
    /\ Leave
    /\ UNCHANGED <<ws, ssm, server, edge, hist, done, events>>

\* The script dies between issuing and installing.
IssueCut ==
    /\ pc = "issue"
    /\ Event
    /\ acme' = script
    /\ stale' = (stale \/ force)
    /\ Leave
    /\ UNCHANGED <<ws, ssm, accounts, read, script, cert, certRead, relay, dkim, txt, edge,
                   owed, unlisted, done>>

\* The connection is lost during an upload, and the remote end keeps what arrived.
\* Part of the certificate script ends before it installs anything, as good as none.
\* A right fragment is uploaded again when it could not be read.
UploadTorn ==
    /\ Event
    /\ \/ /\ pc = "accounts"
          /\ \E k \in 0..Len(Order) :
                accounts' = [t \in Tenant |-> IF \E j \in 1..k : Order[j] = t THEN lines[t] ELSE None]
          /\ owed' = owed \cup {"accounts"}
          /\ UNCHANGED <<script, frag, torn>>
       \/ /\ pc = "script"
          /\ script' = None
          /\ UNCHANGED <<accounts, frag, torn, owed>>
       \/ /\ pc = "fragment"
          /\ \E t \in Tenant :
                /\ Turn(ids, t) /\ WantsSTS(t)
                /\ frag' = frag \cup {t} /\ torn' = torn \cup {t}
          /\ owed' = owed \cup {"caddy"}
          /\ UNCHANGED <<accounts, script>>
    /\ Leave
    /\ UNCHANGED <<ws, ssm, read, cert, certRead, acme, relay, dkim, txt, served, stale, unlisted, done>>

\* The timer's script issues when the certificate is due or its names have changed.
TimerTick ==
    /\ script # None
    /\ Event
    /\ Issued
    /\ renewed' = (renewed \/ pc = "restartC")
    /\ stale' = FALSE
    /\ owed' = owed \cup {"cert"}
    /\ done' = <<>>
    /\ UNCHANGED <<ws, ssm, edge, pc, ids, todo, lines, force, blank, changed, unlisted>>

\* A tenant's mail block, a seeded hash, or new relay credentials.
Edit ==
    /\ pc = "idle"
    /\ Event
    /\ \/ \E t \in Tenant, h \in BOOLEAN, b \in BOOLEAN, s \in BOOLEAN :
             /\ ws' = [ws EXCEPT !.mail[t] = [hosted |-> h, branded |-> b, sts |-> s]]
             /\ UNCHANGED ssm
       \/ \E t \in Tenant \ ssm.seeded : ssm' = [ssm EXCEPT !.seeded = @ \cup {t}] /\ UNCHANGED ws
       \/ ssm' = [ssm EXCEPT !.ses = @ + 1] /\ UNCHANGED ws
    /\ done' = <<>>
    /\ UNCHANGED <<server, edge, local, hist>>

----------------------------------------------------------------------------
Step ==
    \/ GatherLine \/ CompareAccounts \/ WriteAccounts \/ RestartForAccounts
    \/ WriteScript \/ EnableTimer \/ IssueCert \/ IssueSkipped
    \/ RestartForCert \/ CertUnchanged \/ CertUnread
    \/ (\E s \in {"user", "password"} : PushRelaySecret(s)) \/ RelayDone
    \/ GenerateDKIM \/ UpsertTXT \/ DKIMDone
    \/ RemoveFragments \/ WriteFragment \/ Reload

Next ==
    \/ \E s \in Selections : Start(s)
    \/ Step \/ Cut \/ IssueCut \/ UploadTorn \/ TimerTick \/ Edit

Spec == Init /\ [][Next]_vars

----------------------------------------------------------------------------
Hosted == {t \in Tenant : ws.mail[t].hosted}
Done   == {done[k] : k \in 1..Len(done)}

\* The loop over s removes the fragment of t after it has come by t.
Caught(s, t) == \E u \in Tenant : <<u, t>> \in Globs /\ Before(s, t, u)

(***************************************************************************)
(* After a run that reported success: while any tenant has mail here, the  *)
(* accounts file has exactly the mailboxes of all tenants with mail, each  *)
(* with its password, whoever the run was for; the certificate has all     *)
(* names unless an earlier run was cut off before issuing it; the relay    *)
(* secrets belong together; the DKIM keys of the run's tenants are         *)
(* published; their MTA-STS fragments are the ones they ask for, unless    *)
(* the ids were named in an order in which a later one's pattern caught    *)
(* the fragment of an earlier one.                                         *)
(***************************************************************************)
OkMeansProvisioned ==
    done # <<>> =>
        /\ Hosted # {} =>
              /\ \A t \in Tenant : accounts[t] = IF t \notin Hosted THEN None
                                                 ELSE IF t \in ssm.seeded THEN "seeded" ELSE "generated"
              /\ cert = Hostnames \/ stale
              /\ ws.relay => \A s \in DOMAIN relay : relay[s] = ssm.ses
              /\ Done \cap Hosted \subseteq txt
        /\ \A t \in Done : IF WantsSTS(t) THEN t \in frag \ torn \/ Caught(done, t)
                                          ELSE t \notin frag \/ unlisted

(***************************************************************************)
(* Between runs the server and Caddy run with what is on disk, unless a    *)
(* run was cut off in a write or between a write and its restart, or the   *)
(* timer renewed the certificate, which restarts nothing, or a run could   *)
(* read the certificate neither before nor after issuing it.               *)
(***************************************************************************)
BehindOnlyIfOwed ==
    pc = "idle" =>
        /\ read = accounts \/ "accounts" \in owed
        /\ certRead \/ cert = None \/ "cert" \in owed
        /\ served = frag \/ "caddy" \in owed

=============================================================================
