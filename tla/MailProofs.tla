----------------------------- MODULE MailProofs -----------------------------
(***************************************************************************)
(* Proofs about Mail, for any number of tenants, any overlap of their      *)
(* fragment patterns and any number of failures.                           *)
(***************************************************************************)
EXTENDS Mail, TLAPS

\* What the parameter store keeps.
SSM == [seeded : SUBSET Tenant, generated : SUBSET Tenant, ses : Nat]

USE DEF server, edge, local, hist

----------------------------------------------------------------------------
(***************************************************************************)
(* The inductive invariant.                                                *)
(***************************************************************************)

\* The phases of provisionMail before, and after, the accounts are written.
Early == {"lines", "accounts"}
Late  == {"restartA", "script", "timer", "issue", "restartC", "relay", "dkim"}
STS   == {"sts", "fragment"}

\* A success is reported between runs only, provisionMail runs only when a
\* tenant has mail here, and fragments change only in provisionMTASTS.
PhaseInv ==
    /\ pc # "idle" => done = <<>>
    /\ pc \in Early \cup Late => Hosted # {}
    /\ pc \notin STS => ~changed
    /\ Distinct(ids)

\* The password of t's mailbox: what the file should have for t.
Line(t) == IF t \notin Hosted THEN None ELSE IF t \in ssm.seeded THEN "seeded" ELSE "generated"

AccountsInv ==
    /\ pc = "lines" => \A t \in Tenant \ todo : lines[t] = Line(t)
    /\ pc = "accounts" => \A t \in Tenant : lines[t] = Line(t)
    /\ (Hosted # {} /\ (pc \in Late \cup STS \/ done # <<>>)) => \A t \in Tenant : accounts[t] = Line(t)

\* The certificate has the names of the script, unless there is none yet, the
\* run is about to issue it or a run was cut off just then.
CertInv ==
    /\ script # None => \/ cert = script \/ cert = None \/ stale
                        \/ pc \in {"timer", "issue"} /\ force
    /\ (Hosted # {} /\ (pc \in {"timer", "issue", "restartC", "relay", "dkim"} \cup STS \/ done # <<>>))
          => script = Hostnames
    /\ (Hosted # {} /\ (pc \in {"restartC", "relay", "dkim"} \cup STS \/ done # <<>>)) => cert # None

RelayInv ==
    (Hosted # {} /\ (pc \in {"dkim"} \cup STS \/ done # <<>>)) =>
        (ws.relay => \A s \in {"user", "password"} : relay[s] = ssm.ses)

DKIMInv ==
    /\ pc = "dkim" => \A t \in selected : t \in Hosted => t \in todo \cup txt
    /\ (Hosted # {} /\ pc \in STS) => selected \cap Hosted \subseteq txt
    /\ Hosted # {} => Done \cap Hosted \subseteq txt

\* The fragment of t is the one it asks for, after a loop over s.
FragmentOK(s, t) ==
    IF WantsSTS(t) THEN t \in frag \ torn \/ Caught(s, t) ELSE t \notin frag \/ unlisted

\* The tenants the loop has been through are right, and come before the others:
\* a pattern of a later one is what Caught is about.
FragmentsInv ==
    /\ pc \in STS =>
         /\ todo \subseteq selected
         /\ \A t \in selected \ todo : FragmentOK(ids, t) /\ \A u \in todo : Before(ids, t, u)
    /\ pc = "fragment" => \A t \in Tenant : (Turn(ids, t) /\ ~WantsSTS(t)) => t \notin frag \/ unlisted
    /\ \A t \in Done : FragmentOK(done, t)

\* The server and Caddy run with what is on disk, or the run is about to restart
\* them, or a restart is owed.
BehindInv ==
    /\ read = accounts \/ "accounts" \in owed \/ pc = "restartA"
    /\ certRead \/ cert = None \/ "cert" \in owed \/ (pc = "restartC" /\ renewed)
    /\ served = frag \/ "caddy" \in owed \/ changed

IInv == /\ TypeOK /\ PhaseInv /\ AccountsInv /\ CertInv /\ RelayInv /\ DKIMInv
        /\ FragmentsInv /\ BehindInv

----------------------------------------------------------------------------
(***************************************************************************)
(* Facts about the operators.                                              *)
(***************************************************************************)

\* The ids of a run are tenants, each named once.
LEMMA SelectionsType ==
    ASSUME NEW s \in Selections
    PROVE  s \in Seq(Tenant) /\ Distinct(s)
<1>1. PICK n \in 1..Len(Order) : s \in [1..n -> Tenant]
  BY DEF Selections
<1>2. Len(Order) \in Nat
  BY OrderAssumption
<1>3. s \in Seq(Tenant)
  BY <1>1, <1>2
<1> QED BY <1>3 DEF Selections

\* A loop over distinct tenants is at one of them.
LEMMA OneTurn ==
    ASSUME NEW s \in Seq(Tenant), Distinct(s), NEW t, NEW u, Turn(s, t), Turn(s, u)
    PROVE  t = u
<1>1. SUFFICES ASSUME t # u PROVE FALSE
  OBVIOUS
<1>2. Before(s, t, u) /\ Before(s, u, t)
  BY <1>1 DEF Turn
<1>3. PICK j, k \in 1..Len(s) : j < k /\ s[j] = t /\ s[k] = u
  BY <1>2 DEF Before
<1>4. PICK m, n \in 1..Len(s) : m < n /\ s[m] = u /\ s[n] = t
  BY <1>2 DEF Before
<1>5. j = n /\ k = m
  BY <1>3, <1>4 DEF Distinct
<1> QED BY <1>3, <1>4, <1>5

\* A set of tenants is not the mark for nothing.
LEMMA HostnamesType == Hostnames \in SUBSET Tenant /\ Hostnames # None
<1>1. Hostnames \in SUBSET Tenant
  BY DEF Hostnames
<1> QED BY <1>1, NoneAssumption

\* The ids of a run are tenants.
LEMMA SelectedType == TypeOK => selected \subseteq Tenant
BY DEF TypeOK, selected

\* What a run generates and the operator puts in SSM keeps its type.
LEMMA SSMType ==
    ASSUME TypeOK
    PROVE  /\ \A S \in SUBSET Tenant : [ssm EXCEPT !.generated = S] \in SSM
           /\ \A S \in SUBSET Tenant : [ssm EXCEPT !.seeded = S] \in SSM
           /\ \A n \in Nat : [ssm EXCEPT !.ses = n] \in SSM
           /\ ssm \in SSM
           /\ ssm.seeded \subseteq Tenant /\ ssm.generated \subseteq Tenant /\ ssm.ses \in Nat
BY DEF TypeOK, SSM

\* An event counts up to the bound.
LEMMA EventType == ASSUME TypeOK, Event PROVE events' \in 0..MaxEvents
BY EventsAssumption DEF TypeOK, Event

\* A run that is over leaves a well-typed state.
LEMMA LeaveType ==
    ASSUME Leave
    PROVE  /\ pc' = "idle" /\ ids' \in Seq(Tenant) /\ todo' \subseteq Tenant
           /\ lines' \in [Tenant -> Password \cup {None}]
           /\ force' \in BOOLEAN /\ blank' \in BOOLEAN /\ renewed' \in BOOLEAN /\ changed' \in BOOLEAN
<1>1. force' \in BOOLEAN /\ blank' \in BOOLEAN /\ renewed' \in BOOLEAN /\ changed' \in BOOLEAN
  BY Zenon DEF Leave
<1> QED BY <1>1 DEF Leave, NoLines

----------------------------------------------------------------------------
(***************************************************************************)
(* Type correctness.                                                       *)
(***************************************************************************)

\* Every initial state is well typed.
LEMMA TypeInit == Init => TypeOK
<1> SUFFICES ASSUME Init PROVE TypeOK
  OBVIOUS
<1>1. ws \in [mail : [Tenant -> [hosted : BOOLEAN, branded : BOOLEAN, sts : BOOLEAN]], relay : BOOLEAN]
  BY DEF Init
<1>2. certRead \in BOOLEAN /\ force \in BOOLEAN /\ blank \in BOOLEAN /\ renewed \in BOOLEAN /\ changed \in BOOLEAN
      /\ stale \in BOOLEAN /\ unlisted \in BOOLEAN
  BY Zenon DEF Init
<1>3. ssm \in SSM
  BY DEF Init, SSM
<1>4. accounts \in [Tenant -> Password \cup {None}] /\ read \in [Tenant -> Password \cup {None}]
      /\ lines \in [Tenant -> Password \cup {None}]
      /\ relay \in [{"user", "password"} -> Nat \cup {None}]
  BY DEF Init, NoLines
<1>5. events \in 0..MaxEvents
  BY EventsAssumption DEF Init
<1> QED BY <1>1, <1>2, <1>3, <1>4, <1>5 DEF Init, TypeOK, SSM

\* Every step of a run, of the timer or of the operator keeps the types.
LEMMA TypeStep == TypeOK /\ Next => TypeOK'
<1> SUFFICES ASSUME TypeOK, Next PROVE TypeOK'
  OBVIOUS
<1>1. CASE GatherLine
  <2>1. lines' \in [Tenant -> Password \cup {None}]
    BY <1>1 DEF TypeOK, GatherLine, Password
  <2>2. ssm' \in SSM
    BY <1>1, SSMType DEF GatherLine
  <2>3. todo' \subseteq Tenant
    BY <1>1 DEF TypeOK, GatherLine
  <2> QED BY <1>1, <2>1, <2>2, <2>3 DEF GatherLine, TypeOK, SSM
<1>2. CASE CompareAccounts
  BY <1>2, EventType DEF CompareAccounts, TypeOK
<1>3. CASE WriteAccounts
  BY <1>3 DEF WriteAccounts, TypeOK
<1>4. CASE RestartForAccounts
  <2>1. certRead' \in BOOLEAN
    BY <1>4, Zenon DEF RestartForAccounts, RestartServer
  <2> QED BY <1>4, <2>1 DEF RestartForAccounts, RestartServer, TypeOK
<1>5. CASE WriteScript
  <2>1. force' \in BOOLEAN /\ stale' \in BOOLEAN
    BY <1>5, Zenon DEF WriteScript
  <2>2. script' \in SUBSET Tenant
    BY <1>5, HostnamesType DEF WriteScript
  <2>3. events' \in 0..MaxEvents
    BY <1>5, EventType DEF WriteScript, TypeOK
  <2> QED BY <1>5, <2>1, <2>2, <2>3, HostnamesType DEF WriteScript, TypeOK
<1>6. CASE EnableTimer
  <2>1. renewed' \in BOOLEAN /\ blank' \in BOOLEAN
    BY <1>6, Zenon DEF EnableTimer
  <2>2. events' \in 0..MaxEvents
    BY <1>6, EventType DEF EnableTimer, TypeOK
  <2> QED BY <1>6, <2>1, <2>2 DEF EnableTimer, TypeOK
<1>7. CASE IssueCert
  <2>1. certRead' \in BOOLEAN /\ renewed' \in BOOLEAN /\ stale' \in BOOLEAN
    BY <1>7, Zenon DEF IssueCert, Issued
  <2> QED BY <1>7, <2>1 DEF IssueCert, Issued, TypeOK
<1>8. CASE RestartForCert
  <2>1. certRead' \in BOOLEAN
    BY <1>8, Zenon DEF RestartForCert, RestartServer
  <2>2. events' \in 0..MaxEvents
    BY <1>8, EventType DEF RestartForCert, TypeOK
  <2> QED BY <1>8, <2>1, <2>2 DEF RestartForCert, RestartServer, TypeOK
<1>9. CASE CertUnchanged
  BY <1>9 DEF CertUnchanged, TypeOK
<1>10. ASSUME NEW s \in {"user", "password"}, PushRelaySecret(s) PROVE TypeOK'
  BY <1>10 DEF PushRelaySecret, TypeOK
<1>11. CASE RelayDone
  BY <1>11, SelectedType DEF RelayDone, TypeOK
<1>12. CASE GenerateDKIM
  BY <1>12 DEF GenerateDKIM, TypeOK
<1>13. CASE UpsertTXT
  BY <1>13 DEF UpsertTXT, TypeOK
<1>14. CASE DKIMDone
  BY <1>14, SelectedType DEF DKIMDone, TypeOK
<1>15. CASE RemoveFragments
  <2>1. changed' \in BOOLEAN
    BY <1>15, Zenon DEF TypeOK, RemoveFragments
  <2>2. unlisted' \in BOOLEAN
    BY <1>15, Zenon DEF TypeOK, RemoveFragments
  <2>3. events' \in 0..MaxEvents
    BY <1>15, EventType DEF TypeOK, RemoveFragments
  <2>4. torn' \subseteq frag' /\ frag' \subseteq Tenant
    BY <1>15 DEF TypeOK, RemoveFragments
  <2> QED BY <1>15, <2>1, <2>2, <2>3, <2>4 DEF RemoveFragments, TypeOK
<1>16. CASE WriteFragment
  <2>1. changed' \in BOOLEAN
    BY <1>16, Zenon DEF TypeOK, WriteFragment
  <2>2. torn' \subseteq frag' /\ frag' \subseteq Tenant /\ todo' \subseteq Tenant
    BY <1>16 DEF TypeOK, WriteFragment
  <2>3. events' \in 0..MaxEvents
    BY <1>16, EventType DEF TypeOK, WriteFragment
  <2> QED BY <1>16, <2>1, <2>2, <2>3 DEF WriteFragment, TypeOK
<1>17. CASE Reload
  BY <1>17, LeaveType DEF Reload, TypeOK
<1>18. ASSUME NEW s \in Selections, Start(s) PROVE TypeOK'
  <2>1. force' \in BOOLEAN /\ blank' \in BOOLEAN /\ renewed' \in BOOLEAN /\ changed' \in BOOLEAN
      /\ unlisted' \in BOOLEAN
    BY <1>18, Zenon DEF Start
  <2>2. ids' \in Seq(Tenant)
    BY <1>18, SelectionsType DEF Start
  <2>3. todo' \subseteq Tenant
    BY <1>18, SelectionsType DEF Start
  <2>4. lines' \in [Tenant -> Password \cup {None}]
    BY <1>18 DEF Start, NoLines
  <2> QED BY <1>18, <2>1, <2>2, <2>3, <2>4 DEF Start, TypeOK
<1>19. CASE Cut
  <2>1. stale' \in BOOLEAN
    BY <1>19, Zenon DEF TypeOK, Cut
  <2>2. events' \in 0..MaxEvents
    BY <1>19, EventType DEF TypeOK, Cut
  <2>3. owed' \subseteq {"accounts", "cert", "caddy"}
    BY <1>19 DEF TypeOK, Cut
  <2> QED BY <1>19, <2>1, <2>2, <2>3, LeaveType DEF Cut, TypeOK
<1>20. CASE UploadTorn
  <2>1. accounts' \in [Tenant -> Password \cup {None}]
    BY <1>20 DEF TypeOK, UploadTorn
  <2>2. events' \in 0..MaxEvents
    BY <1>20, EventType DEF TypeOK, UploadTorn
  <2>3. owed' \subseteq {"accounts", "cert", "caddy"}
    BY <1>20 DEF TypeOK, UploadTorn
  <2>4. torn' \subseteq frag' /\ frag' \subseteq Tenant
    BY <1>20 DEF TypeOK, UploadTorn
  <2>5. script' \in {None} \cup SUBSET Tenant
    BY <1>20 DEF TypeOK, UploadTorn
  <2> QED BY <1>20, <2>1, <2>2, <2>3, <2>4, <2>5, LeaveType DEF UploadTorn, TypeOK
<1>21. CASE TimerTick
  <2>1. certRead' \in BOOLEAN /\ stale' \in BOOLEAN
    BY <1>21, Zenon DEF TimerTick, Issued
  <2>2. renewed' \in BOOLEAN
    BY <1>21, Zenon DEF TypeOK, TimerTick
  <2>3. events' \in 0..MaxEvents
    BY <1>21, EventType DEF TypeOK, TimerTick
  <2> QED BY <1>21, <2>1, <2>2, <2>3 DEF TimerTick, Issued, TypeOK
<1>22. CASE Edit
  <2>1. ws' \in [mail : [Tenant -> [hosted : BOOLEAN, branded : BOOLEAN, sts : BOOLEAN]],
               relay : BOOLEAN]
    BY <1>22 DEF TypeOK, Edit
  <2>2. ssm' \in SSM
    <3>1. CASE UNCHANGED ssm
      BY <3>1, SSMType
    <3>2. CASE \E t \in Tenant \ ssm.seeded : ssm' = [ssm EXCEPT !.seeded = @ \cup {t}]
      <4>1. PICK t \in Tenant \ ssm.seeded : ssm' = [ssm EXCEPT !.seeded = ssm.seeded \cup {t}]
        BY <3>2
      <4>2. ssm.seeded \cup {t} \in SUBSET Tenant
        BY SSMType
      <4> QED BY <4>1, <4>2, SSMType
    <3>3. CASE ssm' = [ssm EXCEPT !.ses = @ + 1]
      <4>1. ssm.ses + 1 \in Nat
        BY SSMType
      <4> QED BY <3>3, <4>1, SSMType
    <3> QED BY <1>22, <3>1, <3>2, <3>3 DEF Edit
  <2>3. events' \in 0..MaxEvents
    BY <1>22, EventType DEF TypeOK, Edit
  <2> QED BY <1>22, <2>1, <2>2, <2>3 DEF Edit, TypeOK, SSM
<1>23. CASE CertUnread
  BY <1>23, EventType DEF CertUnread, TypeOK
<1>24. CASE IssueSkipped
  BY <1>24, LeaveType DEF IssueSkipped, TypeOK
<1>25. CASE IssueCut
  <2>1. stale' \in BOOLEAN
    BY <1>25, Zenon DEF TypeOK, IssueCut
  <2>2. events' \in 0..MaxEvents
    BY <1>25, EventType DEF TypeOK, IssueCut
  <2> QED BY <1>25, <2>1, <2>2, LeaveType DEF IssueCut, TypeOK
<1> QED BY <1>1, <1>2, <1>3, <1>4, <1>5, <1>6, <1>7, <1>8, <1>9, <1>10, <1>11, <1>12, <1>13,
    <1>14, <1>15, <1>16, <1>17, <1>18, <1>19, <1>20, <1>21, <1>22, <1>23, <1>24, <1>25 DEF Next, Step

----------------------------------------------------------------------------
(***************************************************************************)
(* The other parts of the invariant, one lemma each.                       *)
(***************************************************************************)

\* Success is reported at the end of a run, and only provisionMTASTS changes fragments.
LEMMA PhaseStep == TypeOK /\ PhaseInv /\ Next => PhaseInv'
<1> SUFFICES ASSUME TypeOK, PhaseInv, Next PROVE PhaseInv'
  OBVIOUS
<1>1. CASE GatherLine
  BY <1>1 DEF GatherLine, PhaseInv, Early, Late, STS, Hosted
<1>2. CASE CompareAccounts
  BY <1>2 DEF CompareAccounts, Event, PhaseInv, Early, Late, STS, Hosted
<1>3. CASE WriteAccounts
  BY <1>3 DEF WriteAccounts, PhaseInv, Early, Late, STS, Hosted
<1>4. CASE RestartForAccounts
  BY <1>4 DEF RestartForAccounts, RestartServer, PhaseInv, Early, Late, STS, Hosted
<1>5. CASE WriteScript
  BY <1>5 DEF WriteScript, Event, PhaseInv, Early, Late, STS, Hosted
<1>6. CASE EnableTimer
  BY <1>6 DEF EnableTimer, Event, PhaseInv, Early, Late, STS, Hosted
<1>7. CASE IssueCert
  BY <1>7 DEF IssueCert, Issued, PhaseInv, Early, Late, STS, Hosted
<1>8. CASE RestartForCert
  BY <1>8 DEF RestartForCert, RestartServer, PhaseInv, Early, Late, STS, Hosted
<1>9. CASE CertUnchanged
  BY <1>9 DEF CertUnchanged, PhaseInv, Early, Late, STS, Hosted
<1>10. ASSUME NEW s \in {"user", "password"}, PushRelaySecret(s) PROVE PhaseInv'
  BY <1>10 DEF PushRelaySecret, PhaseInv, Early, Late, STS, Hosted
<1>11. CASE RelayDone
  BY <1>11 DEF RelayDone, PhaseInv, Early, Late, STS, Hosted
<1>12. CASE GenerateDKIM
  BY <1>12 DEF GenerateDKIM, PhaseInv, Early, Late, STS, Hosted
<1>13. CASE UpsertTXT
  BY <1>13 DEF UpsertTXT, PhaseInv, Early, Late, STS, Hosted
<1>14. CASE DKIMDone
  BY <1>14 DEF DKIMDone, PhaseInv, Early, Late, STS, Hosted
<1>15. CASE RemoveFragments
  BY <1>15 DEF RemoveFragments, Event, PhaseInv, Early, Late, STS, Hosted
<1>16. CASE WriteFragment
  BY <1>16 DEF WriteFragment, PhaseInv, Early, Late, STS, Hosted
<1>17. CASE Reload
  BY <1>17 DEF Reload, Leave, Distinct, PhaseInv, Early, Late, STS, Hosted
<1>18. ASSUME NEW s \in Selections, Start(s) PROVE PhaseInv'
  BY <1>18, SelectionsType DEF Start, PhaseInv, Early, Late, STS, Hosted
<1>19. CASE Cut
  BY <1>19 DEF Cut, Leave, Event, Distinct, PhaseInv, Early, Late, STS, Hosted
<1>20. CASE UploadTorn
  BY <1>20 DEF UploadTorn, Leave, Event, Distinct, PhaseInv, Early, Late, STS, Hosted
<1>21. CASE TimerTick
  BY <1>21 DEF TimerTick, Issued, Event, PhaseInv, Early, Late, STS, Hosted
<1>22. CASE Edit
  BY <1>22 DEF Edit, Event, PhaseInv, Early, Late, STS, Hosted
<1>23. CASE CertUnread
  BY <1>23 DEF CertUnread, Event, PhaseInv, Early, Late, STS, Hosted
<1>24. CASE IssueSkipped
  BY <1>24 DEF IssueSkipped, Leave, Distinct, PhaseInv, Early, Late, STS, Hosted
<1>25. CASE IssueCut
  BY <1>25 DEF IssueCut, Leave, Event, Distinct, PhaseInv, Early, Late, STS, Hosted
<1> QED BY <1>1, <1>2, <1>3, <1>4, <1>5, <1>6, <1>7, <1>8, <1>9, <1>10, <1>11, <1>12, <1>13,
    <1>14, <1>15, <1>16, <1>17, <1>18, <1>19, <1>20, <1>21, <1>22, <1>23, <1>24, <1>25 DEF Next, Step

\* reconcileMailboxes writes the line of every tenant with mail, whoever the run is for.
LEMMA AccountsStep == TypeOK /\ PhaseInv /\ AccountsInv /\ Next => AccountsInv'
<1> SUFFICES ASSUME TypeOK, PhaseInv, AccountsInv, Next PROVE AccountsInv'
  OBVIOUS
<1>1. CASE GatherLine
  BY <1>1 DEF GatherLine, TypeOK, MailTenants, PhaseInv, AccountsInv, Line, Early, Late,
      STS, Hosted
<1>2. CASE CompareAccounts
  BY <1>2 DEF CompareAccounts, Event, SameText, PhaseInv, AccountsInv, Line, Early, Late, STS, Hosted
<1>3. CASE WriteAccounts
  BY <1>3 DEF WriteAccounts, PhaseInv, AccountsInv, Line, Early, Late, STS, Hosted
<1>4. CASE RestartForAccounts
  BY <1>4 DEF RestartForAccounts, RestartServer, PhaseInv, AccountsInv, Line, Early, Late,
      STS, Hosted
<1>5. CASE WriteScript
  BY <1>5 DEF WriteScript, Event, PhaseInv, AccountsInv, Line, Early, Late, STS, Hosted
<1>6. CASE EnableTimer
  BY <1>6 DEF EnableTimer, Event, PhaseInv, AccountsInv, Line, Early, Late, STS, Hosted
<1>7. CASE IssueCert
  BY <1>7 DEF IssueCert, Issued, PhaseInv, AccountsInv, Line, Early, Late, STS, Hosted
<1>8. CASE RestartForCert
  BY <1>8 DEF RestartForCert, RestartServer, PhaseInv, AccountsInv, Line, Early, Late, STS,
      Hosted
<1>9. CASE CertUnchanged
  BY <1>9 DEF CertUnchanged, PhaseInv, AccountsInv, Line, Early, Late, STS, Hosted
<1>10. ASSUME NEW s \in {"user", "password"}, PushRelaySecret(s) PROVE AccountsInv'
  BY <1>10 DEF PushRelaySecret, PhaseInv, AccountsInv, Line, Early, Late, STS, Hosted
<1>11. CASE RelayDone
  BY <1>11 DEF RelayDone, PhaseInv, AccountsInv, Line, Early, Late, STS, Hosted
<1>12. CASE GenerateDKIM
  BY <1>12 DEF GenerateDKIM, PhaseInv, AccountsInv, Line, Early, Late, STS, Hosted
<1>13. CASE UpsertTXT
  BY <1>13 DEF UpsertTXT, PhaseInv, AccountsInv, Line, Early, Late, STS, Hosted
<1>14. CASE DKIMDone
  BY <1>14 DEF DKIMDone, PhaseInv, AccountsInv, Line, Early, Late, STS, Hosted
<1>15. CASE RemoveFragments
  BY <1>15 DEF RemoveFragments, Event, PhaseInv, AccountsInv, Line, Early, Late, STS, Hosted
<1>16. CASE WriteFragment
  BY <1>16 DEF WriteFragment, PhaseInv, AccountsInv, Line, Early, Late, STS, Hosted
<1>17. CASE Reload
  BY <1>17 DEF Reload, Leave, PhaseInv, AccountsInv, Line, Early, Late, STS, Hosted
<1>18. ASSUME NEW s \in Selections, Start(s) PROVE AccountsInv'
  BY <1>18 DEF Start, PhaseInv, AccountsInv, Line, Early, Late, STS, Hosted
<1>19. CASE Cut
  BY <1>19 DEF Cut, Leave, Event, PhaseInv, AccountsInv, Line, Early, Late, STS, Hosted
<1>20. CASE UploadTorn
  BY <1>20 DEF UploadTorn, Leave, Event, PhaseInv, AccountsInv, Line, Early, Late, STS, Hosted
<1>21. CASE TimerTick
  BY <1>21 DEF TimerTick, Issued, Event, PhaseInv, AccountsInv, Line, Early, Late, STS, Hosted
<1>22. CASE Edit
  BY <1>22 DEF Edit, Event, PhaseInv, AccountsInv, Line, Early, Late, STS, Hosted
<1>23. CASE CertUnread
  BY <1>23 DEF CertUnread, Event, PhaseInv, AccountsInv, Line, Early, Late, STS, Hosted
<1>24. CASE IssueSkipped
  BY <1>24 DEF IssueSkipped, Leave, PhaseInv, AccountsInv, Line, Early, Late, STS, Hosted
<1>25. CASE IssueCut
  BY <1>25 DEF IssueCut, Leave, Event, PhaseInv, AccountsInv, Line, Early, Late, STS, Hosted
<1> QED BY <1>1, <1>2, <1>3, <1>4, <1>5, <1>6, <1>7, <1>8, <1>9, <1>10, <1>11, <1>12, <1>13,
    <1>14, <1>15, <1>16, <1>17, <1>18, <1>19, <1>20, <1>21, <1>22, <1>23, <1>24, <1>25 DEF Next, Step

\* reconcileMailCert leaves a certificate with the names of its script.
LEMMA CertStep == TypeOK /\ PhaseInv /\ CertInv /\ Next => CertInv'
<1> SUFFICES ASSUME TypeOK, PhaseInv, CertInv, Next PROVE CertInv'
  OBVIOUS
<1>1. CASE GatherLine
  BY <1>1 DEF GatherLine, PhaseInv, CertInv, Hostnames, Early, Late, STS, Hosted
<1>2. CASE CompareAccounts
  BY <1>2 DEF CompareAccounts, Event, PhaseInv, CertInv, Hostnames, Early, Late, STS, Hosted
<1>3. CASE WriteAccounts
  BY <1>3 DEF WriteAccounts, PhaseInv, CertInv, Hostnames, Early, Late, STS, Hosted
<1>4. CASE RestartForAccounts
  BY <1>4 DEF RestartForAccounts, RestartServer, PhaseInv, CertInv, Hostnames, Early, Late,
      STS, Hosted
<1>5. CASE WriteScript
  BY <1>5 DEF WriteScript, Event, PhaseInv, CertInv, Hostnames, Early, Late, STS, Hosted
<1>6. CASE EnableTimer
  BY <1>6 DEF EnableTimer, Event, PhaseInv, CertInv, Hostnames, Early, Late, STS, Hosted
<1>7. CASE IssueCert
  BY <1>7, HostnamesType DEF IssueCert, Issued, PhaseInv, CertInv, Hostnames, Early, Late,
      STS, Hosted
<1>8. CASE RestartForCert
  BY <1>8 DEF RestartForCert, RestartServer, PhaseInv, CertInv, Hostnames, Early, Late, STS,
      Hosted
<1>9. CASE CertUnchanged
  BY <1>9 DEF CertUnchanged, PhaseInv, CertInv, Hostnames, Early, Late, STS, Hosted
<1>10. ASSUME NEW s \in {"user", "password"}, PushRelaySecret(s) PROVE CertInv'
  BY <1>10 DEF PushRelaySecret, PhaseInv, CertInv, Hostnames, Early, Late, STS, Hosted
<1>11. CASE RelayDone
  BY <1>11 DEF RelayDone, PhaseInv, CertInv, Hostnames, Early, Late, STS, Hosted
<1>12. CASE GenerateDKIM
  BY <1>12 DEF GenerateDKIM, PhaseInv, CertInv, Hostnames, Early, Late, STS, Hosted
<1>13. CASE UpsertTXT
  BY <1>13 DEF UpsertTXT, PhaseInv, CertInv, Hostnames, Early, Late, STS, Hosted
<1>14. CASE DKIMDone
  BY <1>14 DEF DKIMDone, PhaseInv, CertInv, Hostnames, Early, Late, STS, Hosted
<1>15. CASE RemoveFragments
  BY <1>15 DEF RemoveFragments, Event, PhaseInv, CertInv, Hostnames, Early, Late, STS, Hosted
<1>16. CASE WriteFragment
  BY <1>16 DEF WriteFragment, PhaseInv, CertInv, Hostnames, Early, Late, STS, Hosted
<1>17. CASE Reload
  BY <1>17 DEF Reload, Leave, PhaseInv, CertInv, Hostnames, Early, Late, STS, Hosted
<1>18. ASSUME NEW s \in Selections, Start(s) PROVE CertInv'
  BY <1>18 DEF Start, PhaseInv, CertInv, Hostnames, Early, Late, STS, Hosted
<1>19. CASE Cut
  BY <1>19 DEF Cut, Leave, Event, PhaseInv, CertInv, Hostnames, Early, Late, STS, Hosted
<1>20. CASE UploadTorn
  BY <1>20 DEF UploadTorn, Leave, Event, PhaseInv, CertInv, Hostnames, Early, Late, STS, Hosted
<1>21. CASE TimerTick
  BY <1>21 DEF TimerTick, Issued, Event, PhaseInv, CertInv, Hostnames, Early, Late, STS, Hosted
<1>22. CASE Edit
  BY <1>22 DEF Edit, Event, PhaseInv, CertInv, Hostnames, Early, Late, STS, Hosted
<1>23. CASE CertUnread
  BY <1>23 DEF CertUnread, Event, PhaseInv, CertInv, Hostnames, Early, Late, STS, Hosted
<1>24. CASE IssueSkipped
  BY <1>24 DEF IssueSkipped, Leave, PhaseInv, CertInv, Hostnames, Early, Late, STS, Hosted
<1>25. CASE IssueCut
  BY <1>25 DEF IssueCut, Leave, Event, PhaseInv, CertInv, Hostnames, Early, Late, STS, Hosted
<1> QED BY <1>1, <1>2, <1>3, <1>4, <1>5, <1>6, <1>7, <1>8, <1>9, <1>10, <1>11, <1>12, <1>13,
    <1>14, <1>15, <1>16, <1>17, <1>18, <1>19, <1>20, <1>21, <1>22, <1>23, <1>24, <1>25 DEF Next, Step

\* reconcileMailRelay ends with both secrets current.
LEMMA RelayStep == TypeOK /\ PhaseInv /\ RelayInv /\ Next => RelayInv'
<1> SUFFICES ASSUME TypeOK, PhaseInv, RelayInv, Next PROVE RelayInv'
  OBVIOUS
<1>1. CASE GatherLine
  BY <1>1 DEF GatherLine, PhaseInv, RelayInv, Early, Late, STS, Hosted
<1>2. CASE CompareAccounts
  BY <1>2 DEF CompareAccounts, Event, PhaseInv, RelayInv, Early, Late, STS, Hosted
<1>3. CASE WriteAccounts
  BY <1>3 DEF WriteAccounts, PhaseInv, RelayInv, Early, Late, STS, Hosted
<1>4. CASE RestartForAccounts
  BY <1>4 DEF RestartForAccounts, RestartServer, PhaseInv, RelayInv, Early, Late, STS, Hosted
<1>5. CASE WriteScript
  BY <1>5 DEF WriteScript, Event, PhaseInv, RelayInv, Early, Late, STS, Hosted
<1>6. CASE EnableTimer
  BY <1>6 DEF EnableTimer, Event, PhaseInv, RelayInv, Early, Late, STS, Hosted
<1>7. CASE IssueCert
  BY <1>7 DEF IssueCert, Issued, PhaseInv, RelayInv, Early, Late, STS, Hosted
<1>8. CASE RestartForCert
  BY <1>8 DEF RestartForCert, RestartServer, PhaseInv, RelayInv, Early, Late, STS, Hosted
<1>9. CASE CertUnchanged
  BY <1>9 DEF CertUnchanged, PhaseInv, RelayInv, Early, Late, STS, Hosted
<1>10. ASSUME NEW s \in {"user", "password"}, PushRelaySecret(s) PROVE RelayInv'
  BY <1>10 DEF PushRelaySecret, TypeOK, PhaseInv, RelayInv, Early, Late, STS, Hosted
<1>11. CASE RelayDone
  BY <1>11 DEF RelayDone, TypeOK, PhaseInv, RelayInv, Early, Late, STS, Hosted
<1>12. CASE GenerateDKIM
  BY <1>12 DEF GenerateDKIM, PhaseInv, RelayInv, Early, Late, STS, Hosted
<1>13. CASE UpsertTXT
  BY <1>13 DEF UpsertTXT, PhaseInv, RelayInv, Early, Late, STS, Hosted
<1>14. CASE DKIMDone
  BY <1>14 DEF DKIMDone, PhaseInv, RelayInv, Early, Late, STS, Hosted
<1>15. CASE RemoveFragments
  BY <1>15 DEF RemoveFragments, Event, PhaseInv, RelayInv, Early, Late, STS, Hosted
<1>16. CASE WriteFragment
  BY <1>16 DEF WriteFragment, PhaseInv, RelayInv, Early, Late, STS, Hosted
<1>17. CASE Reload
  BY <1>17 DEF Reload, Leave, PhaseInv, RelayInv, Early, Late, STS, Hosted
<1>18. ASSUME NEW s \in Selections, Start(s) PROVE RelayInv'
  BY <1>18 DEF Start, PhaseInv, RelayInv, Early, Late, STS, Hosted
<1>19. CASE Cut
  BY <1>19 DEF Cut, Leave, Event, PhaseInv, RelayInv, Early, Late, STS, Hosted
<1>20. CASE UploadTorn
  BY <1>20 DEF UploadTorn, Leave, Event, PhaseInv, RelayInv, Early, Late, STS, Hosted
<1>21. CASE TimerTick
  BY <1>21 DEF TimerTick, Issued, Event, PhaseInv, RelayInv, Early, Late, STS, Hosted
<1>22. CASE Edit
  BY <1>22 DEF Edit, Event, PhaseInv, RelayInv, Early, Late, STS, Hosted
<1>23. CASE CertUnread
  BY <1>23 DEF CertUnread, Event, PhaseInv, RelayInv, Early, Late, STS, Hosted
<1>24. CASE IssueSkipped
  BY <1>24 DEF IssueSkipped, Leave, PhaseInv, RelayInv, Early, Late, STS, Hosted
<1>25. CASE IssueCut
  BY <1>25 DEF IssueCut, Leave, Event, PhaseInv, RelayInv, Early, Late, STS, Hosted
<1> QED BY <1>1, <1>2, <1>3, <1>4, <1>5, <1>6, <1>7, <1>8, <1>9, <1>10, <1>11, <1>12, <1>13,
    <1>14, <1>15, <1>16, <1>17, <1>18, <1>19, <1>20, <1>21, <1>22, <1>23, <1>24, <1>25 DEF Next, Step

\* reconcileDKIM publishes the key of every tenant of the run that has mail.
LEMMA DKIMStep == TypeOK /\ PhaseInv /\ DKIMInv /\ Next => DKIMInv'
<1> SUFFICES ASSUME TypeOK, PhaseInv, DKIMInv, Next PROVE DKIMInv'
  OBVIOUS
<1>1. CASE GatherLine
  BY <1>1 DEF GatherLine, PhaseInv, DKIMInv, selected, Done, Early, Late, STS, Hosted
<1>2. CASE CompareAccounts
  BY <1>2 DEF CompareAccounts, Event, PhaseInv, DKIMInv, selected, Done, Early, Late, STS, Hosted
<1>3. CASE WriteAccounts
  BY <1>3 DEF WriteAccounts, PhaseInv, DKIMInv, selected, Done, Early, Late, STS, Hosted
<1>4. CASE RestartForAccounts
  BY <1>4 DEF RestartForAccounts, RestartServer, PhaseInv, DKIMInv, selected, Done, Early,
      Late, STS, Hosted
<1>5. CASE WriteScript
  BY <1>5 DEF WriteScript, Event, PhaseInv, DKIMInv, selected, Done, Early, Late, STS, Hosted
<1>6. CASE EnableTimer
  BY <1>6 DEF EnableTimer, Event, PhaseInv, DKIMInv, selected, Done, Early, Late, STS, Hosted
<1>7. CASE IssueCert
  BY <1>7 DEF IssueCert, Issued, PhaseInv, DKIMInv, selected, Done, Early, Late, STS, Hosted
<1>8. CASE RestartForCert
  BY <1>8 DEF RestartForCert, RestartServer, PhaseInv, DKIMInv, selected, Done, Early, Late,
      STS, Hosted
<1>9. CASE CertUnchanged
  BY <1>9 DEF CertUnchanged, PhaseInv, DKIMInv, selected, Done, Early, Late, STS, Hosted
<1>10. ASSUME NEW s \in {"user", "password"}, PushRelaySecret(s) PROVE DKIMInv'
  BY <1>10 DEF PushRelaySecret, PhaseInv, DKIMInv, selected, Done, Early, Late, STS, Hosted
<1>11. CASE RelayDone
  BY <1>11 DEF RelayDone, PhaseInv, DKIMInv, selected, Done, Early, Late, STS, Hosted
<1>12. CASE GenerateDKIM
  BY <1>12 DEF GenerateDKIM, PhaseInv, DKIMInv, selected, Done, Early, Late, STS, Hosted
<1>13. CASE UpsertTXT
  BY <1>13 DEF UpsertTXT, PhaseInv, DKIMInv, selected, Done, Early, Late, STS, Hosted
<1>14. CASE DKIMDone
  BY <1>14 DEF DKIMDone, PhaseInv, DKIMInv, selected, Done, Early, Late, STS, Hosted
<1>15. CASE RemoveFragments
  BY <1>15 DEF RemoveFragments, Event, PhaseInv, DKIMInv, selected, Done, Early, Late, STS,
      Hosted
<1>16. CASE WriteFragment
  BY <1>16 DEF WriteFragment, PhaseInv, DKIMInv, selected, Done, Early, Late, STS, Hosted
<1>17. CASE Reload
  BY <1>17 DEF Reload, Leave, PhaseInv, DKIMInv, selected, Done, Early, Late, STS, Hosted
<1>18. ASSUME NEW s \in Selections, Start(s) PROVE DKIMInv'
  BY <1>18 DEF Start, PhaseInv, DKIMInv, selected, Done, Early, Late, STS, Hosted
<1>19. CASE Cut
  BY <1>19 DEF Cut, Leave, Event, PhaseInv, DKIMInv, selected, Done, Early, Late, STS, Hosted
<1>20. CASE UploadTorn
  BY <1>20 DEF UploadTorn, Leave, Event, PhaseInv, DKIMInv, selected, Done, Early, Late,
      STS, Hosted
<1>21. CASE TimerTick
  BY <1>21 DEF TimerTick, Issued, Event, PhaseInv, DKIMInv, selected, Done, Early, Late,
      STS, Hosted
<1>22. CASE Edit
  BY <1>22 DEF Edit, Event, PhaseInv, DKIMInv, selected, Done, Early, Late, STS, Hosted
<1>23. CASE CertUnread
  BY <1>23 DEF CertUnread, Event, PhaseInv, DKIMInv, selected, Done, Early, Late, STS, Hosted
<1>24. CASE IssueSkipped
  BY <1>24 DEF IssueSkipped, Leave, PhaseInv, DKIMInv, selected, Done, Early, Late, STS, Hosted
<1>25. CASE IssueCut
  BY <1>25 DEF IssueCut, Leave, Event, PhaseInv, DKIMInv, selected, Done, Early, Late, STS, Hosted
<1> QED BY <1>1, <1>2, <1>3, <1>4, <1>5, <1>6, <1>7, <1>8, <1>9, <1>10, <1>11, <1>12, <1>13,
    <1>14, <1>15, <1>16, <1>17, <1>18, <1>19, <1>20, <1>21, <1>22, <1>23, <1>24, <1>25 DEF Next, Step

\* provisionMTASTS brings the fragment of one tenant after the other into line.
LEMMA FragmentsStep == TypeOK /\ PhaseInv /\ FragmentsInv /\ Next => FragmentsInv'
<1> SUFFICES ASSUME TypeOK, PhaseInv, FragmentsInv, Next PROVE FragmentsInv'
  OBVIOUS
<1>1. CASE GatherLine
  BY <1>1 DEF GatherLine, PhaseInv, FragmentsInv, FragmentOK, WantsSTS, selected, Done,
      Early, Late, STS
<1>2. CASE CompareAccounts
  BY <1>2 DEF CompareAccounts, Event, PhaseInv, FragmentsInv, FragmentOK, WantsSTS, selected, Done,
      Early, Late, STS
<1>3. CASE WriteAccounts
  BY <1>3 DEF WriteAccounts, PhaseInv, FragmentsInv, FragmentOK, WantsSTS, selected, Done,
      Early, Late, STS
<1>4. CASE RestartForAccounts
  BY <1>4 DEF RestartForAccounts, RestartServer, PhaseInv, FragmentsInv, FragmentOK,
      WantsSTS, selected, Done, Early, Late, STS
<1>5. CASE WriteScript
  BY <1>5 DEF WriteScript, Event, PhaseInv, FragmentsInv, FragmentOK, WantsSTS, selected, Done,
      Early, Late, STS
<1>6. CASE EnableTimer
  BY <1>6 DEF EnableTimer, Event, PhaseInv, FragmentsInv, FragmentOK, WantsSTS, selected, Done,
      Early, Late, STS
<1>7. CASE IssueCert
  BY <1>7 DEF IssueCert, Issued, PhaseInv, FragmentsInv, FragmentOK, WantsSTS, selected,
      Done, Early, Late, STS
<1>8. CASE RestartForCert
  BY <1>8 DEF RestartForCert, RestartServer, PhaseInv, FragmentsInv, FragmentOK, WantsSTS,
      selected, Done, Early, Late, STS
<1>9. CASE CertUnchanged
  BY <1>9 DEF CertUnchanged, PhaseInv, FragmentsInv, FragmentOK, WantsSTS, selected, Done,
      Early, Late, STS
<1>10. ASSUME NEW s \in {"user", "password"}, PushRelaySecret(s) PROVE FragmentsInv'
  BY <1>10 DEF PushRelaySecret, PhaseInv, FragmentsInv, FragmentOK, WantsSTS, selected,
      Done, Early, Late, STS
<1>11. CASE RelayDone
  BY <1>11 DEF RelayDone, PhaseInv, FragmentsInv, FragmentOK, WantsSTS, selected, Done,
      Early, Late, STS
<1>12. CASE GenerateDKIM
  BY <1>12 DEF GenerateDKIM, PhaseInv, FragmentsInv, FragmentOK, WantsSTS, selected, Done,
      Early, Late, STS
<1>13. CASE UpsertTXT
  BY <1>13 DEF UpsertTXT, PhaseInv, FragmentsInv, FragmentOK, WantsSTS, selected, Done,
      Early, Late, STS
<1>14. CASE DKIMDone
  <2>1. done' = <<>> /\ pc' # "fragment" /\ todo' = selected'
    BY <1>14 DEF DKIMDone, PhaseInv, selected
  <2> QED BY <2>1 DEF FragmentsInv, Done
<1>15. CASE RemoveFragments
  <2>1. todo \subseteq selected /\ done' = <<>> /\ UNCHANGED <<ids, todo, ws>>
    BY <1>15 DEF RemoveFragments, FragmentsInv, PhaseInv, STS
  <2>2. CASE UNCHANGED <<frag, torn>> /\ unlisted'
    <3>1. ASSUME NEW t \in selected \ todo PROVE FragmentOK(ids, t)'
      <4>1. FragmentOK(ids, t)
        BY <3>1, <1>15 DEF RemoveFragments, FragmentsInv, STS
      <4> QED BY <2>1, <2>2, <4>1 DEF FragmentOK, WantsSTS, Caught
    <3>2. ASSUME NEW t \in selected \ todo, NEW u \in todo PROVE Before(ids, t, u)
      BY <3>2, <1>15 DEF RemoveFragments, FragmentsInv, STS
    <3> QED BY <2>1, <2>2, <3>1, <3>2 DEF FragmentsInv, Done, selected
  <2>3. ASSUME NEW h \in Tenant, Turn(ids, h), UNCHANGED unlisted,
               frag' = frag \ Removed(h), torn' = torn \ Removed(h)
        PROVE  FragmentsInv'
    <3>1. ASSUME NEW t \in selected \ todo PROVE FragmentOK(ids, t)'
      <4>1. FragmentOK(ids, t) /\ Before(ids, t, h)
        BY <2>3, <3>1, <1>15 DEF RemoveFragments, FragmentsInv, STS, Turn
      <4>2. t # h
        BY <2>3, <3>1 DEF Turn
      <4>3. t \in Removed(h) => Caught(ids, t)
        BY <4>1, <4>2 DEF Removed, Caught
      <4> QED BY <2>1, <2>3, <4>1, <4>3 DEF FragmentOK, WantsSTS, Caught
    <3>2. ASSUME NEW t \in selected \ todo, NEW u \in todo PROVE Before(ids, t, u)
      BY <3>2, <1>15 DEF RemoveFragments, FragmentsInv, STS
    <3>3. ASSUME NEW t \in Tenant, Turn(ids, t), ~WantsSTS(t) PROVE t \notin frag'
      <4>1. t = h
        BY <2>3, <3>3, OneTurn DEF TypeOK, PhaseInv
      <4> QED BY <2>3, <3>3, <4>1 DEF Removed
    <3>4. \A t \in Tenant : (Turn(ids, t) /\ ~WantsSTS(t))' => t \notin frag'
      BY <2>1, <3>3 DEF Turn, WantsSTS
    <3> QED BY <2>1, <3>1, <3>2, <3>4 DEF FragmentsInv, Done, selected
  <2> QED BY <1>15, <2>2, <2>3 DEF RemoveFragments
<1>16. CASE WriteFragment
  <2>1. PICK h \in Tenant, new \in SUBSET Tenant :
               /\ Turn(ids, h) /\ todo' = todo \ {h}
               /\ new = Wanting(h) \/ (WantsSTS(h) /\ new = {h})
               /\ frag' = frag \cup new /\ torn' = torn \ new
    BY <1>16 DEF WriteFragment
  <2>2. todo \subseteq selected /\ done' = <<>> /\ pc' = "sts" /\ UNCHANGED <<ids, ws, unlisted>>
    BY <1>16 DEF WriteFragment, FragmentsInv, PhaseInv, STS
  <2>3. ASSUME NEW t \in selected \ todo' PROVE FragmentOK(ids, t)'
    <3>1. CASE t = h
      <4>1. ~WantsSTS(h) => h \notin frag \/ unlisted
        BY <2>1, <1>16 DEF WriteFragment, FragmentsInv
      <4> QED BY <2>1, <2>2, <3>1, <4>1 DEF FragmentOK, WantsSTS, Wanting
    <3>2. CASE t # h
      <4>1. FragmentOK(ids, t)
        BY <2>1, <2>3, <3>2, <1>16 DEF WriteFragment, FragmentsInv, STS
      <4>2. t \notin new
        BY <2>1, <3>2 DEF Wanting
      <4> QED BY <2>1, <2>2, <4>1, <4>2 DEF FragmentOK, WantsSTS, Caught
    <3> QED BY <3>1, <3>2
  <2>4. ASSUME NEW t \in selected \ todo', NEW u \in todo' PROVE Before(ids, t, u)
    <3>1. CASE t = h
      BY <2>1, <2>4, <3>1 DEF Turn
    <3>2. CASE t # h
      BY <2>1, <2>4, <3>2, <1>16 DEF WriteFragment, FragmentsInv, STS
    <3> QED BY <3>1, <3>2
  <2> QED BY <2>1, <2>2, <2>3, <2>4 DEF FragmentsInv, Done, selected
<1>17. CASE Reload
  <2>1. \A t \in selected : FragmentOK(ids, t)
    BY <1>17 DEF Reload, FragmentsInv, STS
  <2>2. done' = ids /\ pc' = "idle" /\ UNCHANGED <<ws, frag, torn, unlisted>>
    BY <1>17 DEF Reload, Leave
  <2>3. \A t \in Done' : FragmentOK(done, t)'
    BY <2>1, <2>2 DEF Done, selected, FragmentOK, WantsSTS, Caught
  <2> QED BY <2>2, <2>3 DEF FragmentsInv, STS
<1>18. ASSUME NEW s \in Selections, Start(s) PROVE FragmentsInv'
  <2>1. done' = <<>> /\ pc' # "fragment"
    BY <1>18 DEF Start
  <2>2. pc' \in STS => todo' = selected'
    BY <1>18 DEF Start, STS, selected
  <2> QED BY <2>1, <2>2 DEF FragmentsInv, Done
<1>19. CASE Cut
  BY <1>19 DEF Cut, Leave, Event, PhaseInv, FragmentsInv, FragmentOK, WantsSTS, selected,
      Done, Early, Late, STS
<1>20. CASE UploadTorn
  BY <1>20 DEF UploadTorn, Leave, Event, PhaseInv, FragmentsInv, FragmentOK, WantsSTS,
      selected, Done, Early, Late, STS
<1>21. CASE TimerTick
  <2>1. done' = <<>> /\ UNCHANGED <<pc, ids, todo, ws, frag, torn, unlisted>>
    BY <1>21 DEF TimerTick
  <2> QED BY <2>1 DEF FragmentsInv, FragmentOK, WantsSTS, selected, Done, Turn, STS
<1>22. CASE Edit
  BY <1>22 DEF Edit, Event, PhaseInv, FragmentsInv, FragmentOK, WantsSTS, selected, Done,
      Early, Late, STS
<1>23. CASE CertUnread
  BY <1>23 DEF CertUnread, Event, PhaseInv, FragmentsInv, FragmentOK, WantsSTS, selected, Done,
      Early, Late, STS
<1>24. CASE IssueSkipped
  BY <1>24 DEF IssueSkipped, Leave, PhaseInv, FragmentsInv, FragmentOK, WantsSTS, selected, Done,
      Early, Late, STS
<1>25. CASE IssueCut
  BY <1>25 DEF IssueCut, Leave, Event, PhaseInv, FragmentsInv, FragmentOK, WantsSTS, selected, Done,
      Early, Late, STS
<1> QED BY <1>1, <1>2, <1>3, <1>4, <1>5, <1>6, <1>7, <1>8, <1>9, <1>10, <1>11, <1>12, <1>13,
    <1>14, <1>15, <1>16, <1>17, <1>18, <1>19, <1>20, <1>21, <1>22, <1>23, <1>24, <1>25 DEF Next, Step

\* What is written is read after the restart that follows, or the restart is owed.
LEMMA BehindStep == TypeOK /\ PhaseInv /\ BehindInv /\ Next => BehindInv'
<1> SUFFICES ASSUME TypeOK, PhaseInv, BehindInv, Next PROVE BehindInv'
  OBVIOUS
<1>1. CASE GatherLine
  BY <1>1 DEF GatherLine, PhaseInv, BehindInv, Early, Late, STS
<1>2. CASE CompareAccounts
  BY <1>2 DEF CompareAccounts, Event, PhaseInv, BehindInv, Early, Late, STS
<1>3. CASE WriteAccounts
  BY <1>3 DEF WriteAccounts, PhaseInv, BehindInv, Early, Late, STS
<1>4. CASE RestartForAccounts
  BY <1>4 DEF RestartForAccounts, RestartServer, PhaseInv, BehindInv, Early, Late, STS
<1>5. CASE WriteScript
  BY <1>5 DEF WriteScript, Event, PhaseInv, BehindInv, Early, Late, STS
<1>6. CASE EnableTimer
  BY <1>6 DEF EnableTimer, Event, PhaseInv, BehindInv, Early, Late, STS
<1>7. CASE IssueCert
  BY <1>7 DEF IssueCert, Issued, PhaseInv, BehindInv, Early, Late, STS
<1>8. CASE RestartForCert
  BY <1>8 DEF RestartForCert, RestartServer, PhaseInv, BehindInv, Early, Late, STS
<1>9. CASE CertUnchanged
  BY <1>9 DEF CertUnchanged, PhaseInv, BehindInv, Early, Late, STS
<1>10. ASSUME NEW s \in {"user", "password"}, PushRelaySecret(s) PROVE BehindInv'
  BY <1>10 DEF PushRelaySecret, PhaseInv, BehindInv, Early, Late, STS
<1>11. CASE RelayDone
  BY <1>11 DEF RelayDone, PhaseInv, BehindInv, Early, Late, STS
<1>12. CASE GenerateDKIM
  BY <1>12 DEF GenerateDKIM, PhaseInv, BehindInv, Early, Late, STS
<1>13. CASE UpsertTXT
  BY <1>13 DEF UpsertTXT, PhaseInv, BehindInv, Early, Late, STS
<1>14. CASE DKIMDone
  BY <1>14 DEF DKIMDone, PhaseInv, BehindInv, Early, Late, STS
<1>15. CASE RemoveFragments
  <2>1. served = frag \/ "caddy" \in owed \/ changed
    BY DEF BehindInv
  <2>2. frag' = frag \/ changed'
    <3>1. CASE frag' = frag
      BY <3>1
    <3>2. CASE \E t \in Tenant : /\ frag' = frag \ Removed(t)
                              /\ changed' = (changed \/ Counts(Removed(t), {}))
      BY <3>2 DEF Counts
    <3> QED BY <1>15, <3>1, <3>2 DEF RemoveFragments
  <2>3. changed => changed'
    BY <1>15 DEF RemoveFragments
  <2>4. served' = frag' \/ "caddy" \in owed' \/ changed'
    BY <1>15, <2>1, <2>2, <2>3 DEF RemoveFragments
  <2> QED BY <1>15, <2>4 DEF RemoveFragments, BehindInv
<1>16. CASE WriteFragment
  BY <1>16 DEF WriteFragment, Counts, PhaseInv, BehindInv, Early, Late, STS
<1>17. CASE Reload
  BY <1>17 DEF Reload, Leave, PhaseInv, BehindInv, Early, Late, STS
<1>18. ASSUME NEW s \in Selections, Start(s) PROVE BehindInv'
  BY <1>18 DEF Start, PhaseInv, BehindInv, Early, Late, STS
<1>19. CASE Cut
  BY <1>19 DEF Cut, Leave, Event, PhaseInv, BehindInv, Early, Late, STS
<1>20. CASE UploadTorn
  BY <1>20 DEF UploadTorn, Leave, Event, PhaseInv, BehindInv, Early, Late, STS
<1>21. CASE TimerTick
  BY <1>21 DEF TimerTick, Issued, Event, PhaseInv, BehindInv, Early, Late, STS
<1>22. CASE Edit
  BY <1>22 DEF Edit, Event, PhaseInv, BehindInv, Early, Late, STS
<1>23. CASE CertUnread
  BY <1>23 DEF CertUnread, Event, PhaseInv, BehindInv, Early, Late, STS
<1>24. CASE IssueSkipped
  BY <1>24 DEF IssueSkipped, Leave, PhaseInv, BehindInv, Early, Late, STS
<1>25. CASE IssueCut
  BY <1>25 DEF IssueCut, Leave, Event, PhaseInv, BehindInv, Early, Late, STS
<1> QED BY <1>1, <1>2, <1>3, <1>4, <1>5, <1>6, <1>7, <1>8, <1>9, <1>10, <1>11, <1>12, <1>13,
    <1>14, <1>15, <1>16, <1>17, <1>18, <1>19, <1>20, <1>21, <1>22, <1>23, <1>24, <1>25 DEF Next, Step

----------------------------------------------------------------------------
(***************************************************************************)
(* The invariant and what follows from it.                                 *)
(***************************************************************************)

\* The invariant holds before the first run.
LEMMA IInvInit == Init => IInv
<1> SUFFICES ASSUME Init PROVE IInv
  OBVIOUS
<1>1. TypeOK
  BY TypeInit
<1>2. PhaseInv
  BY DEF Init, PhaseInv, Early, Late, STS, Distinct
<1>3. AccountsInv /\ CertInv /\ RelayInv
  BY DEF Init, AccountsInv, CertInv, RelayInv, Late, STS
<1>4. DKIMInv /\ FragmentsInv
  BY DEF Init, DKIMInv, FragmentsInv, STS, Done
<1>5. BehindInv
  BY DEF Init, BehindInv
<1> QED BY <1>1, <1>2, <1>3, <1>4, <1>5 DEF IInv

\* Doing nothing keeps the invariant.
LEMMA IInvStutter == ASSUME IInv, UNCHANGED vars PROVE IInv'
<1>1. UNCHANGED <<ws, ssm, accounts, read, script, cert, certRead, acme, relay, dkim, txt, frag,
                  torn, served, pc, ids, todo, lines, force, blank, renewed, changed, owed, stale,
                  unlisted, done, events>>
  BY DEF vars
<1>2. TypeOK' /\ PhaseInv'
  BY <1>1 DEF IInv, TypeOK, PhaseInv, Hosted
<1>3. AccountsInv' /\ CertInv' /\ RelayInv'
  BY <1>1 DEF IInv, AccountsInv, Line, CertInv, Hostnames, RelayInv, Hosted
<1>4. DKIMInv' /\ BehindInv'
  BY <1>1 DEF IInv, DKIMInv, BehindInv, Hosted, selected, Done
<1>5. FragmentsInv'
  BY <1>1 DEF IInv, FragmentsInv, FragmentOK, WantsSTS, selected, Done, Turn
<1> QED BY <1>2, <1>3, <1>4, <1>5 DEF IInv

\* The inductive invariant holds in every state of the mail stages.
THEOREM Inductive == Spec => []IInv
<1>1. IInv /\ [Next]_vars => IInv'
  <2> SUFFICES ASSUME IInv, [Next]_vars PROVE IInv'
    OBVIOUS
  <2>1. CASE Next
    BY <2>1, TypeStep, PhaseStep, AccountsStep, CertStep, RelayStep, DKIMStep, FragmentsStep,
       BehindStep DEF IInv
  <2>2. CASE UNCHANGED vars
    BY <2>2, IInvStutter
  <2> QED BY <2>1, <2>2
<1> QED BY <1>1, IInvInit, PTL DEF Spec

\* Every variable of provisionMail and provisionMTASTS keeps to its domain.
THEOREM TypeCorrect == Spec => []TypeOK
<1>1. IInv => TypeOK
  BY DEF IInv
<1> QED BY <1>1, Inductive, PTL

\* After a run that reported success the mailboxes, the certificate, the relay
\* secrets, the DKIM keys and the MTA-STS fragments are what the workspace asks
\* for: for any tenants named in any order, after any failures.
THEOREM Provisioned == Spec => []OkMeansProvisioned
<1>1. IInv => OkMeansProvisioned
  <2> SUFFICES ASSUME IInv, done # <<>> PROVE OkMeansProvisioned
    BY DEF OkMeansProvisioned
  <2>1. pc = "idle"
    BY DEF IInv, PhaseInv
  <2>2. ASSUME Hosted # {}
        PROVE  /\ \A t \in Tenant : accounts[t] = Line(t)
               /\ cert = Hostnames \/ stale
               /\ ws.relay => \A s \in DOMAIN relay : relay[s] = ssm.ses
               /\ Done \cap Hosted \subseteq txt
    <3>1. \A t \in Tenant : accounts[t] = Line(t)
      BY <2>2 DEF IInv, AccountsInv
    <3>2. cert = Hostnames \/ stale
      BY <2>1, <2>2, HostnamesType DEF IInv, CertInv
    <3>3. ws.relay => \A s \in DOMAIN relay : relay[s] = ssm.ses
      BY <2>2 DEF IInv, RelayInv, TypeOK
    <3>4. Done \cap Hosted \subseteq txt
      BY <2>2 DEF IInv, DKIMInv
    <3> QED BY <3>1, <3>2, <3>3, <3>4
  <2>3. \A t \in Done : FragmentOK(done, t)
    BY DEF IInv, FragmentsInv
  <2> QED BY <2>2, <2>3 DEF OkMeansProvisioned, Line, FragmentOK
<1> QED BY <1>1, Inductive, PTL

\* Between runs the mail server and Caddy are behind their files only if a
\* restart or a reload is owed: by a cut run, by the timer, or by a run that could
\* read the certificate neither before nor after issuing it.
THEOREM Behind == Spec => []BehindOnlyIfOwed
<1>1. IInv => BehindOnlyIfOwed
  BY DEF IInv, PhaseInv, BehindInv, BehindOnlyIfOwed, STS
<1> QED BY <1>1, Inductive, PTL
=============================================================================
