-------------------------- MODULE KeycloakProofs --------------------------
(***************************************************************************)
(* Proofs about Keycloak, for any groups, clients and users of the         *)
(* workspace and of the realm, and any number of failures.                 *)
(***************************************************************************)
EXTENDS Keycloak, TLAPS

USE DEF local

\* The phases of tenant apply, in their order, from each of its milestones on.
Realmed  == {"smtp", "readGroups", "group", "grant", "client", "mapper", "ensure", "audience",
             "theme", "restart"}
Grouped  == {"grant", "client", "mapper", "ensure", "audience", "theme", "restart"}
Granted  == Grouped \ {"grant"}
Cliented == Granted \ {"client"}
Claimed  == Cliented \ {"mapper"}

\* A command that runs has not reported yet, and a phase belongs to its command.
PhaseInv ==
    /\ pc # "idle" => done = None
    /\ pc \in {"realm"} \cup Realmed => cmd = "tenant"
    /\ pc \in {"readIDs", "user", "member"} => cmd = "users"

\* The loops run over what they were started for.
LoopInv ==
    /\ pc = "group" => todo \subseteq Group
    /\ pc \in {"client", "mapper"} => todo \subseteq Client
    /\ pc \in {"ensure", "audience"} => todo \subseteq ws.extra
    /\ pc \in {"user", "member"} => todo \subseteq {u \in User : ws.users[u] # None}
    /\ pc = "member" => cur \in User /\ ws.users[cur] # None

\* How far tenant apply has come with the realm itself and its groups, unless the console
\* was used since it began.
GroupsInv ==
    ~touched =>
        /\ pc \in Realmed => realm.exists /\ realm.themed
        /\ (pc \in Realmed \ {"smtp"} /\ ws.smtp) => realm.smtp
        /\ pc = "group" => seen \subseteq realm.groups /\ Group \ todo \subseteq realm.groups
        /\ pc \in Grouped => realm.groups = Group
        /\ pc \in Granted => realm.manages

\* How far it has come with the clients and their mappers.
ClientsInv ==
    ~touched =>
        /\ pc = "client" => \A c \in Wanted \ todo : realm.clients[c] = ws.hosts
        /\ pc \in Cliented => \A c \in Wanted : realm.clients[c] = ws.hosts
        /\ pc = "mapper" => /\ Wanted \ ({"configd"} \cup todo) \subseteq realm.claims
                            /\ "vpn" \notin todo => realm.role["vpn"] # None
        /\ pc \in Claimed => Wanted \ {"configd"} \subseteq realm.claims /\ realm.role["vpn"] # None
        /\ pc \in {"ensure", "audience"} => ws.extra \ todo \subseteq realm.audience
        /\ pc \in {"theme", "restart"} => ws.extra \subseteq realm.audience

\* User u is there as the users file says, but for the groups in L.
UserReady(u, L) ==
    /\ Found(u)
    /\ realm.users[u].enabled = Enabled(ws.users[u])
    /\ ws.users[u].groups \ L \subseteq realm.users[u].groups

\* How far users apply has come.
UsersInv ==
    ~touched =>
        /\ pc = "user" => \A u \in User \ todo : ws.users[u] # None => UserReady(u, {})
        /\ pc = "member" =>
              /\ \A u \in User \ (todo \cup {cur}) : ws.users[u] # None => UserReady(u, {})
              /\ UserReady(cur, left)

\* What a command that reported success left.
ReportInv ==
    ~touched =>
        /\ done = "tenant" => RealmReconciled /\ themeLive = ws.brand
        /\ done = "users" => UsersReconciled

\* The theme on the host is the workspace's when Keycloak is restarted.
ThemeInv == pc = "restart" => themeFile = ws.brand

IInv == TypeOK /\ PhaseInv /\ LoopInv /\ ThemeInv /\ GroupsInv /\ ClientsInv /\ UsersInv /\ ReportInv

----------------------------------------------------------------------------
(***************************************************************************)
(* Facts about the operators.                                              *)
(***************************************************************************)

\* An event counts up to its bound.
LEMMA EventType == ASSUME events \in 0..MaxEvents, Event PROVE events' \in 0..MaxEvents
BY EventsAssumption DEF Event

\* Whoever has an account, it is a record and not None.
LEMMA AccountType == ASSUME NEW u \in User, realm \in Realm, realm.users[u] # None
                     PROVE  realm.users[u] \in Account
BY DEF Realm

\* Every call leaves a realm.
LEMMA RealmCalls ==
    ASSUME ws \in Workspace, realm \in Realm
    PROVE  /\ RealmCreated \in Realm /\ WithSMTP \in Realm /\ Managing \in Realm
           /\ \A g \in Group : WithGroup(g) \in Realm
           /\ \A c \in Client : Upserted(c) \in Realm /\ Mapped(c) \in Realm /\ WithAudience(c) \in Realm
<1>1. RealmCreated \in Realm /\ WithSMTP \in Realm /\ Managing \in Realm
  BY DEF Realm, RealmCreated, WithSMTP, Managing
<1>2. \A g \in Group : WithGroup(g) \in Realm
  BY DEF Realm, WithGroup
<1>3. \A c \in Client : Upserted(c) \in Realm
  BY DEF Realm, Upserted, Workspace
<1>4. \A c \in Client : Mapped(c) \in Realm
  BY DEF Realm, Mapped, RoleMissing, Workspace, Client
<1>5. \A c \in Client : WithAudience(c) \in Realm
  BY DEF Realm, WithAudience
<1> QED BY <1>1, <1>2, <1>3, <1>4, <1>5

\* What the account of u becomes.
NewAccount(u) ==
    [groups  |-> IF Found(u) THEN realm.users[u].groups ELSE {},
     enabled |-> Enabled(ws.users[u]),
     renamed |-> FALSE]

\* So does a call for a user of the users file.
LEMMA UserCall ==
    ASSUME ws \in Workspace, realm \in Realm, NEW u \in User, ws.users[u] # None
    PROVE  NewAccount(u) \in Account /\ Ensured(u) \in Realm
<1>1. (IF Found(u) THEN realm.users[u].groups ELSE {}) \in SUBSET Group
  BY AccountType DEF Found, Account
<1>2. ws.users[u] \in Declared
  BY DEF Workspace
<1>3. Enabled(ws.users[u]) \in BOOLEAN
  BY <1>2, Zenon DEF Enabled, Declared
<1>4. NewAccount(u) \in Account
  BY <1>1, <1>3 DEF Account, NewAccount
<1>5. [realm EXCEPT !.users[u] = NewAccount(u)] \in Realm
  BY <1>4 DEF Realm
<1> QED BY <1>4, <1>5 DEF Ensured, NewAccount

\* And a call that puts an account into a group.
LEMMA JoinCall ==
    ASSUME realm \in Realm, NEW g \in Group, cur \in User, realm.users[cur] # None
    PROVE  Joined(g) \in Realm
<1>1. realm.users[cur] \in Account
  BY AccountType
<1>2. [realm.users[cur] EXCEPT !.groups = @ \cup {g}] \in Account
  BY <1>1 DEF Account
<1> QED BY <1>2 DEF Realm, Joined

\* What the console leaves is a realm.
LEMMA ConsoleCalls ==
    ASSUME realm \in Realm
    PROVE  ConsoleRealms \subseteq Realm
<1>1. \A g \in Group : WithoutGroup(g) \in Realm
  <2> TAKE g \in Group
  <2>1. \A u \in User : (IF realm.users[u] = None THEN None
                         ELSE [realm.users[u] EXCEPT !.groups = @ \ {g}]) \in Account \cup {None}
    BY AccountType DEF Account
  <2>2. (realm.manages /\ g # AdminGroup) \in BOOLEAN
    OBVIOUS
  <2> QED BY <2>1, <2>2 DEF Realm, WithoutGroup
<1>2. \A g \in Group : [realm EXCEPT !.groups = @ \cup {g}] \in Realm
  BY DEF Realm
<1>3. [groups : SUBSET realm.groups, enabled : BOOLEAN, renamed : BOOLEAN] \subseteq Account
  BY DEF Realm, Account
<1>4. \A u \in User, a \in Account \cup {None} : [realm EXCEPT !.users[u] = a] \in Realm
  BY DEF Realm
<1>5. realm.groups \subseteq Group
  BY DEF Realm
<1> QED BY <1>1, <1>2, <1>3, <1>4, <1>5 DEF ConsoleRealms

\* So is what a call leaves whose answer is lost.
LEMMA EffectsType ==
    ASSUME TypeOK, LoopInv
    PROVE  Effects \subseteq Realm
<1>1. ws \in Workspace /\ realm \in Realm
  BY DEF TypeOK
<1>2. CASE pc = "user"
  BY <1>1, <1>2, UserCall DEF Effects, LoopInv
<1>3. CASE pc = "member"
  BY <1>1, <1>3, JoinCall DEF Effects, LoopInv, TypeOK, MayJoin
<1>4. CASE pc \notin {"user", "member"}
  BY <1>1, <1>4, RealmCalls DEF Effects
<1> QED BY <1>2, <1>3, <1>4


----------------------------------------------------------------------------
(***************************************************************************)
(* Every step keeps each part.                                             *)
(***************************************************************************)

\* Every step keeps the types.
LEMMA TypeStep ==
    ASSUME TypeOK, LoopInv, [Next]_vars
    PROVE  TypeOK'
<1>1. CASE StartTenant
  BY <1>1, EventType, RealmCalls DEF StartTenant, TypeOK, Phase
<1>2. CASE StartUsers
  BY <1>2, EventType, RealmCalls DEF StartUsers, TypeOK, Phase
<1>3. CASE EnsureRealm
  BY <1>3, EventType, RealmCalls DEF EnsureRealm, Call, TypeOK, Phase
<1>4. CASE SetSMTP
  BY <1>4, EventType, RealmCalls DEF SetSMTP, Call, TypeOK, Phase
<1>5. CASE ReadGroups
  BY <1>5, EventType, RealmCalls DEF ReadGroups, Call, TypeOK, Phase, GroupIDs, Realm
<1>6. ASSUME NEW g \in Group, SkipGroup(g) PROVE TypeOK'
  BY <1>6, EventType, RealmCalls DEF SkipGroup, Call, TypeOK, Phase
<1>7. ASSUME NEW g \in Group, CreateGroup(g) PROVE TypeOK'
  BY <1>7, EventType, RealmCalls DEF CreateGroup, Call, TypeOK, Phase
<1>8. ASSUME NEW g \in Group, JoinGroup(g) PROVE TypeOK'
  BY <1>8, EventType, RealmCalls, JoinCall DEF JoinGroup, Call, TypeOK, Phase, LoopInv, MayJoin
<1>9. CASE GroupsDone
  BY <1>9, EventType, RealmCalls DEF GroupsDone, Call, TypeOK, Phase
<1>10. CASE GrantTeamManagement
  BY <1>10, EventType, RealmCalls DEF GrantTeamManagement, Call, TypeOK, Phase, Wanted,
      Workspace, Client
<1>11. ASSUME NEW c \in Client, UpsertClient(c) PROVE TypeOK'
  BY <1>11, EventType, RealmCalls DEF UpsertClient, Call, TypeOK, Phase
<1>12. ASSUME NEW c \in Client, ApplyClaimMapper(c) PROVE TypeOK'
  BY <1>12, EventType, RealmCalls DEF ApplyClaimMapper, Call, TypeOK, Phase
<1>13. ASSUME NEW c \in Client, EnsureClient(c) PROVE TypeOK'
  BY <1>13, EventType, RealmCalls DEF EnsureClient, Call, TypeOK, Phase
<1>14. ASSUME NEW c \in Client, EnsureAudienceMapper(c) PROVE TypeOK'
  BY <1>14, EventType, RealmCalls DEF EnsureAudienceMapper, Call, TypeOK, Phase
<1>15. CASE ClientsDone
  BY <1>15, EventType, RealmCalls DEF ClientsDone, Call, TypeOK, Phase, Wanted, Workspace, Client
<1>16. CASE MappersDone
  BY <1>16, EventType, RealmCalls DEF MappersDone, Call, TypeOK, Phase, Workspace, Client
<1>17. CASE ClientsEnsured
  BY <1>17, EventType, RealmCalls DEF ClientsEnsured, Call, TypeOK, Phase
<1>18. CASE WriteTheme
  BY <1>18, EventType, RealmCalls DEF WriteTheme, TypeOK, Phase, Workspace
<1>19. CASE RestartKeycloak
  BY <1>19, EventType, RealmCalls DEF RestartKeycloak, Leave, Return, TypeOK, Phase
<1>20. CASE ReadGroupIDs
  BY <1>20, EventType, RealmCalls DEF ReadGroupIDs, Call, TypeOK, Phase, GroupIDs, Realm
<1>21. ASSUME NEW u \in User, EnsureUser(u) PROVE TypeOK'
  BY <1>21, EventType, RealmCalls, UserCall DEF EnsureUser, Call, TypeOK, Phase, LoopInv,
      Workspace, Declared
<1>22. CASE UserDone
  BY <1>22, EventType, RealmCalls DEF UserDone, Call, TypeOK, Phase
<1>23. CASE UsersDone
  BY <1>23, EventType, RealmCalls DEF UsersDone, Leave, Return, TypeOK, Phase
<1>24. CASE Refused
  BY <1>24, EventType, RealmCalls DEF Refused, Leave, Error, TypeOK, Phase
<1>25. CASE Lost
  BY <1>25, EventType, RealmCalls, EffectsType DEF Lost, Leave, Error, TypeOK, Phase
<1>26. CASE Cut
  BY <1>26, EventType, RealmCalls DEF Cut, Leave, Error, TypeOK, Phase
<1>27. CASE Console
  BY <1>27, EventType, RealmCalls, ConsoleCalls DEF Console, TypeOK, Phase
<1>28. CASE Rebuild
  BY <1>28, EventType, RealmCalls DEF Rebuild, TypeOK, Phase, Empty, Realm, Client
<1>29. CASE EditWorkspace
  <2>1. ws' \in Workspace
    <3>0. ws.hosts + 1 \in Nat /\ ws.brand + 1 \in Nat /\ (~ws.smtp) \in BOOLEAN
      BY DEF TypeOK, Workspace
    <3>1. \A S \in SUBSET {"openbao", "web"}, n \in Nat : [ws EXCEPT !.extra = S, !.hosts = n] \in Workspace
      BY DEF TypeOK, Workspace
    <3>2. \A b \in BOOLEAN, n \in Nat : [ws EXCEPT !.smtp = b, !.brand = n] \in Workspace
      BY DEF TypeOK, Workspace
    <3>3. [ws EXCEPT !.release = @ + 1] \in Workspace
      BY DEF TypeOK, Workspace
    <3>4. \A u \in User, d \in Declared \cup {None} : [ws EXCEPT !.users[u] = d] \in Workspace
      BY DEF TypeOK, Workspace
    <3> QED BY <1>29, <3>0, <3>1, <3>2, <3>3, <3>4 DEF EditWorkspace
  <2> QED BY <1>29, <2>1, EventType DEF EditWorkspace, TypeOK
<1>30. CASE UNCHANGED vars
  BY <1>30, EventType, RealmCalls DEF vars, TypeOK, Phase
<1> QED BY <1>1, <1>2, <1>3, <1>4, <1>5, <1>6, <1>7, <1>8, <1>9, <1>10, <1>11, <1>12, <1>13,
    <1>14, <1>15, <1>16, <1>17, <1>18, <1>19, <1>20, <1>21, <1>22, <1>23, <1>24, <1>25, <1>26,
    <1>27, <1>28, <1>29, <1>30 DEF Next, Step

\* Every step keeps PhaseInv.
LEMMA PhaseStep ==
    ASSUME TypeOK, PhaseInv, [Next]_vars
    PROVE  PhaseInv'
<1>1. CASE StartTenant
  BY <1>1 DEF StartTenant, PhaseInv, Realmed
<1>2. CASE StartUsers
  BY <1>2 DEF StartUsers, PhaseInv, Realmed
<1>3. CASE EnsureRealm
  BY <1>3 DEF EnsureRealm, Call, PhaseInv, Realmed
<1>4. CASE SetSMTP
  BY <1>4 DEF SetSMTP, Call, PhaseInv, Realmed
<1>5. CASE ReadGroups
  BY <1>5 DEF ReadGroups, Call, PhaseInv, Realmed
<1>6. ASSUME NEW g \in Group, SkipGroup(g) PROVE PhaseInv'
  BY <1>6 DEF SkipGroup, Call, PhaseInv, Realmed
<1>7. ASSUME NEW g \in Group, CreateGroup(g) PROVE PhaseInv'
  BY <1>7 DEF CreateGroup, Call, PhaseInv, Realmed
<1>8. ASSUME NEW g \in Group, JoinGroup(g) PROVE PhaseInv'
  BY <1>8 DEF JoinGroup, Call, PhaseInv, Realmed
<1>9. CASE GroupsDone
  BY <1>9 DEF GroupsDone, Call, PhaseInv, Realmed
<1>10. CASE GrantTeamManagement
  BY <1>10 DEF GrantTeamManagement, Call, PhaseInv, Realmed
<1>11. ASSUME NEW c \in Client, UpsertClient(c) PROVE PhaseInv'
  BY <1>11 DEF UpsertClient, Call, PhaseInv, Realmed
<1>12. ASSUME NEW c \in Client, ApplyClaimMapper(c) PROVE PhaseInv'
  BY <1>12 DEF ApplyClaimMapper, Call, PhaseInv, Realmed
<1>13. ASSUME NEW c \in Client, EnsureClient(c) PROVE PhaseInv'
  BY <1>13 DEF EnsureClient, Call, PhaseInv, Realmed
<1>14. ASSUME NEW c \in Client, EnsureAudienceMapper(c) PROVE PhaseInv'
  BY <1>14 DEF EnsureAudienceMapper, Call, PhaseInv, Realmed
<1>15. CASE ClientsDone
  BY <1>15 DEF ClientsDone, Call, PhaseInv, Realmed
<1>16. CASE MappersDone
  BY <1>16 DEF MappersDone, Call, PhaseInv, Realmed
<1>17. CASE ClientsEnsured
  BY <1>17 DEF ClientsEnsured, Call, PhaseInv, Realmed
<1>18. CASE WriteTheme
  BY <1>18 DEF WriteTheme, PhaseInv, Realmed
<1>19. CASE RestartKeycloak
  BY <1>19 DEF RestartKeycloak, Leave, Return, PhaseInv, Realmed
<1>20. CASE ReadGroupIDs
  BY <1>20 DEF ReadGroupIDs, Call, PhaseInv, Realmed
<1>21. ASSUME NEW u \in User, EnsureUser(u) PROVE PhaseInv'
  BY <1>21 DEF EnsureUser, Call, PhaseInv, Realmed
<1>22. CASE UserDone
  BY <1>22 DEF UserDone, Call, PhaseInv, Realmed
<1>23. CASE UsersDone
  BY <1>23 DEF UsersDone, Leave, Return, PhaseInv, Realmed
<1>24. CASE Refused
  BY <1>24 DEF Refused, Leave, Error, PhaseInv, Realmed
<1>25. CASE Lost
  BY <1>25 DEF Lost, Leave, Error, PhaseInv, Realmed
<1>26. CASE Cut
  BY <1>26 DEF Cut, Leave, Error, PhaseInv, Realmed
<1>27. CASE Console
  BY <1>27 DEF Console, PhaseInv, Realmed
<1>28. CASE Rebuild
  BY <1>28 DEF Rebuild, PhaseInv, Realmed
<1>29. CASE EditWorkspace
  BY <1>29 DEF EditWorkspace, PhaseInv, Realmed
<1>30. CASE UNCHANGED vars
  BY <1>30 DEF vars, PhaseInv, Realmed
<1> QED BY <1>1, <1>2, <1>3, <1>4, <1>5, <1>6, <1>7, <1>8, <1>9, <1>10, <1>11, <1>12, <1>13,
    <1>14, <1>15, <1>16, <1>17, <1>18, <1>19, <1>20, <1>21, <1>22, <1>23, <1>24, <1>25, <1>26,
    <1>27, <1>28, <1>29, <1>30 DEF Next, Step

\* Every step keeps LoopInv.
LEMMA LoopStep ==
    ASSUME TypeOK, LoopInv, [Next]_vars
    PROVE  LoopInv'
<1>1. CASE StartTenant
  BY <1>1 DEF StartTenant, LoopInv
<1>2. CASE StartUsers
  BY <1>2 DEF StartUsers, LoopInv
<1>3. CASE EnsureRealm
  BY <1>3 DEF EnsureRealm, Call, LoopInv
<1>4. CASE SetSMTP
  BY <1>4 DEF SetSMTP, Call, LoopInv
<1>5. CASE ReadGroups
  BY <1>5 DEF ReadGroups, Call, LoopInv
<1>6. ASSUME NEW g \in Group, SkipGroup(g) PROVE LoopInv'
  BY <1>6 DEF SkipGroup, Call, LoopInv
<1>7. ASSUME NEW g \in Group, CreateGroup(g) PROVE LoopInv'
  BY <1>7 DEF CreateGroup, Call, LoopInv
<1>8. ASSUME NEW g \in Group, JoinGroup(g) PROVE LoopInv'
  BY <1>8 DEF JoinGroup, Call, LoopInv
<1>9. CASE GroupsDone
  BY <1>9 DEF GroupsDone, Call, LoopInv
<1>10. CASE GrantTeamManagement
  BY <1>10 DEF GrantTeamManagement, Call, LoopInv, TypeOK, Wanted, Workspace, Client
<1>11. ASSUME NEW c \in Client, UpsertClient(c) PROVE LoopInv'
  BY <1>11 DEF UpsertClient, Call, LoopInv
<1>12. ASSUME NEW c \in Client, ApplyClaimMapper(c) PROVE LoopInv'
  BY <1>12 DEF ApplyClaimMapper, Call, LoopInv
<1>13. ASSUME NEW c \in Client, EnsureClient(c) PROVE LoopInv'
  BY <1>13 DEF EnsureClient, Call, LoopInv
<1>14. ASSUME NEW c \in Client, EnsureAudienceMapper(c) PROVE LoopInv'
  BY <1>14 DEF EnsureAudienceMapper, Call, LoopInv
<1>15. CASE ClientsDone
  BY <1>15 DEF ClientsDone, Call, LoopInv, TypeOK, Wanted, Workspace, Client
<1>16. CASE MappersDone
  BY <1>16 DEF MappersDone, Call, LoopInv
<1>17. CASE ClientsEnsured
  BY <1>17 DEF ClientsEnsured, Call, LoopInv
<1>18. CASE WriteTheme
  BY <1>18 DEF WriteTheme, LoopInv
<1>19. CASE RestartKeycloak
  BY <1>19 DEF RestartKeycloak, Leave, Return, LoopInv
<1>20. CASE ReadGroupIDs
  BY <1>20 DEF ReadGroupIDs, Call, LoopInv
<1>21. ASSUME NEW u \in User, EnsureUser(u) PROVE LoopInv'
  BY <1>21 DEF EnsureUser, Call, LoopInv
<1>22. CASE UserDone
  BY <1>22 DEF UserDone, Call, LoopInv
<1>23. CASE UsersDone
  BY <1>23 DEF UsersDone, Leave, Return, LoopInv
<1>24. CASE Refused
  BY <1>24 DEF Refused, Leave, Error, LoopInv
<1>25. CASE Lost
  BY <1>25 DEF Lost, Leave, Error, LoopInv
<1>26. CASE Cut
  BY <1>26 DEF Cut, Leave, Error, LoopInv
<1>27. CASE Console
  BY <1>27 DEF Console, LoopInv
<1>28. CASE Rebuild
  BY <1>28 DEF Rebuild, LoopInv
<1>29. CASE EditWorkspace
  BY <1>29 DEF EditWorkspace, LoopInv
<1>30. CASE UNCHANGED vars
  BY <1>30 DEF vars, LoopInv
<1> QED BY <1>1, <1>2, <1>3, <1>4, <1>5, <1>6, <1>7, <1>8, <1>9, <1>10, <1>11, <1>12, <1>13,
    <1>14, <1>15, <1>16, <1>17, <1>18, <1>19, <1>20, <1>21, <1>22, <1>23, <1>24, <1>25, <1>26,
    <1>27, <1>28, <1>29, <1>30 DEF Next, Step

\* Every step keeps ThemeInv.
LEMMA ThemeStep ==
    ASSUME TypeOK, ThemeInv, [Next]_vars
    PROVE  ThemeInv'
<1>1. CASE StartTenant
  BY <1>1 DEF StartTenant, ThemeInv
<1>2. CASE StartUsers
  BY <1>2 DEF StartUsers, ThemeInv
<1>3. CASE EnsureRealm
  BY <1>3 DEF EnsureRealm, Call, ThemeInv
<1>4. CASE SetSMTP
  BY <1>4 DEF SetSMTP, Call, ThemeInv
<1>5. CASE ReadGroups
  BY <1>5 DEF ReadGroups, Call, ThemeInv
<1>6. ASSUME NEW g \in Group, SkipGroup(g) PROVE ThemeInv'
  BY <1>6 DEF SkipGroup, Call, ThemeInv
<1>7. ASSUME NEW g \in Group, CreateGroup(g) PROVE ThemeInv'
  BY <1>7 DEF CreateGroup, Call, ThemeInv
<1>8. ASSUME NEW g \in Group, JoinGroup(g) PROVE ThemeInv'
  BY <1>8 DEF JoinGroup, Call, ThemeInv
<1>9. CASE GroupsDone
  BY <1>9 DEF GroupsDone, Call, ThemeInv
<1>10. CASE GrantTeamManagement
  BY <1>10 DEF GrantTeamManagement, Call, ThemeInv
<1>11. ASSUME NEW c \in Client, UpsertClient(c) PROVE ThemeInv'
  BY <1>11 DEF UpsertClient, Call, ThemeInv
<1>12. ASSUME NEW c \in Client, ApplyClaimMapper(c) PROVE ThemeInv'
  BY <1>12 DEF ApplyClaimMapper, Call, ThemeInv
<1>13. ASSUME NEW c \in Client, EnsureClient(c) PROVE ThemeInv'
  BY <1>13 DEF EnsureClient, Call, ThemeInv
<1>14. ASSUME NEW c \in Client, EnsureAudienceMapper(c) PROVE ThemeInv'
  BY <1>14 DEF EnsureAudienceMapper, Call, ThemeInv
<1>15. CASE ClientsDone
  BY <1>15 DEF ClientsDone, Call, ThemeInv
<1>16. CASE MappersDone
  BY <1>16 DEF MappersDone, Call, ThemeInv
<1>17. CASE ClientsEnsured
  BY <1>17 DEF ClientsEnsured, Call, ThemeInv
<1>18. CASE WriteTheme
  BY <1>18 DEF WriteTheme, ThemeInv
<1>19. CASE RestartKeycloak
  BY <1>19 DEF RestartKeycloak, Leave, Return, ThemeInv
<1>20. CASE ReadGroupIDs
  BY <1>20 DEF ReadGroupIDs, Call, ThemeInv
<1>21. ASSUME NEW u \in User, EnsureUser(u) PROVE ThemeInv'
  BY <1>21 DEF EnsureUser, Call, ThemeInv
<1>22. CASE UserDone
  BY <1>22 DEF UserDone, Call, ThemeInv
<1>23. CASE UsersDone
  BY <1>23 DEF UsersDone, Leave, Return, ThemeInv
<1>24. CASE Refused
  BY <1>24 DEF Refused, Leave, Error, ThemeInv
<1>25. CASE Lost
  BY <1>25 DEF Lost, Leave, Error, ThemeInv
<1>26. CASE Cut
  BY <1>26 DEF Cut, Leave, Error, ThemeInv
<1>27. CASE Console
  BY <1>27 DEF Console, ThemeInv
<1>28. CASE Rebuild
  BY <1>28 DEF Rebuild, ThemeInv
<1>29. CASE EditWorkspace
  BY <1>29 DEF EditWorkspace, ThemeInv
<1>30. CASE UNCHANGED vars
  BY <1>30 DEF vars, ThemeInv
<1> QED BY <1>1, <1>2, <1>3, <1>4, <1>5, <1>6, <1>7, <1>8, <1>9, <1>10, <1>11, <1>12, <1>13,
    <1>14, <1>15, <1>16, <1>17, <1>18, <1>19, <1>20, <1>21, <1>22, <1>23, <1>24, <1>25, <1>26,
    <1>27, <1>28, <1>29, <1>30 DEF Next, Step

\* Every step keeps GroupsInv.
LEMMA GroupsStep ==
    ASSUME TypeOK, LoopInv, GroupsInv, [Next]_vars
    PROVE  GroupsInv'
<1>1. CASE StartTenant
  BY <1>1 DEF StartTenant, GroupsInv, Realmed, Grouped, Granted
<1>2. CASE StartUsers
  BY <1>2 DEF StartUsers, GroupsInv, Realmed, Grouped, Granted
<1>3. CASE EnsureRealm
  BY <1>3 DEF EnsureRealm, Call, GroupsInv, Realmed, Grouped, Granted, RealmCreated, TypeOK, Realm
<1>4. CASE SetSMTP
  BY <1>4 DEF SetSMTP, Call, GroupsInv, Realmed, Grouped, Granted, WithSMTP, TypeOK, Realm
<1>5. CASE ReadGroups
  BY <1>5 DEF ReadGroups, Call, GroupsInv, Realmed, Grouped, Granted, GroupIDs
<1>6. ASSUME NEW g \in Group, SkipGroup(g) PROVE GroupsInv'
  BY <1>6 DEF SkipGroup, Call, GroupsInv, Realmed, Grouped, Granted
<1>7. ASSUME NEW g \in Group, CreateGroup(g) PROVE GroupsInv'
  BY <1>7 DEF CreateGroup, Call, GroupsInv, Realmed, Grouped, Granted, WithGroup, TypeOK, Realm
<1>8. ASSUME NEW g \in Group, JoinGroup(g) PROVE GroupsInv'
  BY <1>8 DEF JoinGroup, Call, GroupsInv, Realmed, Grouped, Granted
<1>9. CASE GroupsDone
  BY <1>9 DEF GroupsDone, Call, GroupsInv, Realmed, Grouped, Granted, TypeOK, Realm
<1>10. CASE GrantTeamManagement
  BY <1>10 DEF GrantTeamManagement, Call, GroupsInv, Realmed, Grouped, Granted, Managing,
      TypeOK, Realm
<1>11. ASSUME NEW c \in Client, UpsertClient(c) PROVE GroupsInv'
  BY <1>11 DEF UpsertClient, Call, GroupsInv, Realmed, Grouped, Granted, Upserted, TypeOK, Realm
<1>12. ASSUME NEW c \in Client, ApplyClaimMapper(c) PROVE GroupsInv'
  BY <1>12 DEF ApplyClaimMapper, Call, GroupsInv, Realmed, Grouped, Granted, Mapped, TypeOK, Realm
<1>13. ASSUME NEW c \in Client, EnsureClient(c) PROVE GroupsInv'
  BY <1>13 DEF EnsureClient, Call, GroupsInv, Realmed, Grouped, Granted, Upserted, TypeOK, Realm
<1>14. ASSUME NEW c \in Client, EnsureAudienceMapper(c) PROVE GroupsInv'
  BY <1>14 DEF EnsureAudienceMapper, Call, GroupsInv, Realmed, Grouped, Granted, WithAudience,
      TypeOK, Realm
<1>15. CASE ClientsDone
  BY <1>15 DEF ClientsDone, Call, GroupsInv, Realmed, Grouped, Granted
<1>16. CASE MappersDone
  BY <1>16 DEF MappersDone, Call, GroupsInv, Realmed, Grouped, Granted
<1>17. CASE ClientsEnsured
  BY <1>17 DEF ClientsEnsured, Call, GroupsInv, Realmed, Grouped, Granted
<1>18. CASE WriteTheme
  BY <1>18 DEF WriteTheme, GroupsInv, Realmed, Grouped, Granted
<1>19. CASE RestartKeycloak
  BY <1>19 DEF RestartKeycloak, Leave, Return, GroupsInv, Realmed, Grouped, Granted
<1>20. CASE ReadGroupIDs
  BY <1>20 DEF ReadGroupIDs, Call, GroupsInv, Realmed, Grouped, Granted
<1>21. ASSUME NEW u \in User, EnsureUser(u) PROVE GroupsInv'
  BY <1>21 DEF EnsureUser, Call, GroupsInv, Realmed, Grouped, Granted
<1>22. CASE UserDone
  BY <1>22 DEF UserDone, Call, GroupsInv, Realmed, Grouped, Granted
<1>23. CASE UsersDone
  BY <1>23 DEF UsersDone, Leave, Return, GroupsInv, Realmed, Grouped, Granted
<1>24. CASE Refused
  BY <1>24 DEF Refused, Leave, Error, GroupsInv, Realmed, Grouped, Granted
<1>25. CASE Lost
  BY <1>25 DEF Lost, Leave, Error, GroupsInv, Realmed, Grouped, Granted
<1>26. CASE Cut
  BY <1>26 DEF Cut, Leave, Error, GroupsInv, Realmed, Grouped, Granted
<1>27. CASE Console
  BY <1>27 DEF Console, GroupsInv, Realmed, Grouped, Granted
<1>28. CASE Rebuild
  BY <1>28 DEF Rebuild, GroupsInv, Realmed, Grouped, Granted
<1>29. CASE EditWorkspace
  BY <1>29 DEF EditWorkspace, GroupsInv, Realmed, Grouped, Granted
<1>30. CASE UNCHANGED vars
  BY <1>30 DEF vars, GroupsInv, Realmed, Grouped, Granted
<1> QED BY <1>1, <1>2, <1>3, <1>4, <1>5, <1>6, <1>7, <1>8, <1>9, <1>10, <1>11, <1>12, <1>13,
    <1>14, <1>15, <1>16, <1>17, <1>18, <1>19, <1>20, <1>21, <1>22, <1>23, <1>24, <1>25, <1>26,
    <1>27, <1>28, <1>29, <1>30 DEF Next, Step

\* Every step keeps ClientsInv.
LEMMA ClientsStep ==
    ASSUME TypeOK, LoopInv, ClientsInv, [Next]_vars
    PROVE  ClientsInv'
<1>1. CASE StartTenant
  BY <1>1 DEF StartTenant, ClientsInv, Cliented, Claimed, Granted, Grouped
<1>2. CASE StartUsers
  BY <1>2 DEF StartUsers, ClientsInv, Cliented, Claimed, Granted, Grouped
<1>3. CASE EnsureRealm
  BY <1>3 DEF EnsureRealm, Call, ClientsInv, Cliented, Claimed, Granted, Grouped
<1>4. CASE SetSMTP
  BY <1>4 DEF SetSMTP, Call, ClientsInv, Cliented, Claimed, Granted, Grouped
<1>5. CASE ReadGroups
  BY <1>5 DEF ReadGroups, Call, ClientsInv, Cliented, Claimed, Granted, Grouped
<1>6. ASSUME NEW g \in Group, SkipGroup(g) PROVE ClientsInv'
  BY <1>6 DEF SkipGroup, Call, ClientsInv, Cliented, Claimed, Granted, Grouped
<1>7. ASSUME NEW g \in Group, CreateGroup(g) PROVE ClientsInv'
  BY <1>7 DEF CreateGroup, Call, ClientsInv, Cliented, Claimed, Granted, Grouped
<1>8. ASSUME NEW g \in Group, JoinGroup(g) PROVE ClientsInv'
  BY <1>8 DEF JoinGroup, Call, ClientsInv, Cliented, Claimed, Granted, Grouped
<1>9. CASE GroupsDone
  BY <1>9 DEF GroupsDone, Call, ClientsInv, Cliented, Claimed, Granted, Grouped
<1>10. CASE GrantTeamManagement
  BY <1>10 DEF GrantTeamManagement, Call, ClientsInv, Cliented, Claimed, Granted, Grouped, Wanted
<1>11. ASSUME NEW c \in Client, UpsertClient(c) PROVE ClientsInv'
  BY <1>11 DEF UpsertClient, Call, ClientsInv, Cliented, Claimed, Granted, Grouped, Upserted,
      Wanted, Client, TypeOK, Realm
<1>12. ASSUME NEW c \in Client, ApplyClaimMapper(c) PROVE ClientsInv'
  BY <1>12 DEF ApplyClaimMapper, Call, ClientsInv, Cliented, Claimed, Granted, Grouped, Mapped,
      RoleMissing, Wanted, Client, TypeOK, Realm
<1>13. ASSUME NEW c \in Client, EnsureClient(c) PROVE ClientsInv'
  BY <1>13 DEF EnsureClient, Call, ClientsInv, Cliented, Claimed, Granted, Grouped, Upserted,
      Wanted, Client, TypeOK, Realm
<1>14. ASSUME NEW c \in Client, EnsureAudienceMapper(c) PROVE ClientsInv'
  BY <1>14 DEF EnsureAudienceMapper, Call, ClientsInv, Cliented, Claimed, Granted, Grouped,
      WithAudience, Wanted, TypeOK, Realm
<1>15. CASE ClientsDone
  BY <1>15 DEF ClientsDone, Call, ClientsInv, Cliented, Claimed, Granted, Grouped, Wanted
<1>16. CASE MappersDone
  BY <1>16 DEF MappersDone, Call, ClientsInv, Cliented, Claimed, Granted, Grouped, Wanted
<1>17. CASE ClientsEnsured
  BY <1>17 DEF ClientsEnsured, Call, ClientsInv, Cliented, Claimed, Granted, Grouped, Wanted
<1>18. CASE WriteTheme
  BY <1>18 DEF WriteTheme, ClientsInv, Cliented, Claimed, Granted, Grouped, Wanted
<1>19. CASE RestartKeycloak
  BY <1>19 DEF RestartKeycloak, Leave, Return, ClientsInv, Cliented, Claimed, Granted, Grouped
<1>20. CASE ReadGroupIDs
  BY <1>20 DEF ReadGroupIDs, Call, ClientsInv, Cliented, Claimed, Granted, Grouped
<1>21. ASSUME NEW u \in User, EnsureUser(u) PROVE ClientsInv'
  BY <1>21 DEF EnsureUser, Call, ClientsInv, Cliented, Claimed, Granted, Grouped
<1>22. CASE UserDone
  BY <1>22 DEF UserDone, Call, ClientsInv, Cliented, Claimed, Granted, Grouped
<1>23. CASE UsersDone
  BY <1>23 DEF UsersDone, Leave, Return, ClientsInv, Cliented, Claimed, Granted, Grouped
<1>24. CASE Refused
  BY <1>24 DEF Refused, Leave, Error, ClientsInv, Cliented, Claimed, Granted, Grouped
<1>25. CASE Lost
  BY <1>25 DEF Lost, Leave, Error, ClientsInv, Cliented, Claimed, Granted, Grouped
<1>26. CASE Cut
  BY <1>26 DEF Cut, Leave, Error, ClientsInv, Cliented, Claimed, Granted, Grouped
<1>27. CASE Console
  BY <1>27 DEF Console, ClientsInv, Cliented, Claimed, Granted, Grouped
<1>28. CASE Rebuild
  BY <1>28 DEF Rebuild, ClientsInv, Cliented, Claimed, Granted, Grouped
<1>29. CASE EditWorkspace
  BY <1>29 DEF EditWorkspace, ClientsInv, Cliented, Claimed, Granted, Grouped
<1>30. CASE UNCHANGED vars
  BY <1>30 DEF vars, ClientsInv, Cliented, Claimed, Granted, Grouped, Wanted
<1> QED BY <1>1, <1>2, <1>3, <1>4, <1>5, <1>6, <1>7, <1>8, <1>9, <1>10, <1>11, <1>12, <1>13,
    <1>14, <1>15, <1>16, <1>17, <1>18, <1>19, <1>20, <1>21, <1>22, <1>23, <1>24, <1>25, <1>26,
    <1>27, <1>28, <1>29, <1>30 DEF Next, Step

\* Every step keeps UsersInv.
LEMMA UsersStep ==
    ASSUME TypeOK, LoopInv, UsersInv, [Next]_vars
    PROVE  UsersInv'
<1>1. CASE StartTenant
  BY <1>1 DEF StartTenant, UsersInv, UserReady, Found, Enabled
<1>2. CASE StartUsers
  BY <1>2 DEF StartUsers, UsersInv, UserReady, Found, Enabled
<1>3. CASE EnsureRealm
  BY <1>3 DEF EnsureRealm, Call, UsersInv, UserReady, Found, Enabled
<1>4. CASE SetSMTP
  BY <1>4 DEF SetSMTP, Call, UsersInv, UserReady, Found, Enabled
<1>5. CASE ReadGroups
  BY <1>5 DEF ReadGroups, Call, UsersInv, UserReady, Found, Enabled
<1>6. ASSUME NEW g \in Group, SkipGroup(g) PROVE UsersInv'
  BY <1>6 DEF SkipGroup, Call, UsersInv, UserReady, Found, Enabled
<1>7. ASSUME NEW g \in Group, CreateGroup(g) PROVE UsersInv'
  BY <1>7 DEF CreateGroup, Call, UsersInv, UserReady, Found, Enabled
<1>8. ASSUME NEW g \in Group, JoinGroup(g) PROVE UsersInv'
  <2> SUFFICES ASSUME ~touched PROVE UsersInv'
    BY <1>8 DEF JoinGroup, Call, UsersInv
  <2> DEFINE a == [realm.users[cur] EXCEPT !.groups = @ \cup {g}]
  <2>1. realm.users[cur] \in Account /\ cur \in User
    BY <1>8, AccountType DEF JoinGroup, Call, LoopInv, MayJoin, TypeOK
  <2>2. a \in Account /\ a.groups = realm.users[cur].groups \cup {g}
        /\ a.enabled = realm.users[cur].enabled /\ a.renamed = realm.users[cur].renamed
    BY <2>1 DEF Account
  <2> HIDE DEF a
  <2>3. realm'.users = [realm.users EXCEPT ![cur] = a]
    BY <1>8 DEF JoinGroup, Call, Joined, TypeOK, Realm, a
  <2>4. realm'.users[cur] = a /\ \A u \in User \ {cur} : realm'.users[u] = realm.users[u]
    BY <2>1, <2>3 DEF TypeOK, Realm
  <2>5. pc = "member" /\ pc' = "member" /\ ws' = ws /\ todo' = todo /\ cur' = cur /\ left' = left \ {g}
    BY <1>8 DEF JoinGroup, Call
  <2>6. UserReady(cur, left) /\ \A u \in User \ (todo \cup {cur}) : ws.users[u] # None => UserReady(u, {})
    BY <2>5 DEF UsersInv
  <2>7. \A u \in User \ (todo \cup {cur}) : ws.users[u] # None => UserReady(u, {})'
    BY <2>4, <2>5, <2>6 DEF UserReady, Found
  <2>8. UserReady(cur, left)'
    <3>1. Found(cur)'
      BY <2>1, <2>2, <2>4, <2>5, <2>6, NoneAssumption DEF UserReady, Found
    <3>2. ws.users[cur].groups \ (left \ {g}) \subseteq a.groups
      BY <2>2, <2>6 DEF UserReady
    <3>3. a.enabled = Enabled(ws.users[cur])
      BY <2>2, <2>6 DEF UserReady
    <3> QED BY <2>4, <2>5, <3>1, <3>2, <3>3 DEF UserReady, Enabled
  <2> QED BY <2>5, <2>7, <2>8 DEF UsersInv
<1>9. CASE GroupsDone
  BY <1>9 DEF GroupsDone, Call, UsersInv, UserReady, Found, Enabled
<1>10. CASE GrantTeamManagement
  BY <1>10 DEF GrantTeamManagement, Call, UsersInv, UserReady, Found, Enabled
<1>11. ASSUME NEW c \in Client, UpsertClient(c) PROVE UsersInv'
  BY <1>11 DEF UpsertClient, Call, UsersInv, UserReady, Found, Enabled
<1>12. ASSUME NEW c \in Client, ApplyClaimMapper(c) PROVE UsersInv'
  BY <1>12 DEF ApplyClaimMapper, Call, UsersInv, UserReady, Found, Enabled
<1>13. ASSUME NEW c \in Client, EnsureClient(c) PROVE UsersInv'
  BY <1>13 DEF EnsureClient, Call, UsersInv, UserReady, Found, Enabled
<1>14. ASSUME NEW c \in Client, EnsureAudienceMapper(c) PROVE UsersInv'
  BY <1>14 DEF EnsureAudienceMapper, Call, UsersInv, UserReady, Found, Enabled
<1>15. CASE ClientsDone
  BY <1>15 DEF ClientsDone, Call, UsersInv, UserReady, Found, Enabled
<1>16. CASE MappersDone
  BY <1>16 DEF MappersDone, Call, UsersInv, UserReady, Found, Enabled
<1>17. CASE ClientsEnsured
  BY <1>17 DEF ClientsEnsured, Call, UsersInv, UserReady, Found, Enabled
<1>18. CASE WriteTheme
  BY <1>18 DEF WriteTheme, UsersInv, UserReady, Found, Enabled
<1>19. CASE RestartKeycloak
  BY <1>19 DEF RestartKeycloak, Leave, Return, UsersInv, UserReady, Found, Enabled
<1>20. CASE ReadGroupIDs
  BY <1>20 DEF ReadGroupIDs, Call, UsersInv, UserReady, Found, Enabled
<1>21. ASSUME NEW u \in User, EnsureUser(u) PROVE UsersInv'
  <2> SUFFICES ASSUME ~touched PROVE UsersInv'
    BY <1>21 DEF EnsureUser, Call, UsersInv
  <2> DEFINE a == NewAccount(u)
  <2>1. a.enabled = Enabled(ws.users[u]) /\ a.renamed = FALSE
    BY DEF NewAccount
  <2>2. realm' = [realm EXCEPT !.users[u] = a] /\ a \in Account
    <3>1. realm' = Ensured(u) /\ ws.users[u] # None
      BY <1>21 DEF EnsureUser, Call, LoopInv
    <3> QED BY <3>1, UserCall DEF Ensured, TypeOK, NewAccount
  <2> HIDE DEF a
  <2>3. realm'.users = [realm.users EXCEPT ![u] = a]
    BY <2>2 DEF TypeOK, Realm
  <2>4. realm'.users[u] = a /\ \A v \in User \ {u} : realm'.users[v] = realm.users[v]
    BY <2>3 DEF TypeOK, Realm
  <2>5. pc = "user" /\ pc' = "member" /\ ws' = ws /\ todo' = todo \ {u} /\ cur' = u
        /\ left' = ws.users[u].groups
    BY <1>21 DEF EnsureUser, Call
  <2>6. \A v \in User \ todo : ws.users[v] # None => UserReady(v, {})
    BY <2>5 DEF UsersInv
  <2>7. \A v \in User \ (todo' \cup {u}) : ws.users[v] # None => UserReady(v, {})'
    BY <2>4, <2>5, <2>6 DEF UserReady, Found
  <2>8. a # None
    BY <2>2, NoneAssumption
  <2>9. UserReady(cur, left)'
    BY <2>1, <2>4, <2>5, <2>8 DEF UserReady, Found, Enabled
  <2> QED BY <2>5, <2>7, <2>9 DEF UsersInv
<1>22. CASE UserDone
  BY <1>22 DEF UserDone, Call, UsersInv, UserReady, Found, Enabled
<1>23. CASE UsersDone
  BY <1>23 DEF UsersDone, Leave, Return, UsersInv, UserReady, Found, Enabled
<1>24. CASE Refused
  BY <1>24 DEF Refused, Leave, Error, UsersInv, UserReady, Found, Enabled
<1>25. CASE Lost
  BY <1>25 DEF Lost, Leave, Error, UsersInv, UserReady, Found, Enabled
<1>26. CASE Cut
  BY <1>26 DEF Cut, Leave, Error, UsersInv, UserReady, Found, Enabled
<1>27. CASE Console
  BY <1>27 DEF Console, UsersInv, UserReady, Found, Enabled
<1>28. CASE Rebuild
  BY <1>28 DEF Rebuild, UsersInv, UserReady, Found, Enabled
<1>29. CASE EditWorkspace
  BY <1>29 DEF EditWorkspace, UsersInv, UserReady, Found, Enabled
<1>30. CASE UNCHANGED vars
  BY <1>30 DEF vars, UsersInv, UserReady, Found, Enabled
<1> QED BY <1>1, <1>2, <1>3, <1>4, <1>5, <1>6, <1>7, <1>8, <1>9, <1>10, <1>11, <1>12, <1>13,
    <1>14, <1>15, <1>16, <1>17, <1>18, <1>19, <1>20, <1>21, <1>22, <1>23, <1>24, <1>25, <1>26,
    <1>27, <1>28, <1>29, <1>30 DEF Next, Step

\* Every step keeps ReportInv.
LEMMA ReportStep ==
    ASSUME TypeOK, PhaseInv, ThemeInv, GroupsInv, ClientsInv, UsersInv, ReportInv, [Next]_vars
    PROVE  ReportInv'
<1>1. CASE StartTenant
  BY <1>1, NoneAssumption DEF StartTenant, ReportInv, PhaseInv
<1>2. CASE StartUsers
  BY <1>2, NoneAssumption DEF StartUsers, ReportInv, PhaseInv
<1>3. CASE EnsureRealm
  BY <1>3, NoneAssumption DEF EnsureRealm, Call, ReportInv, PhaseInv
<1>4. CASE SetSMTP
  BY <1>4, NoneAssumption DEF SetSMTP, Call, ReportInv, PhaseInv
<1>5. CASE ReadGroups
  BY <1>5, NoneAssumption DEF ReadGroups, Call, ReportInv, PhaseInv
<1>6. ASSUME NEW g \in Group, SkipGroup(g) PROVE ReportInv'
  BY <1>6, NoneAssumption DEF SkipGroup, Call, ReportInv, PhaseInv
<1>7. ASSUME NEW g \in Group, CreateGroup(g) PROVE ReportInv'
  BY <1>7, NoneAssumption DEF CreateGroup, Call, ReportInv, PhaseInv
<1>8. ASSUME NEW g \in Group, JoinGroup(g) PROVE ReportInv'
  BY <1>8, NoneAssumption DEF JoinGroup, Call, ReportInv, PhaseInv
<1>9. CASE GroupsDone
  BY <1>9, NoneAssumption DEF GroupsDone, Call, ReportInv, PhaseInv
<1>10. CASE GrantTeamManagement
  BY <1>10, NoneAssumption DEF GrantTeamManagement, Call, ReportInv, PhaseInv
<1>11. ASSUME NEW c \in Client, UpsertClient(c) PROVE ReportInv'
  BY <1>11, NoneAssumption DEF UpsertClient, Call, ReportInv, PhaseInv
<1>12. ASSUME NEW c \in Client, ApplyClaimMapper(c) PROVE ReportInv'
  BY <1>12, NoneAssumption DEF ApplyClaimMapper, Call, ReportInv, PhaseInv
<1>13. ASSUME NEW c \in Client, EnsureClient(c) PROVE ReportInv'
  BY <1>13, NoneAssumption DEF EnsureClient, Call, ReportInv, PhaseInv
<1>14. ASSUME NEW c \in Client, EnsureAudienceMapper(c) PROVE ReportInv'
  BY <1>14, NoneAssumption DEF EnsureAudienceMapper, Call, ReportInv, PhaseInv
<1>15. CASE ClientsDone
  BY <1>15, NoneAssumption DEF ClientsDone, Call, ReportInv, PhaseInv
<1>16. CASE MappersDone
  BY <1>16, NoneAssumption DEF MappersDone, Call, ReportInv, PhaseInv
<1>17. CASE ClientsEnsured
  BY <1>17, NoneAssumption DEF ClientsEnsured, Call, ReportInv, PhaseInv
<1>18. CASE WriteTheme
  BY <1>18, NoneAssumption DEF WriteTheme, ReportInv, PhaseInv
<1>19. CASE RestartKeycloak
  <2>1. pc = "restart" /\ ws' = ws /\ realm' = realm /\ touched' = touched /\ done' = "tenant"
        /\ themeLive' = themeFile
    BY <1>19 DEF RestartKeycloak, Return, PhaseInv, Realmed
  <2>2. themeLive' = ws'.brand
    BY <2>1 DEF ThemeInv
  <2>3. ASSUME ~touched PROVE RealmReconciled
    <3>1. realm.exists /\ realm.themed /\ (ws.smtp => realm.smtp) /\ realm.groups = Group /\ realm.manages
      BY <2>1, <2>3 DEF GroupsInv, Realmed, Grouped, Granted
    <3>2. /\ \A c \in Wanted : realm.clients[c] = ws.hosts
          /\ Wanted \ {"configd"} \subseteq realm.claims
          /\ ws.extra \subseteq realm.audience
          /\ realm.role["vpn"] # None
      BY <2>1, <2>3 DEF ClientsInv, Cliented, Claimed, Granted, Grouped
    <3> QED BY <3>1, <3>2 DEF RealmReconciled
  <2>4. ~touched' => RealmReconciled'
    BY <2>1, <2>3 DEF RealmReconciled, Wanted
  <2> QED BY <2>1, <2>2, <2>4 DEF ReportInv
<1>20. CASE ReadGroupIDs
  BY <1>20, NoneAssumption DEF ReadGroupIDs, Call, ReportInv, PhaseInv
<1>21. ASSUME NEW u \in User, EnsureUser(u) PROVE ReportInv'
  BY <1>21, NoneAssumption DEF EnsureUser, Call, ReportInv, PhaseInv
<1>22. CASE UserDone
  BY <1>22, NoneAssumption DEF UserDone, Call, ReportInv, PhaseInv
<1>23. CASE UsersDone
  <2>1. pc = "user" /\ todo = {} /\ ws' = ws /\ realm' = realm /\ touched' = touched /\ done' = "users"
    BY <1>23 DEF UsersDone, Return, PhaseInv
  <2>2. ~touched => UsersReconciled
    BY <2>1 DEF UsersInv, UserReady, UsersReconciled
  <2>3. ~touched' => UsersReconciled'
    BY <2>1, <2>2 DEF UsersReconciled, Found, Enabled
  <2> QED BY <2>1, <2>3 DEF ReportInv
<1>24. CASE Refused
  BY <1>24, NoneAssumption DEF Refused, Leave, Error, ReportInv, PhaseInv, Refusal
<1>25. CASE Lost
  <2>1. pc # "idle"
    BY <1>25 DEF Lost, Effects
  <2> QED BY <1>25, <2>1, NoneAssumption DEF Lost, Error, PhaseInv, ReportInv
<1>26. CASE Cut
  BY <1>26, NoneAssumption DEF Cut, Leave, Error, ReportInv, PhaseInv
<1>27. CASE Console
  BY <1>27, NoneAssumption DEF Console, ReportInv, PhaseInv
<1>28. CASE Rebuild
  BY <1>28, NoneAssumption DEF Rebuild, ReportInv, PhaseInv
<1>29. CASE EditWorkspace
  BY <1>29, NoneAssumption DEF EditWorkspace, ReportInv, PhaseInv
<1>30. CASE UNCHANGED vars
  BY <1>30, NoneAssumption DEF vars, ReportInv, PhaseInv, RealmReconciled, UsersReconciled,
      Wanted, Found, Enabled
<1> QED BY <1>1, <1>2, <1>3, <1>4, <1>5, <1>6, <1>7, <1>8, <1>9, <1>10, <1>11, <1>12, <1>13,
    <1>14, <1>15, <1>16, <1>17, <1>18, <1>19, <1>20, <1>21, <1>22, <1>23, <1>24, <1>25, <1>26,
    <1>27, <1>28, <1>29, <1>30 DEF Next, Step

----------------------------------------------------------------------------
(***************************************************************************)
(* The theorems.                                                           *)
(***************************************************************************)

\* An empty realm, or one made by hand, satisfies the invariant.
LEMMA InitInv == ASSUME Init PROVE IInv
<1>1. Empty \in Realm
  BY DEF Empty, Realm
<1>2. realm \in Realm
  <2>1. [Empty EXCEPT !.exists = TRUE] \in Realm
    BY <1>1 DEF Realm
  <2> QED BY <1>1, <2>1 DEF Init
<1>3. ws \in Workspace
  <2>1. [groups |-> Group, enabled |-> TRUE] \in Declared
    BY DEF Declared
  <2> QED BY <2>1 DEF Init, Workspace
<1>4. TypeOK
  <2>1. events \in 0..MaxEvents
    BY EventsAssumption DEF Init
  <2>2. themeFile \in Nat /\ themeLive \in Nat
    BY DEF Init
  <2>3. touched \in BOOLEAN
    BY DEF Init
  <2>4. /\ pc \in Phase
        /\ cmd \in {"tenant", "users", None} /\ done \in {"tenant", "users", None}
        /\ todo \subseteq Group \cup Client \cup User
        /\ seen \subseteq Group /\ left \subseteq Group
        /\ cur \in User \cup {None}
    BY DEF Init, Phase
  <2> QED BY <1>2, <1>3, <2>1, <2>2, <2>3, <2>4 DEF TypeOK
<1> QED BY <1>4, NoneAssumption
        DEF Init, IInv, PhaseInv, LoopInv, ThemeInv, GroupsInv, ClientsInv, UsersInv, ReportInv,
            Realmed, Grouped, Granted, Cliented, Claimed

\* Every step keeps the invariant.
LEMMA InvStep == ASSUME IInv, [Next]_vars PROVE IInv'
BY TypeStep, PhaseStep, LoopStep, ThemeStep, GroupsStep, ClientsStep, UsersStep, ReportStep DEF IInv

\* The inductive invariant holds, whatever calls fail and whatever the console does.
THEOREM Inductive == Spec => []IInv
BY InitInv, InvStep, PTL DEF Spec

\* All variables keep their types.
THEOREM TypeCorrect == Spec => []TypeOK
<1>1. IInv => TypeOK
  BY DEF IInv
<1> QED BY <1>1, Inductive, PTL

\* A command that reported success left the realm and the theme, or the users, as the
\* workspace says, unless the console was used meanwhile (EnsureRealm, EnsureUsers).
THEOREM ReconciledAfterOk == Spec => []OkMeansReconciled
<1>1. IInv => OkMeansReconciled
  BY DEF IInv, ReportInv, OkMeansReconciled
<1> QED BY <1>1, Inductive, PTL

=============================================================================
