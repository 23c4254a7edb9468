------------------------------ MODULE Keycloak ------------------------------
(***************************************************************************)
(* A tenant's realm in Keycloak: the realm stage of `tenant apply`         *)
(* (EnsureRealm), the clients its later stages ask for (EnsureClient), the *)
(* login theme at its end (branding.go), and `users apply` (EnsureUsers);  *)
(* internal/keycloak/reconcile.go over the calls of keycloak.go.           *)
(*                                                                         *)
(* Every call is one HTTP request that may fail, or take effect and lose   *)
(* its answer.  The tenant's admin works in Keycloak's console at the same *)
(* time, with the rights over users and groups mksrv has given.            *)
(*                                                                         *)
(* Simplifications.                                                        *)
(*  - One tenant: realms share nothing, and the loops over tenants end at  *)
(*    the first error.  One command at a time.                             *)
(*  - A token that expires is renewed inside the call (Client.do), so it   *)
(*    is no state; a second refusal is a failed call.                      *)
(*  - Names and display texts are left out; the redirect URIs, the theme   *)
(*    and the database role in the token are versions.                     *)
(***************************************************************************)
EXTENDS Naturals, Sequences, FiniteSets

CONSTANTS
    Groups,     \* tenantGroups, a sequence; the first manages the team
    User,       \* the users a users file may declare
    None,       \* nothing there
    MaxEvents   \* bound: failed calls, lost answers, console edits, edits, rebuilds

Group == {Groups[k] : k \in 1..Len(Groups)}

ASSUME GroupsAssumption == Len(Groups) > 0
ASSUME UsersAssumption == IsFiniteSet(User)
ASSUME EventsAssumption == MaxEvents \in Nat

AdminGroup == Groups[1]
Clients    == <<"vpn", "configd", "openbao", "web">>
Client     == {"vpn", "configd", "openbao", "web"}
Later      == <<"web", "openbao">>  \* the clients whose secret a later stage asks for

VARIABLES
    ws,        \* the workspace: optional clients, SMTP, versions, the users file
    realm,     \* the realm in Keycloak
    themeFile, \* the version of the login theme on the identity host
    themeLive, \* the version Keycloak has read
    \* the current command
    pc,
    cmd,
    todo,      \* groups, clients or users still to be gone through
    seen,      \* the groups of the realm as it has read them
    cur,       \* the user it is at
    left,      \* the groups that user is still to be put in
    \* history and bounds
    touched,   \* the console was used since the command began
    done,      \* the last command that reported success, if nothing happened since
    events

local == <<cmd, todo, seen, cur, left>>
vars  == <<ws, realm, themeFile, themeLive, pc, local, touched, done, events>>

\* A users file may leave `enabled` out.
Declared == [groups : SUBSET Group, enabled : BOOLEAN \cup {None}]
Account  == [groups : SUBSET Group, enabled : BOOLEAN, renamed : BOOLEAN]

ASSUME NoneAssumption ==
    /\ None \notin Nat
    /\ \A a \in Account : a # None
    /\ None \notin {"tenant", "users"}

Workspace == [extra : SUBSET {"openbao", "web"}, smtp : BOOLEAN, hosts : Nat, brand : Nat,
              release : Nat, users : [User -> Declared \cup {None}]]

Realm == [exists : BOOLEAN, themed : BOOLEAN, smtp : BOOLEAN, groups : SUBSET Group,
          manages : BOOLEAN, clients : [Client -> Nat \cup {None}],
          role : [Client -> Nat \cup {None}], claims : SUBSET Client,
          audience : SUBSET Client, users : [User -> Account \cup {None}]]

Phase == {"idle", "realm", "smtp", "readGroups", "group", "grant", "client", "mapper",
          "ensure", "audience", "theme", "restart", "readIDs", "user", "member"}

(***************************************************************************)
(* Type correctness.                                                       *)
(***************************************************************************)
TypeOK ==
    /\ ws \in Workspace
    /\ realm \in Realm
    /\ themeFile \in Nat /\ themeLive \in Nat
    /\ pc \in Phase
    /\ cmd \in {"tenant", "users", None}
    /\ todo \subseteq Group \cup Client \cup User
    /\ seen \subseteq Group
    /\ cur \in User \cup {None}
    /\ left \subseteq Group
    /\ touched \in BOOLEAN
    /\ done \in {"tenant", "users", None}
    /\ events \in 0..MaxEvents

----------------------------------------------------------------------------
Empty == [exists |-> FALSE, themed |-> FALSE, smtp |-> FALSE, groups |-> {}, manages |-> FALSE,
          clients |-> [c \in Client |-> None], role |-> [c \in Client |-> None],
          claims |-> {}, audience |-> {}, users |-> [u \in User |-> None]]

\* A realm may have been made by hand before.
Init ==
    /\ ws = [extra |-> {"openbao"}, smtp |-> TRUE, hosts |-> 0, brand |-> 1, release |-> 0,
             users |-> [u \in User |-> [groups |-> Group, enabled |-> TRUE]]]
    /\ realm \in {Empty, [Empty EXCEPT !.exists = TRUE]}
    /\ themeFile = 0 /\ themeLive = 0
    /\ pc = "idle" /\ cmd = None /\ todo = {} /\ seen = {} /\ cur = None /\ left = {}
    /\ touched = FALSE
    /\ done = None
    /\ events = 0

Event == events < MaxEvents /\ events' = events + 1

Leave == pc' = "idle" /\ cmd' = None /\ todo' = {} /\ seen' = {} /\ cur' = None /\ left' = {}

Error == Leave /\ UNCHANGED done

Return == Leave /\ done' = cmd

\* A call that leaves the realm as r.
Call(phase, r, next) ==
    /\ pc = phase
    /\ realm' = r
    /\ pc' = next
    /\ UNCHANGED <<ws, themeFile, themeLive, cmd, touched, done, events>>

\* Sequence s is gone through in its order: x is next.
Turn(s, x) ==
    /\ x \in todo
    /\ \E k \in 1..Len(s) : s[k] = x /\ \A j \in 1..(k - 1) : s[j] \notin todo

\* The clients of the tenant.
Wanted == {"vpn", "configd"} \cup ws.extra

----------------------------------------------------------------------------
(* tenant apply                                                            *)

StartTenant ==
    /\ pc = "idle"
    /\ cmd' = "tenant"
    /\ pc' = "realm"
    /\ touched' = FALSE
    /\ done' = None
    /\ UNCHANGED <<ws, realm, themeFile, themeLive, todo, seen, cur, left, events>>

\* The realm is created with its theme, or an existing one gets it.
RealmCreated == [realm EXCEPT !.exists = TRUE, !.themed = TRUE]

EnsureRealm ==
    /\ Call("realm", RealmCreated, IF ws.smtp THEN "smtp" ELSE "readGroups")
    /\ UNCHANGED <<todo, seen, cur, left>>

\* Written on every run; a realm once configured keeps its setting when SMTP is dropped.
WithSMTP == [realm EXCEPT !.smtp = TRUE]

SetSMTP ==
    /\ Call("smtp", WithSMTP, "readGroups")
    /\ UNCHANGED <<todo, seen, cur, left>>

\* Mutant: the groups there are, are not asked for.
GroupIDs_None == {}

GroupIDs == realm.groups

\* groupNames, once for the whole loop.
ReadGroups ==
    /\ Call("readGroups", realm, "group")
    /\ todo' = Group
    /\ seen' = GroupIDs
    /\ UNCHANGED <<cur, left>>

SkipGroup(g) ==
    /\ Turn(Groups, g)
    /\ g \in seen
    /\ Call("group", realm, "group")
    /\ todo' = todo \ {g}
    /\ UNCHANGED <<seen, cur, left>>

WithGroup(g) == [realm EXCEPT !.groups = @ \cup {g}]

MayCreate(g) == Turn(Groups, g) /\ g \notin seen \cup realm.groups

CreateGroup(g) ==
    /\ MayCreate(g)
    /\ Call("group", WithGroup(g), "group")
    /\ todo' = todo \ {g}
    /\ UNCHANGED <<seen, cur, left>>

GroupsDone ==
    /\ todo = {}
    /\ Call("group", realm, "grant")
    /\ seen' = {}
    /\ UNCHANGED <<todo, cur, left>>

\* grantTeamManagement adds the roles the group does not have.
Managing == [realm EXCEPT !.manages = TRUE]

GrantTeamManagement ==
    /\ AdminGroup \in realm.groups
    /\ Call("grant", Managing, "client")
    /\ todo' = Wanted
    /\ UNCHANGED <<seen, cur, left>>

\* Mutant: an existing client is left alone.
Upserted_IfAbsent(c) == [realm EXCEPT !.clients[c] = IF @ = None THEN ws.hosts ELSE @]

\* A client is created, or its settings are written again.
Upserted(c) == [realm EXCEPT !.clients[c] = ws.hosts]

UpsertClient(c) ==
    /\ Turn(Clients, c)
    /\ Call("client", Upserted(c), "client")
    /\ todo' = todo \ {c}
    /\ UNCHANGED <<seen, cur, left>>

ClientsDone ==
    /\ todo = {}
    /\ Call("client", realm, "mapper")
    /\ todo' = Wanted \ {"configd"}
    /\ UNCHANGED <<seen, cur, left>>

\* The database role goes into the tokens of the VPN client only.
RoleMissing(c) == c = "vpn" /\ realm.role["vpn"] = None

\* A mapper is created when there is none of its name, and never rewritten; role, then groups.
Mapped(c) ==
    IF RoleMissing(c) THEN [realm EXCEPT !.role["vpn"] = ws.release]
    ELSE [realm EXCEPT !.claims = @ \cup {c}]

ApplyClaimMapper(c) ==
    /\ Turn(Clients, c)
    /\ Call("mapper", Mapped(c), "mapper")
    /\ todo' = IF RoleMissing(c) THEN todo ELSE todo \ {c}
    /\ UNCHANGED <<seen, cur, left>>

\* Web, then OpenBao, ask for their client and its secret; the other stages lie in between.
MappersDone ==
    /\ todo = {}
    /\ Call("mapper", realm, "ensure")
    /\ todo' = ws.extra
    /\ UNCHANGED <<seen, cur, left>>

EnsureClient(c) ==
    /\ Turn(Later, c)
    /\ Call("ensure", Upserted(c), "audience")
    /\ UNCHANGED <<todo, seen, cur, left>>

WithAudience(c) == [realm EXCEPT !.audience = @ \cup {c}]

EnsureAudienceMapper(c) ==
    /\ Turn(Later, c)
    /\ Call("audience", WithAudience(c), "ensure")
    /\ todo' = todo \ {c}
    /\ UNCHANGED <<seen, cur, left>>

ClientsEnsured ==
    /\ todo = {}
    /\ Call("ensure", realm, "theme")
    /\ UNCHANGED <<todo, seen, cur, left>>

\* provisionTenantBranding: the theme's files are written without comparing.
WriteTheme ==
    /\ pc = "theme"
    /\ themeFile' = ws.brand
    /\ pc' = "restart"
    /\ UNCHANGED <<ws, realm, themeLive, local, touched, done, events>>

\* Keycloak is restarted on every run, and reads the theme as it starts.
RestartKeycloak ==
    /\ pc = "restart"
    /\ themeLive' = themeFile
    /\ Return
    /\ UNCHANGED <<ws, realm, themeFile, touched, events>>

----------------------------------------------------------------------------
(* users apply                                                             *)

\* Without a users file there is nothing to do.
StartUsers ==
    /\ pc = "idle"
    /\ \E u \in User : ws.users[u] # None
    /\ cmd' = "users"
    /\ pc' = "readIDs"
    /\ touched' = FALSE
    /\ done' = None
    /\ UNCHANGED <<ws, realm, themeFile, themeLive, todo, seen, cur, left, events>>

\* The users file lists its users in some order.
ReadGroupIDs ==
    /\ realm.exists
    /\ Call("readIDs", realm, "user")
    /\ seen' = GroupIDs
    /\ todo' = {u \in User : ws.users[u] # None}
    /\ UNCHANGED <<cur, left>>

\* The user is found by its e-mail address.
Found(u) == IF realm.users[u] = None THEN FALSE ELSE ~realm.users[u].renamed

\* An account with another address has the user's name.
NameTaken(u) == realm.users[u] # None /\ ~Found(u)

\* A user is enabled unless the file says otherwise.
Enabled(d) == IF d.enabled = None THEN TRUE ELSE d.enabled

\* The user is updated if found, created otherwise.
Ensured(u) ==
    [realm EXCEPT !.users[u] =
        [groups  |-> IF Found(u) THEN realm.users[u].groups ELSE {},
         enabled |-> Enabled(ws.users[u]),
         renamed |-> FALSE]]

EnsureUser(u) ==
    /\ u \in todo
    /\ ~NameTaken(u)
    /\ Call("user", Ensured(u), "member")
    /\ cur' = u
    /\ left' = ws.users[u].groups
    /\ todo' = todo \ {u}
    /\ UNCHANGED seen

\* Memberships are added one by one and never taken away.
Joined(g) == [realm EXCEPT !.users[cur].groups = @ \cup {g}]

MayJoin(g) == g \in seen /\ realm.users[cur] # None

JoinGroup(g) ==
    /\ g \in left
    /\ MayJoin(g)
    /\ Call("member", Joined(g), "member")
    /\ left' = left \ {g}
    /\ UNCHANGED <<todo, seen, cur>>

UserDone ==
    /\ left = {}
    /\ Call("member", realm, "user")
    /\ cur' = None
    /\ UNCHANGED <<todo, seen, left>>

UsersDone ==
    /\ pc = "user"
    /\ todo = {}
    /\ Return
    /\ UNCHANGED <<ws, realm, themeFile, themeLive, touched, events>>

----------------------------------------------------------------------------
(* Failures and the world outside                                          *)

\* What Keycloak, or the code on its answer, refuses: a group that exists by now, a missing
\* admin group, realm, group or user, a user whose name is taken.
Refusal ==
    \/ pc = "group" /\ \E g \in realm.groups \ seen : Turn(Groups, g)
    \/ pc = "grant" /\ AdminGroup \notin realm.groups
    \/ pc = "readIDs" /\ ~realm.exists
    \/ pc = "user" /\ \E u \in todo : NameTaken(u)
    \/ pc = "member" /\ \E g \in left : ~MayJoin(g)

Refused ==
    /\ Refusal
    /\ Error
    /\ UNCHANGED <<ws, realm, themeFile, themeLive, touched, events>>

\* The realm after a call whose answer is lost.
Effects ==
    CASE pc = "realm"    -> {RealmCreated}
      [] pc = "smtp"     -> {WithSMTP}
      [] pc = "group"    -> {WithGroup(g) : g \in {h \in Group : MayCreate(h)}}
      [] pc = "grant"    -> IF AdminGroup \in realm.groups THEN {Managing} ELSE {}
      [] pc = "client"   -> {Upserted(c) : c \in {d \in Client : Turn(Clients, d)}}
      [] pc = "mapper"   -> {Mapped(c) : c \in {d \in Client : Turn(Clients, d)}}
      [] pc = "ensure"   -> {Upserted(c) : c \in {d \in Client : Turn(Later, d)}}
      [] pc = "audience" -> {WithAudience(c) : c \in {d \in Client : Turn(Later, d)}}
      [] pc = "user"     -> {Ensured(u) : u \in {v \in todo : ~NameTaken(v)}}
      [] pc = "member"   -> {Joined(g) : g \in {h \in left : MayJoin(h)}}
      [] OTHER           -> {}

\* The call takes effect, its answer is lost, and the command ends.
Lost ==
    /\ Event
    /\ realm' \in Effects
    /\ Error
    /\ UNCHANGED <<ws, themeFile, themeLive, touched>>

\* A call fails, or the command dies between two calls.
Cut ==
    /\ pc # "idle"
    /\ Event
    /\ Error
    /\ UNCHANGED <<ws, realm, themeFile, themeLive, touched>>

\* Without group g nobody is in it, and the roles it was given are gone.
WithoutGroup(g) ==
    [realm EXCEPT
        !.groups  = @ \ {g},
        !.manages = @ /\ g # AdminGroup,
        !.users   = [u \in User |-> IF realm.users[u] = None THEN None
                                    ELSE [realm.users[u] EXCEPT !.groups = @ \ {g}]]]

\* The tenant's admin changes users and groups in Keycloak's console.
ConsoleRealms ==
    {WithoutGroup(g) : g \in realm.groups}
    \cup {[realm EXCEPT !.groups = @ \cup {g}] : g \in IF realm.exists THEN Group ELSE {}}
    \cup {[realm EXCEPT !.users[u] = a] :
             u \in {v \in User : realm.users[v] # None},
             a \in {None} \cup [groups : SUBSET realm.groups, enabled : BOOLEAN, renamed : BOOLEAN]}

\* users apply joins by the group's id, and a group made anew has another one.
Console ==
    /\ Event
    /\ realm' \in ConsoleRealms \ {realm}
    /\ seen' = IF cmd = "users" THEN seen \cap realm'.groups ELSE seen
    /\ touched' = TRUE
    /\ done' = None
    /\ UNCHANGED <<ws, themeFile, themeLive, pc, cmd, todo, cur, left>>

\* Keycloak is rebuilt with an empty database; the theme's files stay on the host.
Rebuild ==
    /\ pc = "idle"
    /\ Event
    /\ realm' = Empty
    /\ themeLive' = themeFile
    /\ done' = None
    /\ UNCHANGED <<ws, themeFile, pc, local, touched>>

\* The tenant's file, its users file, or the release of mksrv changes.
EditWorkspace ==
    /\ pc = "idle"
    /\ Event
    /\ \/ \E S \in SUBSET {"openbao", "web"} : ws' = [ws EXCEPT !.extra = S, !.hosts = @ + 1]
       \/ ws' = [ws EXCEPT !.smtp = ~@, !.brand = @ + 1]
       \/ ws' = [ws EXCEPT !.release = @ + 1]
       \/ \E u \in User, d \in Declared \cup {None} : ws' = [ws EXCEPT !.users[u] = d]
    /\ done' = None
    /\ UNCHANGED <<realm, themeFile, themeLive, pc, local, touched>>

----------------------------------------------------------------------------
Step ==
    \/ EnsureRealm \/ SetSMTP \/ ReadGroups
    \/ (\E g \in Group : SkipGroup(g) \/ CreateGroup(g) \/ JoinGroup(g))
    \/ GroupsDone \/ GrantTeamManagement
    \/ (\E c \in Client :
           UpsertClient(c) \/ ApplyClaimMapper(c) \/ EnsureClient(c) \/ EnsureAudienceMapper(c))
    \/ ClientsDone \/ MappersDone \/ ClientsEnsured \/ WriteTheme \/ RestartKeycloak
    \/ ReadGroupIDs \/ (\E u \in User : EnsureUser(u)) \/ UserDone \/ UsersDone
    \/ Refused

Next == StartTenant \/ StartUsers \/ Step \/ Lost \/ Cut \/ Console \/ Rebuild \/ EditWorkspace

Spec == Init /\ [][Next]_vars

(***************************************************************************)
(* A command goes on by itself, and the operator runs tenant apply and     *)
(* users apply again and again.                                            *)
(***************************************************************************)
FairSpec == Spec /\ WF_vars(Step) /\ SF_vars(StartTenant) /\ SF_vars(StartUsers)

----------------------------------------------------------------------------
\* The realm has what the tenant's file asks for.
RealmReconciled ==
    /\ realm.exists /\ realm.themed
    /\ ws.smtp => realm.smtp
    /\ realm.groups = Group /\ realm.manages
    /\ \A c \in Wanted : realm.clients[c] = ws.hosts
    /\ Wanted \ {"configd"} \subseteq realm.claims
    /\ ws.extra \subseteq realm.audience
    /\ realm.role["vpn"] # None

\* The users file's users are there, in the groups it names.
UsersReconciled ==
    \A u \in User : ws.users[u] # None =>
        /\ Found(u)
        /\ realm.users[u].enabled = Enabled(ws.users[u])
        /\ ws.users[u].groups \subseteq realm.users[u].groups

(***************************************************************************)
(* A command that reported success left what it was run for as the         *)
(* workspace says, unless the console was used meanwhile: the realm, its   *)
(* clients, their claims and the login theme Keycloak shows; the users,    *)
(* their state and their groups.  Only the role in the token may be that   *)
(* of an earlier release.                                                  *)
(***************************************************************************)
OkMeansReconciled ==
    /\ done = "tenant" /\ ~touched =>
          RealmReconciled /\ themeLive = ws.brand
    /\ done = "users" /\ ~touched => UsersReconciled

(***************************************************************************)
(* However calls fail, answers get lost and the console is used, an        *)
(* operator who repeats both commands gets the realm and its users as      *)
(* declared, unless a declared user's address was changed in the console:  *)
(* its name is taken and users apply fails for good.                       *)
(***************************************************************************)
RetriesReconcile ==
    \/ <>[](\E u \in User : ws.users[u] # None /\ NameTaken(u))
    \/ []<>(RealmReconciled /\ UsersReconciled /\ themeLive = ws.brand)

(***************************************************************************)
(* docs/reference/rbac.md: `mksrv users apply <id>` reconciles membership. *)
(***************************************************************************)
MembershipReconciled ==
    done = "users" /\ ~touched =>
        \A u \in User : ws.users[u] # None => realm.users[u].groups = ws.users[u].groups

=============================================================================
