------------------------------ MODULE Configd ------------------------------
(***************************************************************************)
(* The broker configd (internal/configd): GET /v1/clientconfig checks a    *)
(* Keycloak access token against the realm's JWKS, which it caches for an  *)
(* hour, and mints a Headscale pre-auth key for the realm's tenant.        *)
(*                                                                         *)
(* net/http runs one goroutine per request, so requests interleave at      *)
(* every call the handler makes: the lookup in the cache, the fetch of the *)
(* JWKS, the store into the cache, the two calls to Headscale.  Meanwhile  *)
(* Keycloak publishes and withdraws keys, Headscale may be relaunched with *)
(* an empty database, and `mksrv tenant apply` restarts the broker.        *)
(*                                                                         *)
(* Time is counted in ticks and kept as ages that stop growing where       *)
(* nothing tells them apart any more.  Whether a token is well formed,     *)
(* unexpired, correctly signed and in a VPN group is decided where the     *)
(* code looks at it.                                                       *)
(***************************************************************************)
EXTENDS Integers, FiniteSets

CONSTANTS
    Request,    \* requests in progress at one time
    Realm,      \* the issuers of the roster; each is one tenant and its Headscale user
    Key,        \* signing keys of Keycloak, named by their kid
    RealmOf,    \* the realm a key belongs to
    TTL,        \* how long the cache answers: time.Hour
    Timeout,    \* the Timeout of the http.Client
    None

ASSUME RealmsAssumption == IsFiniteSet(Realm) /\ RealmOf \in [Key -> Realm]
ASSUME TimesAssumption == TTL \in Nat \ {0} /\ Timeout \in Nat \ {0}
ASSUME NoneAssumption == None \notin [iss : Realm, kid : Key]

VARIABLES
    gone,    \* Keycloak: ticks since a key left the realm's JWKS, -1 while it is in it
    cache,   \* Verifier.keys: per issuer what was fetched, and how long ago it was stored
    pc,      \* per request: where its handler is, or the answer it gave
    tok,     \* per request: issuer and kid of the token
    got,     \* per request: the keys of the JWKS reply it read
    age,     \* per request: ticks since it sent the JWKS request
    id,      \* per request: the Headscale user id it looked up
    kept,    \* per request, history: the key was published all along
    uid,     \* Headscale: the id of every user
    apikey   \* Headscale accepts the API key the broker was started with

req  == <<pc, tok, got, age, id, kept>>
hs   == <<uid, apikey>>
vars == <<gone, cache, req, hs>>

Waiting  == {"jwks", "user", "mint"}
Handling == Waiting \cup {"store"}

\* Answers: a signed configuration; 401 for an unknown key; any other refusal,
\* also when no request was made yet or the broker was stopped meanwhile.
Answer == {"issued", "nokey", "refused"}

\* Longer ago than any answer may still depend on.
Old == TTL + Timeout + 1
Id  == 1..Cardinality(Realm)

TypeOK ==
    /\ gone \in [Key -> -1..Old]
    /\ cache \in [Realm -> [keys : SUBSET Key, age : 0..TTL] \cup {None}]
    /\ pc \in [Request -> Handling \cup Answer]
    /\ tok \in [Request -> [iss : Realm, kid : Key] \cup {None}]
    /\ got \in [Request -> SUBSET Key]
    /\ age \in [Request -> 0..Timeout]
    /\ id \in [Request -> Id \cup {None}]
    /\ kept \in [Request -> BOOLEAN]
    /\ uid \in [Realm -> Id \cup {None}]
    /\ apikey \in BOOLEAN

----------------------------------------------------------------------------
Published(r) == {k \in Key : RealmOf[k] = r /\ gone[k] = -1}

Init ==
    /\ gone \in [Key -> {-1, Old}]
    /\ cache = [r \in Realm |-> None]
    /\ pc = [q \in Request |-> "refused"]
    /\ tok = [q \in Request |-> None]
    /\ got = [q \in Request |-> {}]
    /\ age = [q \in Request |-> 0]
    /\ id = [q \in Request |-> None]
    /\ kept = [q \in Request |-> FALSE]
    /\ uid = [r \in Realm |-> None]
    /\ apikey = TRUE

\* The handler answers and is over.
Reply(q, answer) ==
    /\ pc' = [pc EXCEPT ![q] = answer]
    /\ tok' = [tok EXCEPT ![q] = None]
    /\ got' = [got EXCEPT ![q] = {}]
    /\ age' = [age EXCEPT ![q] = 0]
    /\ id' = [id EXCEPT ![q] = None]

\* Verify has the key: signature, then VPN group, then the calls to Headscale.
HaveKey(q, t) ==
    /\ \/ Reply(q, "refused")
       \/ /\ pc' = [pc EXCEPT ![q] = "user"]
          /\ tok' = [tok EXCEPT ![q] = t]
          /\ got' = [got EXCEPT ![q] = {}]
          /\ age' = [age EXCEPT ![q] = 0]
          /\ UNCHANGED id
    /\ kept' = [kept EXCEPT ![q] = FALSE]

----------------------------------------------------------------------------
\* No token, a malformed or expired one, another algorithm, an unknown issuer.
Refuse(q) ==
    /\ pc[q] \in Answer
    /\ Reply(q, "refused")
    /\ kept' = [kept EXCEPT ![q] = FALSE]
    /\ UNCHANGED <<gone, cache, hs>>

\* Mutant: an entry never goes stale.
Cached_Forever(r) == IF cache[r] # None THEN cache[r].keys ELSE {}

\* The keys the cache answers for: the entry of the issuer, if it is fresh.
Cached(r) == IF cache[r] # None /\ cache[r].age < TTL THEN cache[r].keys ELSE {}

\* Mutant: a fresh entry without the key is taken as the answer.
Missing_Negative(q, t) ==
    /\ IF cache[t.iss] # None /\ cache[t.iss].age < TTL
       THEN Reply(q, "nokey")
       ELSE pc' = [pc EXCEPT ![q] = "jwks"] /\ tok' = [tok EXCEPT ![q] = t]
            /\ UNCHANGED <<got, age, id>>
    /\ kept' = [kept EXCEPT ![q] = t.kid \in Published(t.iss)]

\* A key the cache does not answer for is looked up in a new JWKS.
Missing(q, t) ==
    /\ pc' = [pc EXCEPT ![q] = "jwks"]
    /\ tok' = [tok EXCEPT ![q] = t]
    /\ kept' = [kept EXCEPT ![q] = t.kid \in Published(t.iss)]
    /\ UNCHANGED <<got, age, id>>

\* A request arrives; Verify runs up to keyFor and its first look at the cache.
Arrive(q, t) ==
    /\ pc[q] \in Answer
    /\ IF t.kid \in Cached(t.iss) THEN HaveKey(q, t) ELSE Missing(q, t)
    /\ UNCHANGED <<gone, cache, hs>>

\* fetchJWKS: Keycloak's answer is what the realm publishes at that moment.
fetchJWKS(q) ==
    /\ pc[q] = "jwks"
    /\ pc' = [pc EXCEPT ![q] = "store"]
    /\ got' = [got EXCEPT ![q] = Published(tok[q].iss)]
    /\ UNCHANGED <<gone, cache, tok, age, id, kept, hs>>

\* The reply replaces the entry, under the time of the store.
Stored(q) == [cache EXCEPT ![tok[q].iss] = [keys |-> got[q], age |-> 0]]

StoreKeys(q) ==
    /\ pc[q] = "store"
    /\ cache' = Stored(q)
    /\ IF tok[q].kid \in got[q] THEN HaveKey(q, tok[q]) ELSE Reply(q, "nokey") /\ UNCHANGED kept
    /\ UNCHANGED <<gone, hs>>

\* Mutant: a user that is not in the list has the zero id.
Listed_Zero(r) == {IF uid[r] = None THEN 0 ELSE uid[r]}

\* Mutant: the loop falls through to an id when the user is not in the list.
Listed_Any(r) == IF uid[r] # None THEN {uid[r]} ELSE {uid[s] : s \in Realm} \ {None}

\* The ids the list of users gives for the tenant's user.
Listed(r) == {uid[r]} \ {None}

userID(q) ==
    /\ pc[q] = "user"
    /\ apikey
    /\ \E n \in Listed(tok[q].iss) : id' = [id EXCEPT ![q] = n]
    /\ pc' = [pc EXCEPT ![q] = "mint"]
    /\ UNCHANGED <<gone, cache, tok, got, age, kept, hs>>

\* Headscale mints for the user that has the id now; the broker signs and answers.
PreAuthKey(q) ==
    /\ pc[q] = "mint"
    /\ apikey
    /\ \E r \in Realm : uid[r] = id[q]
    /\ Reply(q, "issued")
    /\ UNCHANGED <<gone, cache, kept, hs>>

\* Mutant: a client without a Timeout waits for Headscale as long as it takes.
TimesOut_JWKS(q) == pc[q] = "jwks"

\* The calls a timeout, a refusal or a broken connection ends.
TimesOut(q) == pc[q] \in Waiting

CallFails(q) ==
    /\ TimesOut(q)
    /\ Reply(q, "refused")
    /\ kept' = [kept EXCEPT ![q] = FALSE]
    /\ UNCHANGED <<gone, cache, hs>>

----------------------------------------------------------------------------
\* Time passes, but no JWKS request lives longer than its client's Timeout.
Tick ==
    /\ \A q \in Request : pc[q] \in {"jwks", "store"} => age[q] < Timeout
    /\ gone' = [k \in Key |-> IF gone[k] \in 0..(Old - 1) THEN gone[k] + 1 ELSE gone[k]]
    /\ cache' = [r \in Realm |-> IF cache[r] # None /\ cache[r].age < TTL
                                 THEN [cache[r] EXCEPT !.age = @ + 1] ELSE cache[r]]
    /\ age' = [q \in Request |-> IF pc[q] \in {"jwks", "store"} THEN age[q] + 1 ELSE 0]
    /\ UNCHANGED <<pc, tok, got, id, kept, hs>>

\* Keycloak.
Publish(k) ==
    /\ gone[k] # -1
    /\ gone' = [gone EXCEPT ![k] = -1]
    /\ UNCHANGED <<cache, req, hs>>

Withdraw(k) ==
    /\ gone[k] = -1
    /\ gone' = [gone EXCEPT ![k] = 0]
    /\ kept' = [q \in Request |-> kept[q] /\ (tok[q] # None => tok[q].kid # k)]
    /\ UNCHANGED <<cache, pc, tok, got, age, id, hs>>

\* tenant apply creates the Headscale user; ids count up and are not reused.
EnsureUser(r) ==
    /\ uid[r] = None
    /\ uid' = [uid EXCEPT ![r] = 1 + Cardinality({s \in Realm : uid[s] # None})]
    /\ UNCHANGED <<gone, cache, req, apikey>>

\* The edge is relaunched with a fresh Headscale: users and API keys are gone.
HeadscaleRebuilt ==
    /\ uid' = [r \in Realm |-> None]
    /\ apikey' = FALSE
    /\ UNCHANGED <<gone, cache, req>>

\* tenant apply expires the API key, some time before it restarts the broker.
ExpireAPIKeys ==
    /\ apikey' = FALSE
    /\ UNCHANGED <<gone, cache, req, uid>>

\* tenant apply restarts the broker with a new API key; what it was doing is lost.
Restart ==
    /\ cache' = [r \in Realm |-> None]
    /\ apikey' = TRUE
    /\ pc' = [q \in Request |-> IF pc[q] \in Handling THEN "refused" ELSE pc[q]]
    /\ tok' = [q \in Request |-> None]
    /\ got' = [q \in Request |-> {}]
    /\ age' = [q \in Request |-> 0]
    /\ id' = [q \in Request |-> None]
    /\ kept' = [q \in Request |-> FALSE]
    /\ UNCHANGED <<gone, uid>>

----------------------------------------------------------------------------
Handle(q) == fetchJWKS(q) \/ StoreKeys(q) \/ userID(q) \/ PreAuthKey(q) \/ CallFails(q)

Next ==
    \/ \E q \in Request :
          \/ Refuse(q)
          \/ \E r \in Realm, k \in Key : Arrive(q, [iss |-> r, kid |-> k])
          \/ Handle(q)
    \/ Tick
    \/ \E k \in Key : Publish(k) \/ Withdraw(k)
    \/ \E r \in Realm : EnsureUser(r)
    \/ HeadscaleRebuilt \/ ExpireAPIKeys \/ Restart

Spec == Init /\ [][Next]_vars

\* The scheduler runs every handler, and every call is answered or times out.
Fairness == \A q \in Request : WF_vars(StoreKeys(q) \/ CallFails(q))

FairSpec == Spec /\ Fairness

----------------------------------------------------------------------------
(***************************************************************************)
(* A token is accepted only under a key of its own issuer that the realm   *)
(* published no longer ago than the cache's hour and one request's         *)
(* timeout, although a late reply may overwrite a newer entry under a new  *)
(* timestamp.                                                              *)
(***************************************************************************)
AcceptedKeyIsRecent ==
    [][\A q \in Request : pc[q] # "user" /\ pc'[q] = "user" =>
          LET t == tok'[q] IN RealmOf[t.kid] = t.iss /\ gone[t.kid] <= TTL + Timeout]_vars

(***************************************************************************)
(* A request whose key the realm published all the time it was handled is  *)
(* not refused for an unknown key, however old the cache and whatever      *)
(* other requests store into it.                                           *)
(***************************************************************************)
NoStaleRefusal == \A q \in Request : pc[q] = "nokey" => ~kept[q]

(***************************************************************************)
(* The pre-auth key in an issued configuration enrols into the tailnet of  *)
(* the tenant whose realm issued the token, although the user id was       *)
(* looked up in one call and used in another: an id is one user's, and     *)
(* changes only with a rebuilt Headscale, which no longer accepts the      *)
(* broker's API key.                                                       *)
(***************************************************************************)
MintedForOwnTenant ==
    [][\A q \in Request : pc[q] = "mint" /\ pc'[q] = "issued" =>
          {r \in Realm : uid[r] = id[q]} = {tok[q].iss}]_vars

(***************************************************************************)
(* Every request is answered, whatever Keycloak and Headscale do.          *)
(***************************************************************************)
AllAnswered == \A q \in Request : pc[q] \in Handling ~> pc[q] \in Answer

=============================================================================
