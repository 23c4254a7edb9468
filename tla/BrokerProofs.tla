---------------------------- MODULE BrokerProofs ----------------------------
(***************************************************************************)
(* Proofs about the broker: Configd, for any number of requests at a time, *)
(* of realms and of signing keys and for any lifetime of the cache and     *)
(* timeout of a request, and then ConfigdRollout.                          *)
(***************************************************************************)
EXTENDS Configd, ConfigdRollout, FiniteSetTheorems, TLAPS

USE DEF req, hs

----------------------------------------------------------------------------
(***************************************************************************)
(* The inductive invariant.                                                *)
(***************************************************************************)

Token == [iss : Realm, kid : Key]

\* A request that is being handled has a token.
TokenInv == \A q \in Request : pc[q] \in Handling => tok[q] \in Token

\* What a reply or a cache entry holds are keys of its realm; those of a reply
\* left the JWKS no longer ago than the request was sent, those of an entry that
\* still answers no longer ago than its age and one timeout.
RecentInv ==
    /\ \A q \in Request : pc[q] = "store" =>
          \A k \in got[q] : RealmOf[k] = tok[q].iss /\ gone[k] <= age[q]
    /\ \A r \in Realm : cache[r] # None =>
          \A k \in cache[r].keys :
              /\ RealmOf[k] = r
              /\ cache[r].age < TTL => gone[k] <= cache[r].age + Timeout

\* A key that was published all along is published still, or in the reply.
KeptInv ==
    \A q \in Request : kept[q] =>
        \/ pc[q] = "jwks" /\ tok[q].kid \in Published(tok[q].iss)
        \/ pc[q] = "store" /\ tok[q].kid \in got[q]

\* The id a request has looked up is its tenant's, as long as Headscale accepts
\* the broker's API key.
MintInv ==
    \A q \in Request : pc[q] = "mint" =>
        id[q] # None /\ (apikey => uid[tok[q].iss] = id[q])

Assigned == {r \in Realm : uid[r] # None}

\* The ids given out are the first ones, each given once.
IdsInv ==
    /\ \A r \in Assigned : uid[r] \in 1..Cardinality(Assigned)
    /\ \A r, s \in Assigned : uid[r] = uid[s] => r = s

IInv == TypeOK /\ TokenInv /\ RecentInv /\ KeptInv /\ MintInv /\ IdsInv

----------------------------------------------------------------------------
(***************************************************************************)
(* Facts about the operators.                                              *)
(***************************************************************************)

\* The step of one request leaves the others as they are.
Alone(q) ==
    \A p \in Request \ {q} :
        /\ pc'[p] = pc[p] /\ tok'[p] = tok[p] /\ got'[p] = got[p]
        /\ age'[p] = age[p] /\ id'[p] = id[p] /\ kept'[p] = kept[p]

\* The variables of the requests are well typed.
RequestsOK ==
    /\ pc \in [Request -> Handling \cup Answer]
    /\ tok \in [Request -> Token \cup {None}]
    /\ got \in [Request -> SUBSET Key]
    /\ age \in [Request -> 0..Timeout]
    /\ id \in [Request -> Id \cup {None}]
    /\ kept \in [Request -> BOOLEAN]

\* There are as many ids as realms.
LEMMA Ids == Cardinality(Realm) \in Nat /\ IsFiniteSet(Realm)
BY RealmsAssumption, FS_CardinalityType

\* A handler that answers is over.
LEMMA ReplyFrame ==
    ASSUME TypeOK, NEW q \in Request, NEW a \in Answer, Reply(q, a),
           kept' = kept \/ kept' = [kept EXCEPT ![q] = FALSE]
    PROVE  /\ pc'[q] = a /\ tok'[q] = None /\ got'[q] = {} /\ age'[q] = 0 /\ id'[q] = None
           /\ Alone(q)
           /\ RequestsOK'
<1>1. /\ \A p \in Request \ {q} : kept'[p] = kept[p]
      /\ kept' \in [Request -> BOOLEAN]
  BY Zenon DEF TypeOK
<1>2. 0 \in 0..Timeout
  BY TimesAssumption
<1> QED BY <1>1, <1>2 DEF TypeOK, Reply, Alone, RequestsOK, Token

\* A handler that has its key is over, or goes on to Headscale with the token.
LEMMA HaveKeyFrame ==
    ASSUME TypeOK, NEW q \in Request, NEW t \in Token, HaveKey(q, t)
    PROVE  /\ \/ pc'[q] = "refused"
              \/ pc'[q] = "user" /\ tok'[q] = t
           /\ ~kept'[q]
           /\ Alone(q)
           /\ RequestsOK'
<1>1. ~kept'[q] /\ kept' = [kept EXCEPT ![q] = FALSE]
  BY Zenon DEF TypeOK, HaveKey
<1>2. CASE Reply(q, "refused")
  BY <1>1, <1>2, ReplyFrame DEF Answer
<1>3. CASE /\ pc' = [pc EXCEPT ![q] = "user"]
           /\ tok' = [tok EXCEPT ![q] = t]
           /\ got' = [got EXCEPT ![q] = {}]
           /\ age' = [age EXCEPT ![q] = 0]
           /\ UNCHANGED id
  <2>1. /\ \A p \in Request \ {q} : kept'[p] = kept[p]
        /\ kept' \in [Request -> BOOLEAN]
    BY <1>1, Zenon DEF TypeOK
  <2>2. 0 \in 0..Timeout
    BY TimesAssumption
  <2> QED BY <1>1, <1>3, <2>1, <2>2 DEF TypeOK, Alone, RequestsOK, Token, Handling, Waiting
<1> QED BY <1>2, <1>3 DEF HaveKey

\* A request whose key is not cached waits for a JWKS.
LEMMA MissingFrame ==
    ASSUME TypeOK, NEW q \in Request, NEW t \in Token, Missing(q, t)
    PROVE  /\ pc'[q] = "jwks" /\ tok'[q] = t
           /\ kept'[q] => t.kid \in Published(t.iss)
           /\ Alone(q)
           /\ RequestsOK'
<1>1. /\ \A p \in Request \ {q} : kept'[p] = kept[p]
      /\ kept' \in [Request -> BOOLEAN]
      /\ kept'[q] => t.kid \in Published(t.iss)
  <2> DEFINE b == t.kid \in Published(t.iss)
  <2>1. kept' = [kept EXCEPT ![q] = b] /\ kept \in [Request -> BOOLEAN]
    BY DEF Missing, TypeOK
  <2>2. b \in BOOLEAN
    OBVIOUS
  <2> HIDE DEF b
  <2>3. \A p \in Request \ {q} : kept'[p] = kept[p]
    BY <2>1, Zenon
  <2>4. kept' \in [Request -> BOOLEAN]
    BY <2>1, <2>2, Zenon
  <2>5. kept'[q] = b
    BY <2>1, Zenon
  <2> QED BY <2>3, <2>4, <2>5 DEF b
<1> QED BY <1>1 DEF TypeOK, Missing, Alone, RequestsOK, Token, Handling, Waiting

\* One case per action, for the proofs below.
LEMMA NextCases ==
    ASSUME Next
    PROVE  \/ \E q \in Request :
                 \/ Refuse(q)
                 \/ \E t \in Token : Arrive(q, t)
                 \/ fetchJWKS(q) \/ StoreKeys(q) \/ userID(q) \/ PreAuthKey(q) \/ CallFails(q)
           \/ Tick
           \/ \E k \in Key : Publish(k) \/ Withdraw(k)
           \/ \E r \in Realm : EnsureUser(r)
           \/ HeadscaleRebuilt \/ ExpireAPIKeys \/ Restart
<1>1. ASSUME NEW q \in Request, NEW r \in Realm, NEW k \in Key, Arrive(q, [iss |-> r, kid |-> k])
      PROVE  \E t \in Token : Arrive(q, t)
  <2> DEFINE t == [iss |-> r, kid |-> k]
  <2>1. t \in Token
    BY DEF Token
  <2> HIDE DEF t
  <2>2. Arrive(q, t)
    BY <1>1 DEF t
  <2> QED BY <2>1, <2>2
<1> QED BY <1>1 DEF Next, Handle

\* What each step of a handler does to its request, and that it does nothing to
\* the others.
LEMMA RequestStep ==
    ASSUME IInv, NEW q \in Request,
           \/ Refuse(q)
           \/ \E t \in Token : Arrive(q, t)
           \/ fetchJWKS(q) \/ StoreKeys(q) \/ userID(q) \/ PreAuthKey(q) \/ CallFails(q)
    PROVE  /\ UNCHANGED <<gone, hs>>
           /\ Alone(q)
           /\ RequestsOK'
           /\ \/ pc'[q] \in {"refused", "issued"} /\ (kept'[q] => kept[q] /\ pc[q] = "mint")
              \/ /\ pc'[q] = "nokey" /\ pc[q] = "store" /\ kept'[q] = kept[q]
                 /\ tok[q].kid \notin got[q]
              \/ /\ pc'[q] = "jwks" /\ tok'[q] \in Token
                 /\ kept'[q] => tok'[q].kid \in Published(tok'[q].iss)
              \/ /\ pc'[q] = "store" /\ pc[q] = "jwks" /\ got'[q] = Published(tok[q].iss)
                 /\ tok'[q] = tok[q] /\ kept'[q] = kept[q] /\ age'[q] = age[q]
              \/ /\ pc'[q] = "user" /\ tok'[q] \in Token /\ ~kept'[q]
                 /\ \/ pc[q] \in Answer /\ tok'[q].kid \in Cached(tok'[q].iss)
                    \/ pc[q] = "store" /\ tok'[q] = tok[q] /\ tok[q].kid \in got[q]
              \/ /\ pc'[q] = "mint" /\ pc[q] = "user" /\ tok'[q] = tok[q] /\ kept'[q] = kept[q]
                 /\ id'[q] # None /\ id'[q] = uid[tok[q].iss]
           /\ (\E r \in Realm : cache'[r] # cache[r]) => pc[q] = "store" /\ cache' = Stored(q)
<1> USE DEF IInv
<1>1. CASE Refuse(q) \/ CallFails(q)
  <2>1. /\ Reply(q, "refused") /\ kept' = [kept EXCEPT ![q] = FALSE]
        /\ UNCHANGED <<gone, hs, cache>>
    BY <1>1 DEF Refuse, CallFails
  <2>2. ~kept'[q]
    BY <2>1, Zenon DEF TypeOK
  <2> QED BY <2>1, <2>2, ReplyFrame DEF Answer
<1>2. ASSUME NEW t \in Token, Arrive(q, t), t.kid \in Cached(t.iss)
      PROVE  /\ UNCHANGED <<gone, hs, cache>> /\ HaveKey(q, t) /\ pc[q] \in Answer
  BY <1>2, Zenon DEF Arrive
<1>3. ASSUME NEW t \in Token, Arrive(q, t), t.kid \notin Cached(t.iss)
      PROVE  /\ UNCHANGED <<gone, hs, cache>> /\ Missing(q, t)
  BY <1>3, Zenon DEF Arrive
<1>4. CASE \E t \in Token : Arrive(q, t)
  <2>1. PICK t \in Token : Arrive(q, t)
    BY <1>4
  <2>2. CASE t.kid \in Cached(t.iss)
    <3>1. /\ pc'[q] = "refused" \/ (pc'[q] = "user" /\ tok'[q] = t)
          /\ ~kept'[q] /\ Alone(q) /\ RequestsOK'
      BY <1>2, <2>1, <2>2, HaveKeyFrame
    <3> QED BY <1>2, <2>1, <2>2, <3>1
  <2>3. CASE t.kid \notin Cached(t.iss)
    <3>1. /\ pc'[q] = "jwks" /\ tok'[q] = t /\ (kept'[q] => t.kid \in Published(t.iss))
          /\ Alone(q) /\ RequestsOK'
      BY <1>3, <2>1, <2>3, MissingFrame
    <3> QED BY <1>3, <2>1, <2>3, <3>1
  <2> QED BY <2>2, <2>3
<1>5. CASE fetchJWKS(q)
  BY <1>5 DEF fetchJWKS, TypeOK, Alone, RequestsOK, Token, Handling, Published
<1>6. CASE StoreKeys(q) /\ tok[q].kid \in got[q]
  <2>1. /\ pc[q] = "store" /\ cache' = Stored(q) /\ HaveKey(q, tok[q]) /\ UNCHANGED <<gone, hs>>
    BY <1>6, Zenon DEF StoreKeys
  <2>2. tok[q] \in Token
    BY <2>1 DEF TokenInv, Handling
  <2> QED BY <1>6, <2>1, <2>2, HaveKeyFrame
<1>7. CASE StoreKeys(q) /\ tok[q].kid \notin got[q]
  <2>1. /\ pc[q] = "store" /\ cache' = Stored(q) /\ Reply(q, "nokey") /\ UNCHANGED <<gone, hs, kept>>
    BY <1>7, Zenon DEF StoreKeys
  <2> QED BY <1>7, <2>1, ReplyFrame DEF Answer
<1>8. CASE userID(q)
  <2>1. PICK n \in Listed(tok[q].iss) : id' = [id EXCEPT ![q] = n]
    BY <1>8 DEF userID
  <2>2. tok[q] \in Token
    BY <1>8 DEF userID, TokenInv, Handling, Waiting
  <2>3. n = uid[tok[q].iss] /\ n # None /\ n \in Id
    BY <2>2 DEF Listed, TypeOK, Token
  <2>4. /\ pc[q] = "user" /\ pc' = [pc EXCEPT ![q] = "mint"]
        /\ UNCHANGED <<gone, cache, tok, got, age, kept, hs>>
    BY <1>8 DEF userID
  <2>5. Alone(q) /\ RequestsOK'
    BY <2>1, <2>3, <2>4 DEF TypeOK, Alone, RequestsOK, Token, Handling, Waiting
  <2>6. id'[q] = n /\ pc'[q] = "mint"
    BY <2>1, <2>4 DEF TypeOK
  <2> QED BY <2>3, <2>4, <2>5, <2>6
<1>9. CASE PreAuthKey(q)
  <2>1. /\ pc[q] = "mint" /\ Reply(q, "issued") /\ UNCHANGED <<gone, hs, cache, kept>>
    BY <1>9 DEF PreAuthKey
  <2> QED BY <2>1, ReplyFrame DEF Answer
<1> QED BY <1>1, <1>4, <1>5, <1>6, <1>7, <1>8, <1>9

----------------------------------------------------------------------------
(***************************************************************************)
(* Type correctness.                                                       *)
(***************************************************************************)

\* Every initial state is well typed.
LEMMA TypeInit == Init => TypeOK
<1> SUFFICES ASSUME Init PROVE TypeOK
  OBVIOUS
<1>1. -1 \in -1..Old /\ Old \in -1..Old /\ 0 \in 0..Timeout
  BY TimesAssumption DEF Old
<1>2. kept \in [Request -> BOOLEAN] /\ apikey \in BOOLEAN
  BY Zenon DEF Init
<1>3. gone \in [Key -> -1..Old]
  BY <1>1 DEF Init
<1> QED BY <1>1, <1>2, <1>3 DEF Init, TypeOK, Answer

\* The id of a new user is one of the realms' ids.
LEMMA NewId ==
    ASSUME NEW r \in Realm, uid[r] = None
    PROVE  /\ Cardinality(Assigned) \in Nat
           /\ 1 + Cardinality(Assigned) \in Id
<1>1. Assigned \subseteq Realm \ {r} /\ IsFiniteSet(Realm \ {r})
  BY Ids, FS_RemoveElement DEF Assigned
<1>2. Cardinality(Realm \ {r}) = Cardinality(Realm) - 1
  BY Ids, FS_RemoveElement
<1>3. /\ Cardinality(Assigned) \in Nat
      /\ Cardinality(Assigned) <= Cardinality(Realm \ {r})
  BY <1>1, FS_Subset, FS_CardinalityType
<1> QED BY <1>2, <1>3, Ids DEF Id

\* Every step of a handler, of Keycloak, of Headscale or of time keeps the types.
LEMMA TypeStep == ASSUME IInv, Next PROVE TypeOK'
<1> USE DEF IInv
<1>1. ASSUME NEW q \in Request,
             \/ Refuse(q)
             \/ \E t \in Token : Arrive(q, t)
             \/ fetchJWKS(q) \/ StoreKeys(q) \/ userID(q) \/ PreAuthKey(q) \/ CallFails(q)
      PROVE  TypeOK'
  <2>1. UNCHANGED <<gone, uid, apikey>> /\ RequestsOK'
    BY <1>1, RequestStep
  <2>2. CASE StoreKeys(q)
    <3>1. tok[q].iss \in Realm /\ got[q] \in SUBSET Key
      BY <2>2 DEF StoreKeys, TokenInv, Token, Handling, TypeOK
    <3>2. 0 \in 0..TTL
      BY TimesAssumption
    <3>3. cache' \in [Realm -> [keys : SUBSET Key, age : 0..TTL] \cup {None}]
      BY <2>2, <3>1, <3>2 DEF StoreKeys, Stored, TypeOK
    <3> QED BY <2>1, <3>3 DEF TypeOK, RequestsOK, Token
  <2>3. CASE ~StoreKeys(q)
    <3>1. cache' = cache
      BY <1>1, <2>3 DEF Refuse, Arrive, fetchJWKS, userID, PreAuthKey, CallFails
    <3> QED BY <2>1, <3>1 DEF TypeOK, RequestsOK, Token
  <2> QED BY <2>2, <2>3
<1>2. CASE Tick
  <2>1. gone' \in [Key -> -1..Old]
    BY <1>2, TimesAssumption DEF Tick, TypeOK, Old
  <2>2. age' \in [Request -> 0..Timeout]
    BY <1>2, TimesAssumption DEF Tick, TypeOK
  <2>3. ASSUME NEW r \in Realm PROVE cache'[r] \in [keys : SUBSET Key, age : 0..TTL] \cup {None}
    <3>1. CASE cache[r] # None /\ cache[r].age < TTL
      <4>1. cache'[r] = [cache[r] EXCEPT !.age = @ + 1]
        BY <1>2, <3>1 DEF Tick
      <4>2. cache[r] \in [keys : SUBSET Key, age : 0..TTL]
        BY <3>1 DEF TypeOK
      <4> QED BY <3>1, <4>1, <4>2, TimesAssumption
    <3>2. CASE ~(cache[r] # None /\ cache[r].age < TTL)
      <4>1. cache'[r] = cache[r]
        BY <1>2, <3>2 DEF Tick
      <4> QED BY <4>1 DEF TypeOK
    <3> QED BY <3>1, <3>2
  <2>4. cache' \in [Realm -> [keys : SUBSET Key, age : 0..TTL] \cup {None}]
    BY <1>2, <2>3 DEF Tick
  <2> QED BY <1>2, <2>1, <2>2, <2>4 DEF Tick, TypeOK
<1>3. ASSUME NEW k \in Key, Publish(k) PROVE TypeOK'
  BY <1>3, TimesAssumption DEF Publish, TypeOK, Old
<1>4. ASSUME NEW k \in Key, Withdraw(k) PROVE TypeOK'
  <2>1. kept' \in [Request -> BOOLEAN]
    BY <1>4, Zenon DEF Withdraw, TypeOK
  <2>2. gone' \in [Key -> -1..Old]
    BY <1>4, TimesAssumption DEF Withdraw, TypeOK, Old
  <2> QED BY <1>4, <2>1, <2>2 DEF Withdraw, TypeOK
<1>5. ASSUME NEW r \in Realm, EnsureUser(r) PROVE TypeOK'
  <2>1. uid' = [uid EXCEPT ![r] = 1 + Cardinality(Assigned)] /\ uid[r] = None
    BY <1>5 DEF EnsureUser, Assigned
  <2>2. uid' \in [Realm -> Id \cup {None}]
    BY <2>1, NewId DEF TypeOK
  <2> QED BY <1>5, <2>2 DEF EnsureUser, TypeOK
<1>6. CASE HeadscaleRebuilt \/ ExpireAPIKeys
  <2>1. apikey' \in BOOLEAN
    BY <1>6, Zenon DEF HeadscaleRebuilt, ExpireAPIKeys
  <2> QED BY <1>6, <2>1 DEF HeadscaleRebuilt, ExpireAPIKeys, TypeOK
<1>7. CASE Restart
  <2>1. kept' \in [Request -> BOOLEAN] /\ apikey' \in BOOLEAN
    BY <1>7, Zenon DEF Restart
  <2> QED BY <1>7, <2>1, TimesAssumption DEF Restart, TypeOK, Handling, Answer
<1> QED BY <1>1, <1>2, <1>3, <1>4, <1>5, <1>6, <1>7, NextCases

----------------------------------------------------------------------------
(***************************************************************************)
(* The steps keep the other parts of the invariant.                        *)
(***************************************************************************)

\* After a restart of the broker no request is being handled.
LEMMA RestartFrame ==
    ASSUME TypeOK, Restart
    PROVE  \A q \in Request : pc'[q] \in Answer /\ ~kept'[q]
<1>1. \A q \in Request : ~kept'[q]
  BY Zenon DEF Restart
<1>2. \A q \in Request : pc'[q] \in Answer
  BY DEF Restart, TypeOK, Answer
<1> QED BY <1>1, <1>2

\* A handler keeps its token as long as it runs.
LEMMA TokenStep == ASSUME IInv, Next PROVE TokenInv'
<1> USE DEF IInv
<1>1. ASSUME NEW q \in Request,
             \/ Refuse(q)
             \/ \E t \in Token : Arrive(q, t)
             \/ fetchJWKS(q) \/ StoreKeys(q) \/ userID(q) \/ PreAuthKey(q) \/ CallFails(q)
      PROVE  TokenInv'
  <2>1. pc'[q] \in Handling => tok'[q] \in Token
    BY <1>1, RequestStep DEF TokenInv, Handling, Waiting
  <2> QED BY <1>1, <2>1, RequestStep DEF TokenInv, Alone
<1>2. CASE Tick
  BY <1>2 DEF Tick, TokenInv
<1>3. ASSUME NEW k \in Key, Publish(k) \/ Withdraw(k) PROVE TokenInv'
  BY <1>3 DEF Publish, Withdraw, TokenInv
<1>4. CASE HeadscaleRebuilt \/ ExpireAPIKeys \/ \E r \in Realm : EnsureUser(r)
  BY <1>4 DEF HeadscaleRebuilt, ExpireAPIKeys, EnsureUser, TokenInv
<1>5. CASE Restart
  BY <1>5, RestartFrame DEF TokenInv, Handling, Waiting, Answer
<1> QED BY <1>1, <1>2, <1>3, <1>4, <1>5, NextCases

\* A late reply enters the cache under a new time, but is itself no older than
\* one timeout.
LEMMA RecentStep == ASSUME IInv, Next PROVE RecentInv'
<1> USE DEF IInv
<1> DEFINE Replies == \A q \in Request : pc[q] = "store" =>
                         \A k \in got[q] : RealmOf[k] = tok[q].iss /\ gone[k] <= age[q]
           Entry(r) == cache[r] # None =>
                         \A k \in cache[r].keys :
                             /\ RealmOf[k] = r
                             /\ cache[r].age < TTL => gone[k] <= cache[r].age + Timeout
<1>0. Replies /\ \A r \in Realm : Entry(r)
  BY DEF RecentInv
<1>1. ASSUME NEW q \in Request,
             \/ Refuse(q)
             \/ \E t \in Token : Arrive(q, t)
             \/ fetchJWKS(q) \/ StoreKeys(q) \/ userID(q) \/ PreAuthKey(q) \/ CallFails(q)
      PROVE  RecentInv'
  <2>1. gone' = gone /\ Alone(q)
    BY <1>1, RequestStep
  <2>2. ASSUME pc'[q] = "store", NEW k \in got'[q]
        PROVE  RealmOf[k] = tok'[q].iss /\ gone[k] <= age'[q]
    <3>1. got'[q] = Published(tok[q].iss) /\ tok'[q] = tok[q] /\ age'[q] = age[q]
      BY <1>1, <2>2, RequestStep
    <3>2. gone[k] = -1 /\ RealmOf[k] = tok[q].iss
      BY <2>2, <3>1 DEF Published
    <3>3. age[q] \in 0..Timeout
      BY DEF TypeOK
    <3> QED BY <3>1, <3>2, <3>3, TimesAssumption
  <2>3. Replies'
    BY <1>0, <2>1, <2>2 DEF Alone
  <2>4. ASSUME NEW r \in Realm PROVE Entry(r)'
    <3>1. CASE cache'[r] = cache[r]
      BY <1>0, <2>1, <3>1
    <3>2. CASE cache'[r] # cache[r]
      <4>1. pc[q] = "store" /\ cache' = Stored(q)
        BY <1>1, <3>2, RequestStep
      <4>2. cache'[r] = [keys |-> got[q], age |-> 0] /\ r = tok[q].iss
        BY <3>2, <4>1 DEF Stored, TypeOK
      <4>3. cache'[r].keys = got[q] /\ cache'[r].age = 0
        BY <4>2
      <4>4. \A k \in got[q] : RealmOf[k] = r /\ gone[k] <= age[q] /\ k \in Key
        BY <1>0, <4>1, <4>2 DEF TypeOK
      <4>5. \A k \in got[q] : gone[k] <= 0 + Timeout
        BY <4>4, TimesAssumption DEF TypeOK, Old
      <4> QED BY <2>1, <4>3, <4>4, <4>5
    <3> QED BY <3>1, <3>2
  <2> QED BY <2>3, <2>4 DEF RecentInv
<1>2. CASE Tick
  <2>1. \A k \in Key : gone'[k] <= gone[k] + 1 /\ gone[k] \in -1..Old /\ gone'[k] \in Int
    BY <1>2, TimesAssumption DEF Tick, TypeOK, Old
  <2>2. Replies'
    <3>1. SUFFICES ASSUME NEW q \in Request, pc[q] = "store", NEW k \in got[q]
                   PROVE  RealmOf[k] = tok[q].iss /\ gone'[k] <= age'[q]
      BY <1>2 DEF Tick
    <3>2. age'[q] = age[q] + 1 /\ age[q] \in 0..Timeout
      BY <1>2, <3>1 DEF Tick, TypeOK
    <3>3. k \in Key /\ RealmOf[k] = tok[q].iss /\ gone[k] <= age[q]
      BY <1>0, <3>1 DEF TypeOK
    <3> QED BY <2>1, <3>2, <3>3, TimesAssumption DEF Old
  <2>3. ASSUME NEW r \in Realm PROVE Entry(r)'
    <3>1. CASE cache[r] # None /\ cache[r].age < TTL
      <4>1. cache[r] \in [keys : SUBSET Key, age : 0..TTL]
        BY <3>1 DEF TypeOK
      <4>2. cache'[r] = [cache[r] EXCEPT !.age = @ + 1]
        BY <1>2, <3>1 DEF Tick
      <4>3. cache'[r].keys = cache[r].keys /\ cache'[r].age = cache[r].age + 1
        BY <4>1, <4>2
      <4>4. \A k \in cache[r].keys : k \in Key /\ RealmOf[k] = r /\ gone[k] <= cache[r].age + Timeout
        BY <1>0, <3>1, <4>1
      <4>5. \A k \in cache[r].keys : gone'[k] <= cache[r].age + 1 + Timeout
        BY <2>1, <4>1, <4>4, TimesAssumption DEF Old
      <4> QED BY <4>3, <4>4, <4>5
    <3>2. CASE cache[r] # None /\ ~(cache[r].age < TTL)
      <4>1. cache'[r] = cache[r]
        BY <1>2, <3>2 DEF Tick
      <4> QED BY <1>0, <3>2, <4>1
    <3>3. CASE cache[r] = None
      <4>1. cache'[r] = None
        BY <1>2, <3>3 DEF Tick
      <4> QED BY <4>1
    <3> QED BY <3>1, <3>2, <3>3
  <2> QED BY <2>2, <2>3 DEF RecentInv
<1>3. ASSUME NEW k \in Key, Publish(k) \/ Withdraw(k) PROVE RecentInv'
  <2>1. /\ UNCHANGED <<cache, pc, tok, got, age>>
        /\ gone'[k] \in {-1, 0} /\ \A j \in Key \ {k} : gone'[j] = gone[j]
    BY <1>3 DEF Publish, Withdraw, TypeOK
  <2>2. Replies'
    <3>1. SUFFICES ASSUME NEW q \in Request, pc[q] = "store", NEW j \in got[q]
                   PROVE  RealmOf[j] = tok[q].iss /\ gone'[j] <= age[q]
      BY <2>1
    <3>2. j \in Key /\ age[q] \in 0..Timeout /\ RealmOf[j] = tok[q].iss /\ gone[j] <= age[q]
      BY <1>0, <3>1 DEF TypeOK
    <3> QED BY <2>1, <3>2, TimesAssumption
  <2>3. ASSUME NEW r \in Realm PROVE Entry(r)'
    <3>1. SUFFICES ASSUME cache[r] # None, NEW j \in cache[r].keys
                   PROVE  /\ RealmOf[j] = r
                          /\ cache[r].age < TTL => gone'[j] <= cache[r].age + Timeout
      BY <2>1
    <3>2. cache[r] \in [keys : SUBSET Key, age : 0..TTL]
      BY <3>1 DEF TypeOK
    <3>3. /\ j \in Key /\ cache[r].age \in 0..TTL /\ RealmOf[j] = r
          /\ cache[r].age < TTL => gone[j] <= cache[r].age + Timeout
      BY <1>0, <3>1, <3>2
    <3> QED BY <2>1, <3>3, TimesAssumption
  <2> QED BY <2>2, <2>3 DEF RecentInv
<1>4. CASE HeadscaleRebuilt \/ ExpireAPIKeys \/ \E r \in Realm : EnsureUser(r)
  BY <1>4 DEF HeadscaleRebuilt, ExpireAPIKeys, EnsureUser, RecentInv
<1>5. CASE Restart
  <2>1. \A q \in Request : pc'[q] # "store"
    BY <1>5, RestartFrame DEF Answer
  <2>2. \A r \in Realm : cache'[r] = None
    BY <1>5 DEF Restart
  <2> QED BY <2>1, <2>2 DEF RecentInv
<1> QED BY <1>1, <1>2, <1>3, <1>4, <1>5, NextCases

\* A key that stays published is in every reply that is read meanwhile.
LEMMA KeptStep == ASSUME IInv, Next PROVE KeptInv'
<1> USE DEF IInv
<1>1. ASSUME NEW q \in Request,
             \/ Refuse(q)
             \/ \E t \in Token : Arrive(q, t)
             \/ fetchJWKS(q) \/ StoreKeys(q) \/ userID(q) \/ PreAuthKey(q) \/ CallFails(q)
      PROVE  KeptInv'
  <2>1. gone' = gone /\ Alone(q)
    BY <1>1, RequestStep
  <2>2. \A r : Published(r)' = Published(r)
    BY <2>1 DEF Published
  <2>3. kept[q] => \/ pc[q] = "jwks" /\ tok[q].kid \in Published(tok[q].iss)
                   \/ pc[q] = "store" /\ tok[q].kid \in got[q]
    BY DEF KeptInv
  <2>4. kept'[q] => \/ pc'[q] = "jwks" /\ tok'[q].kid \in Published(tok'[q].iss)
                    \/ pc'[q] = "store" /\ tok'[q].kid \in got'[q]
    BY <1>1, <2>3, RequestStep
  <2> QED BY <2>1, <2>2, <2>4 DEF KeptInv, Alone
<1>2. CASE Tick
  <2>1. \A k \in Key : gone[k] = -1 => gone'[k] = -1
    BY <1>2, TimesAssumption DEF Tick, Old
  <2>2. \A r : Published(r) \subseteq Published(r)'
    BY <2>1 DEF Published
  <2> QED BY <1>2, <2>2 DEF Tick, KeptInv
<1>3. ASSUME NEW k \in Key, Publish(k) PROVE KeptInv'
  <2>1. \A r : Published(r) \subseteq Published(r)'
    BY <1>3 DEF Publish, Published, TypeOK
  <2> QED BY <1>3, <2>1 DEF Publish, KeptInv
<1>4. ASSUME NEW k \in Key, Withdraw(k) PROVE KeptInv'
  <2>1. \A r : Published(r) \ {k} \subseteq Published(r)'
    BY <1>4 DEF Withdraw, Published, TypeOK
  <2>2. \A q \in Request : kept'[q] => kept[q] /\ (tok[q] # None => tok[q].kid # k)
    BY <1>4, Zenon DEF Withdraw
  <2>3. \A q \in Request : pc[q] = "jwks" => tok[q] # None
    BY NoneAssumption DEF TokenInv, Token, Handling, Waiting
  <2>4. UNCHANGED <<pc, tok, got>>
    BY <1>4 DEF Withdraw
  <2> QED BY <2>1, <2>2, <2>3, <2>4 DEF KeptInv
<1>5. CASE HeadscaleRebuilt \/ ExpireAPIKeys \/ \E r \in Realm : EnsureUser(r)
  <2>1. UNCHANGED <<pc, tok, got, kept, gone>>
    BY <1>5 DEF HeadscaleRebuilt, ExpireAPIKeys, EnsureUser
  <2> QED BY <2>1 DEF KeptInv, Published
<1>6. CASE Restart
  BY <1>6, RestartFrame DEF KeptInv
<1> QED BY <1>1, <1>2, <1>3, <1>4, <1>5, <1>6, NextCases

\* An id that was looked up stays the tenant's while the API key is accepted.
LEMMA MintStep == ASSUME IInv, Next PROVE MintInv'
<1> USE DEF IInv
<1>1. ASSUME NEW q \in Request,
             \/ Refuse(q)
             \/ \E t \in Token : Arrive(q, t)
             \/ fetchJWKS(q) \/ StoreKeys(q) \/ userID(q) \/ PreAuthKey(q) \/ CallFails(q)
      PROVE  MintInv'
  <2>1. UNCHANGED <<uid, apikey>> /\ Alone(q)
    BY <1>1, RequestStep
  <2>2. pc'[q] = "mint" => id'[q] # None /\ id'[q] = uid[tok'[q].iss]
    BY <1>1, RequestStep
  <2> QED BY <2>1, <2>2 DEF MintInv, Alone
<1>2. CASE Tick
  BY <1>2 DEF Tick, MintInv
<1>3. ASSUME NEW k \in Key, Publish(k) \/ Withdraw(k) PROVE MintInv'
  BY <1>3 DEF Publish, Withdraw, MintInv
<1>4. ASSUME NEW r \in Realm, EnsureUser(r) PROVE MintInv'
  <2>1. uid[r] = None /\ (\A s \in Realm \ {r} : uid'[s] = uid[s])
        /\ UNCHANGED <<pc, tok, id, apikey>>
    BY <1>4 DEF EnsureUser, TypeOK
  <2>2. \A q \in Request : pc[q] = "mint" => tok[q].iss \in Realm
    BY DEF TokenInv, Token, Handling, Waiting
  <2> QED BY <2>1, <2>2 DEF MintInv
<1>5. CASE HeadscaleRebuilt \/ ExpireAPIKeys
  BY <1>5 DEF HeadscaleRebuilt, ExpireAPIKeys, MintInv
<1>6. CASE Restart
  BY <1>6, RestartFrame DEF MintInv, Answer
<1> QED BY <1>1, <1>2, <1>3, <1>4, <1>5, <1>6, NextCases

\* A new user gets the id after the last.
LEMMA IdsStep == ASSUME IInv, Next PROVE IdsInv'
<1> USE DEF IInv
<1>1. CASE uid' = uid
  BY <1>1 DEF IdsInv, Assigned
<1>2. ASSUME NEW r \in Realm, EnsureUser(r) PROVE IdsInv'
  <2> DEFINE n == Cardinality(Assigned)
  <2>1. uid' = [uid EXCEPT ![r] = 1 + n] /\ uid[r] = None
    BY <1>2 DEF EnsureUser, Assigned
  <2>2. n \in Nat
    BY <2>1, NewId
  <2>3. CASE 1 + n = None
    <3>1. uid' = uid
      BY <2>1, <2>3 DEF TypeOK
    <3> QED BY <1>1, <3>1
  <2>4. CASE 1 + n # None
    <3>1. Assigned' = Assigned \cup {r} /\ r \notin Assigned
      BY <2>1, <2>4 DEF Assigned, TypeOK
    <3>2. IsFiniteSet(Assigned)
      BY Ids, FS_Subset DEF Assigned
    <3>3. Cardinality(Assigned') = n + 1
      BY <3>1, <3>2, FS_AddElement
    <3>4. uid'[r] = 1 + n /\ \A s \in Assigned : uid'[s] = uid[s] /\ s # r /\ uid[s] \in 1..n
      BY <2>1, <3>1 DEF IdsInv, Assigned, TypeOK
    <3>5. \A s \in Assigned' : uid'[s] \in 1..(n + 1)
      BY <2>2, <3>1, <3>4
    <3>6. \A s, t \in Assigned' : uid'[s] = uid'[t] => s = t
      BY <2>2, <3>1, <3>4 DEF IdsInv
    <3> QED BY <3>3, <3>5, <3>6 DEF IdsInv
  <2> QED BY <2>3, <2>4
<1>3. CASE HeadscaleRebuilt
  <2>1. Assigned' = {}
    BY <1>3 DEF HeadscaleRebuilt, Assigned
  <2> QED BY <2>1 DEF IdsInv
<1>4. ASSUME NEW q \in Request,
             \/ Refuse(q)
             \/ \E t \in Token : Arrive(q, t)
             \/ fetchJWKS(q) \/ StoreKeys(q) \/ userID(q) \/ PreAuthKey(q) \/ CallFails(q)
      PROVE  IdsInv'
  BY <1>1, <1>4, RequestStep
<1>5. CASE Tick \/ ExpireAPIKeys \/ Restart \/ \E k \in Key : Publish(k) \/ Withdraw(k)
  BY <1>1, <1>5 DEF Tick, ExpireAPIKeys, Restart, Publish, Withdraw
<1> QED BY <1>2, <1>3, <1>4, <1>5, NextCases

----------------------------------------------------------------------------
(***************************************************************************)
(* The theorems.                                                           *)
(***************************************************************************)

\* The invariant holds when the broker starts for the first time.
LEMMA IInvInit == Init => IInv
<1> SUFFICES ASSUME Init PROVE IInv
  OBVIOUS
<1>1. TypeOK
  BY TypeInit
<1>2. \A q \in Request : ~kept[q]
  BY Zenon DEF Init
<1>3. /\ \A q \in Request : pc[q] = "refused"
      /\ \A r \in Realm : cache[r] = None /\ uid[r] = None
  BY DEF Init
<1>4. Assigned = {}
  BY <1>3 DEF Assigned
<1> QED BY <1>1, <1>2, <1>3, <1>4
        DEF IInv, TokenInv, Handling, Waiting, RecentInv, KeptInv, MintInv, IdsInv

\* The inductive invariant holds in every state.
THEOREM Inductive == Spec => []IInv
<1>1. IInv /\ [Next]_vars => IInv'
  <2> SUFFICES ASSUME IInv, [Next]_vars PROVE IInv'
    OBVIOUS
  <2>1. CASE Next
    BY <2>1, TypeStep, TokenStep, RecentStep, KeptStep, MintStep, IdsStep DEF IInv
  <2>2. CASE UNCHANGED vars
    BY <2>2 DEF vars, IInv, TypeOK, TokenInv, RecentInv, KeptInv, Published, MintInv, IdsInv,
                Assigned
  <2> QED BY <2>1, <2>2
<1> QED BY <1>1, IInvInit, PTL DEF Spec

\* Every variable of the broker, of Keycloak and of Headscale keeps to its
\* domain; an id never exceeds the number of realms.
THEOREM TypeCorrect == Spec => []TypeOK
<1>1. IInv => TypeOK
  BY DEF IInv
<1> QED BY <1>1, Inductive, PTL

\* Verify never refuses a token for an unknown key when the realm published the
\* key all the time, for any number of concurrent requests.
THEOREM StaleRefusal == Spec => []NoStaleRefusal
<1>1. IInv => NoStaleRefusal
  BY DEF IInv, KeptInv, NoStaleRefusal
<1> QED BY <1>1, Inductive, PTL

\* Verify accepts a token only under a key of its issuer that was published no
\* longer ago than the cache's lifetime and one request's timeout.
THEOREM RecentKeys == Spec => AcceptedKeyIsRecent
<1>1. ASSUME IInv, [Next]_vars
      PROVE  [\A q \in Request : pc[q] # "user" /\ pc'[q] = "user" =>
                LET t == tok'[q] IN RealmOf[t.kid] = t.iss /\ gone[t.kid] <= TTL + Timeout]_vars
  <2> SUFFICES ASSUME Next, NEW q \in Request, pc[q] # "user", pc'[q] = "user"
               PROVE  RealmOf[tok'[q].kid] = tok'[q].iss /\ gone[tok'[q].kid] <= TTL + Timeout
    BY <1>1
  <2> USE DEF IInv
  <2>1. ASSUME NEW p \in Request,
               \/ Refuse(p)
               \/ \E t \in Token : Arrive(p, t)
               \/ fetchJWKS(p) \/ StoreKeys(p) \/ userID(p) \/ PreAuthKey(p) \/ CallFails(p)
        PROVE  RealmOf[tok'[q].kid] = tok'[q].iss /\ gone[tok'[q].kid] <= TTL + Timeout
    <3> DEFINE t == tok'[q]
    <3>1. p = q
      BY <1>1, <2>1, RequestStep DEF Alone
    <3>2. /\ t \in Token
          /\ \/ t.kid \in Cached(t.iss)
             \/ pc[q] = "store" /\ t = tok[q] /\ t.kid \in got[q]
      BY <1>1, <2>1, <3>1, RequestStep
    <3> HIDE DEF t
    <3>3. t.kid \in Key /\ t.iss \in Realm /\ gone[t.kid] \in -1..Old
      BY <1>1, <3>2 DEF Token, TypeOK
    <3>4. CASE t.kid \in Cached(t.iss)
      <4>1. cache[t.iss] # None /\ cache[t.iss].age < TTL /\ t.kid \in cache[t.iss].keys
        BY <3>4 DEF Cached
      <4>2. RealmOf[t.kid] = t.iss /\ gone[t.kid] <= cache[t.iss].age + Timeout
        BY <1>1, <3>3, <4>1 DEF RecentInv
      <4>3. cache[t.iss].age \in 0..TTL
        BY <1>1, <3>3, <4>1 DEF TypeOK
      <4> QED BY <3>3, <4>1, <4>2, <4>3, TimesAssumption DEF t, Old
    <3>5. CASE pc[q] = "store" /\ t = tok[q] /\ t.kid \in got[q]
      <4>1. RealmOf[t.kid] = t.iss /\ gone[t.kid] <= age[q]
        BY <1>1, <3>5 DEF RecentInv
      <4>2. age[q] \in 0..Timeout
        BY <1>1 DEF TypeOK
      <4> QED BY <3>3, <4>1, <4>2, TimesAssumption DEF t, Old
    <3> QED BY <3>2, <3>4, <3>5
  <2>2. CASE Tick \/ HeadscaleRebuilt \/ ExpireAPIKeys \/ (\E r \in Realm : EnsureUser(r))
             \/ \E k \in Key : Publish(k) \/ Withdraw(k)
    BY <2>2 DEF Tick, HeadscaleRebuilt, ExpireAPIKeys, EnsureUser, Publish, Withdraw
  <2>3. CASE Restart
    BY <1>1, <2>3, RestartFrame DEF Answer
  <2> QED BY <2>1, <2>2, <2>3, NextCases
<1> QED BY <1>1, Inductive, PTL DEF Spec, AcceptedKeyIsRecent

\* PreAuthKey mints for the tenant whose realm issued the token and for no
\* other, although the id was looked up in an earlier call.
THEOREM OwnTenant == Spec => MintedForOwnTenant
<1>1. ASSUME IInv, [Next]_vars
      PROVE  [\A q \in Request : pc[q] = "mint" /\ pc'[q] = "issued" =>
                 {r \in Realm : uid[r] = id[q]} = {tok[q].iss}]_vars
  <2> SUFFICES ASSUME Next, NEW q \in Request, pc[q] = "mint", pc'[q] = "issued"
               PROVE  {r \in Realm : uid[r] = id[q]} = {tok[q].iss}
    BY <1>1
  <2> USE DEF IInv
  <2>1. ASSUME NEW p \in Request,
               \/ Refuse(p)
               \/ \E t \in Token : Arrive(p, t)
               \/ fetchJWKS(p) \/ StoreKeys(p) \/ userID(p) \/ PreAuthKey(p) \/ CallFails(p)
        PROVE  {r \in Realm : uid[r] = id[q]} = {tok[q].iss}
    <3>1. p = q
      BY <1>1, <2>1, RequestStep DEF Alone
    <3>2. ~Refuse(q) /\ ~(\E t \in Token : Arrive(q, t)) /\ ~CallFails(q)
      <4>1. ~Refuse(q) /\ ~(\E t \in Token : Arrive(q, t))
        BY DEF Refuse, Arrive, Answer
      <4>2. ~CallFails(q)
        BY <1>1 DEF CallFails, Reply, TypeOK
      <4> QED BY <4>1, <4>2
    <3>3. PreAuthKey(q)
      BY <2>1, <3>1, <3>2 DEF fetchJWKS, StoreKeys, userID
    <3>4. uid[tok[q].iss] = id[q] /\ id[q] # None /\ tok[q].iss \in Realm
      BY <1>1, <3>3 DEF PreAuthKey, MintInv, TokenInv, Token, Handling, Waiting
    <3>5. \A r \in Realm : uid[r] = id[q] => r = tok[q].iss
      BY <1>1, <3>4 DEF IdsInv, Assigned
    <3> QED BY <3>4, <3>5
  <2>2. CASE Tick \/ HeadscaleRebuilt \/ ExpireAPIKeys \/ (\E r \in Realm : EnsureUser(r))
             \/ \E k \in Key : Publish(k) \/ Withdraw(k)
    BY <2>2 DEF Tick, HeadscaleRebuilt, ExpireAPIKeys, EnsureUser, Publish, Withdraw
  <2>3. CASE Restart
    BY <2>3 DEF Restart, Handling, Waiting
  <2> QED BY <2>1, <2>2, <2>3, NextCases
<1> QED BY <1>1, Inductive, PTL DEF Spec, MintedForOwnTenant

----------------------------------------------------------------------------
(***************************************************************************)
(* ConfigdRollout, the commands that roll the broker out, for any number   *)
(* of operators at a time.  It shares no variable with Configd.            *)
(***************************************************************************)
USE DEF world, local

----------------------------------------------------------------------------
(***************************************************************************)
(* The inductive invariant.                                                *)
(***************************************************************************)

\* What an operator holds is gone when its run is over, and a run whose key was
\* minted without interference is past the mint.
IdleInv ==
    \A o \in Operator :
        /\ Idle(o) => have[o] = Nothing /\ ~clean[o]
        /\ phase[o] # "expire" => seen[o] = {}
        /\ phase[o] \notin {"push", "restart", "health"} => i[o] = 1
        /\ phase[o] = "push" => i[o] \in 1..4

\* At most one run is clean, and none but it is between mint and restart.
AloneInv ==
    \A o \in Operator : clean[o] =>
        /\ Renewing(o) \/ phase[o] = "health"
        /\ \A q \in Operator \ {o} : ~Renewing(q) /\ ~clean[q]

\* How far a clean run has come: its key is alive all the time, and SSM, the
\* secrets and the broker take what it holds one after the other.
CleanInv ==
    \A o \in Operator : clean[o] =>
        /\ have[o].apikey \in live
        /\ have[o].apikey \notin seen[o]
        /\ phase[o] # "put" => ssm.apikey = have[o].apikey
        /\ phase[o] = "push" => \A k \in 1..4 : k < i[o] => secret[Leaf[k]] = have[o][Leaf[k]]
        /\ phase[o] \in {"restart", "health"} => secret = have[o]
        /\ phase[o] = "health" => broker = have[o]

\* What was reported as served is still in SSM, in the secrets and in the
\* broker, its key is alive and no run is on the way to change that.
ServedInv ==
    result # Unset =>
        /\ broker = result /\ secret = result
        /\ result.apikey \in live /\ ssm.apikey = result.apikey
        /\ \A q \in Operator : ~Renewing(q)

\* Without interference the broker can mint now and after a restart, or a run
\* that expires its key is on the way to give it the next one.
RolloutMintInv ==
    (broker # Unset /\ ~owed) =>
        \/ broker.apikey \in live /\ secret.apikey \in live
        \/ \E o \in Operator : phase[o] \in {"expire", "push", "restart"}

RolloutIInv == RolloutTypeOK /\ IdleInv /\ AloneInv /\ CleanInv /\ ServedInv /\ RolloutMintInv /\ OneSigningKey

----------------------------------------------------------------------------
(***************************************************************************)
(* Facts about the operators.                                              *)
(***************************************************************************)

\* Headscale generates a key nobody knows of.
LEMMA NewKeyFresh ==
    ASSUME Fresh # {}
    PROVE  /\ NewKey \in ApiKey \ live
           /\ \A o \in Operator : NewKey \notin seen[o]
<1>1. NewKey \in Fresh
  BY DEF NewKey
<1> QED BY <1>1 DEF Fresh

\* Two records of held values with the same fields are one.
LEMMA HeldEqual ==
    ASSUME NEW a \in Held, NEW b \in Held,
           a.apikey = b.apikey, a.key = b.key, a.kid = b.kid, a.tenants = b.tenants
    PROVE  a = b
BY DEF Held

\* A run that holds one more value still holds a well-typed record, and the
\* other runs keep theirs.
LEMMA HoldFrame ==
    ASSUME RolloutTypeOK, NEW o \in Operator, NEW f \in {"apikey", "key", "kid", "tenants"}, NEW v,
           Hold(o, f, v), v \in CASE f = "apikey"  -> ApiKey
                                  [] f = "key"     -> SigningKey
                                  [] f = "kid"     -> Kid
                                  [] f = "tenants" -> Roster
    PROVE  /\ have' \in [Operator -> Held]
           /\ have'[o][f] = v
           /\ \A g \in {"apikey", "key", "kid", "tenants"} \ {f} : have'[o][g] = have[o][g]
           /\ \A q \in Operator \ {o} : have'[q] = have[q]
<1>1. have[o] \in Held
  BY DEF RolloutTypeOK
<1>2. have' = [have EXCEPT ![o] = [have[o] EXCEPT ![f] = v]]
  BY DEF Hold
<1>3. [have[o] EXCEPT ![f] = v] \in Held
  BY <1>1 DEF Held
<1> QED BY <1>1, <1>2, <1>3 DEF RolloutTypeOK, Held

\* A run that is over leaves a well-typed state.
LEMMA LeaveType ==
    ASSUME RolloutTypeOK, NEW o \in Operator, Leave(o)
    PROVE  /\ phase' \in [Operator -> Phase]
           /\ have' \in [Operator -> Held]
           /\ seen' \in [Operator -> SUBSET ApiKey]
           /\ i' \in [Operator -> 1..5]
           /\ clean' \in [Operator -> BOOLEAN]
<1>1. Nothing \in Held
  BY DEF Nothing, Held
<1>2. clean' \in [Operator -> BOOLEAN]
  BY Zenon DEF RolloutTypeOK, Leave
<1> QED BY <1>1, <1>2 DEF RolloutTypeOK, Leave, Goto, Phase

\* An event counts up to the bound.
LEMMA EventType == ASSUME RolloutTypeOK, Event PROVE events' \in 0..MaxEvents
BY BoundsAssumption DEF RolloutTypeOK, Event

----------------------------------------------------------------------------
(***************************************************************************)
(* Type correctness.                                                       *)
(***************************************************************************)

\* Every initial state is well typed.
LEMMA RolloutTypeInit == RolloutInit => RolloutTypeOK
<1> SUFFICES ASSUME RolloutInit PROVE RolloutTypeOK
  OBVIOUS
<1>1. Nothing \in Held
  BY DEF Nothing, Held
<1>2. clean \in [Operator -> BOOLEAN] /\ owed \in BOOLEAN
  BY Zenon DEF RolloutInit
<1> QED BY <1>1, <1>2, BoundsAssumption DEF RolloutInit, RolloutTypeOK, Phase

\* Every step of a run, of the edge or of an operator keeps the types.
LEMMA RolloutTypeStep == RolloutTypeOK /\ IdleInv /\ [RolloutNext]_rolloutVars => RolloutTypeOK'
<1> SUFFICES ASSUME RolloutTypeOK, IdleInv, [RolloutNext]_rolloutVars PROVE RolloutTypeOK'
  OBVIOUS
<1>1. ASSUME NEW o \in Operator, Begin(o) PROVE RolloutTypeOK'
  BY <1>1, HoldFrame DEF RolloutTypeOK, Begin, Goto, Phase
<1>2. ASSUME NEW o \in Operator, EnsureStringGet(o) PROVE RolloutTypeOK'
  <2>1. have' \in [Operator -> Held]
    BY <1>2, HoldFrame DEF RolloutTypeOK, EnsureStringGet
  <2>2. events' \in 0..MaxEvents
    BY <1>2, EventType DEF RolloutTypeOK, EnsureStringGet
  <2>3. phase' \in [Operator -> Phase]
    BY <1>2 DEF RolloutTypeOK, EnsureStringGet, Goto, Phase
  <2> QED BY <1>2, <2>1, <2>2, <2>3 DEF RolloutTypeOK, EnsureStringGet
<1>3. ASSUME NEW o \in Operator, EnsureStringPut(o) PROVE RolloutTypeOK'
  BY <1>3, HoldFrame DEF RolloutTypeOK, EnsureStringPut, Goto, Phase, Kid
<1>4. ASSUME NEW o \in Operator, EnsureRandomGet(o) PROVE RolloutTypeOK'
  <2>1. have' \in [Operator -> Held]
    BY <1>4, HoldFrame DEF RolloutTypeOK, EnsureRandomGet
  <2>2. phase' \in [Operator -> Phase]
    BY <1>4 DEF RolloutTypeOK, EnsureRandomGet, Goto, Phase
  <2> QED BY <1>4, <2>1, <2>2 DEF RolloutTypeOK, EnsureRandomGet
<1>5. ASSUME NEW o \in Operator, NEW k \in SigningKey, EnsureRandomPut(o, k) PROVE RolloutTypeOK'
  BY <1>5, HoldFrame DEF RolloutTypeOK, EnsureRandomPut, Goto, Phase
<1>6. ASSUME NEW o \in Operator, EnsureRandomLoses(o) PROVE RolloutTypeOK'
  BY <1>6, LeaveType DEF RolloutTypeOK, EnsureRandomLoses
<1>7. ASSUME NEW o \in Operator, CreateAPIKey(o) PROVE RolloutTypeOK'
  <2>1. NewKey \in ApiKey
    BY <1>7, NewKeyFresh DEF CreateAPIKey
  <2>2. have' \in [Operator -> Held]
    BY <1>7, <2>1, HoldFrame DEF CreateAPIKey
  <2>3. clean' \in [Operator -> BOOLEAN]
    BY <1>7, Zenon DEF CreateAPIKey
  <2> QED BY <1>7, <2>1, <2>2, <2>3 DEF RolloutTypeOK, CreateAPIKey, Goto, Phase
<1>8. ASSUME NEW o \in Operator, PutAPIKey(o) PROVE RolloutTypeOK'
  BY <1>8 DEF RolloutTypeOK, PutAPIKey, Goto, Phase, Held
<1>9. ASSUME NEW o \in Operator, ListAPIKeys(o) PROVE RolloutTypeOK'
  BY <1>9 DEF RolloutTypeOK, ListAPIKeys, ToExpire, Goto, Phase
<1>10. ASSUME NEW o \in Operator, ExpireAPIKey(o) PROVE RolloutTypeOK'
  BY <1>10 DEF RolloutTypeOK, ExpireAPIKey
<1>11. ASSUME NEW o \in Operator, ExpireDone(o) PROVE RolloutTypeOK'
  BY <1>11, EventType DEF RolloutTypeOK, ExpireDone, Goto, Phase
<1>12. ASSUME NEW o \in Operator, PushSecret(o) PROVE RolloutTypeOK'
  <2>1. i[o] \in 1..4
    BY <1>12 DEF IdleInv, PushSecret
  <2>2. Leaf[i[o]] \in {"apikey", "key", "kid", "tenants"}
    BY <2>1 DEF Leaf
  <2>3. have[o] \in Held /\ secret \in Held
    BY DEF RolloutTypeOK
  <2>4. [secret EXCEPT ![Leaf[i[o]]] = have[o][Leaf[i[o]]]] \in Held
    <3> DEFINE l == Leaf[i[o]]
    <3> HIDE DEF l
    <3>1. l \in {"apikey", "key", "kid", "tenants"}
      BY <2>2 DEF l
    <3>2. [secret EXCEPT ![l] = have[o][l]] \in Held
      BY <2>3, <3>1 DEF Held
    <3> QED BY <3>2 DEF l
  <2> QED BY <1>12, <2>1, <2>4 DEF RolloutTypeOK, PushSecret, Pushed, Goto, Phase
<1>13. ASSUME NEW o \in Operator, RestartConfigd(o) PROVE RolloutTypeOK'
  <2>1. owed' \in BOOLEAN
    BY <1>13, Zenon DEF RestartConfigd
  <2> QED BY <1>13, <2>1 DEF RolloutTypeOK, RestartConfigd, Started, Goto, Phase
<1>14. ASSUME NEW o \in Operator, HealthCheck(o) PROVE RolloutTypeOK'
  BY <1>14, LeaveType DEF RolloutTypeOK, HealthCheck
<1>15. ASSUME NEW o \in Operator, Abort(o) PROVE RolloutTypeOK'
  <2>1. owed' \in BOOLEAN
    BY <1>15, Zenon DEF Abort
  <2> QED BY <1>15, <2>1, LeaveType, EventType DEF RolloutTypeOK, Abort
<1>16. CASE EditTenants
  BY <1>16, EventType DEF RolloutTypeOK, EditTenants
<1>17. CASE BrokerRestarts
  BY <1>17, EventType DEF RolloutTypeOK, BrokerRestarts
<1>18. CASE HeadscaleRelaunched
  <2>1. clean' \in [Operator -> BOOLEAN]
    BY <1>18, Zenon DEF HeadscaleRelaunched
  <2> QED BY <1>18, <2>1, EventType DEF RolloutTypeOK, HeadscaleRelaunched
<1>19. CASE RotateSigningKey
  BY <1>19, EventType DEF RolloutTypeOK, RotateSigningKey, Kid
<1>20. CASE UNCHANGED rolloutVars
  BY <1>20 DEF RolloutTypeOK, rolloutVars
<1> QED BY <1>1, <1>2, <1>3, <1>4, <1>5, <1>6, <1>7, <1>8, <1>9, <1>10, <1>11, <1>12, <1>13,
           <1>14, <1>15, <1>16, <1>17, <1>18, <1>19, <1>20 DEF RolloutNext, Step

----------------------------------------------------------------------------
(***************************************************************************)
(* The steps keep the parts of the invariant.                              *)
(***************************************************************************)

\* A run that is over holds nothing and is not clean; the others are as they were.
LEMMA LeaveFrame ==
    ASSUME RolloutTypeOK, NEW o \in Operator, Leave(o)
    PROVE  /\ phase'[o] = "idle" /\ have'[o] = Nothing /\ seen'[o] = {} /\ i'[o] = 1 /\ ~clean'[o]
           /\ \A q \in Operator \ {o} :
                  /\ phase'[q] = phase[q] /\ have'[q] = have[q] /\ seen'[q] = seen[q]
                  /\ i'[q] = i[q] /\ clean'[q] = clean[q]
<1>1. ~clean'[o] /\ \A q \in Operator \ {o} : clean'[q] = clean[q]
  BY Zenon DEF Leave, RolloutTypeOK
<1> QED BY <1>1 DEF Leave, Goto, RolloutTypeOK

\* One case per action, for the proofs below.
LEMMA RolloutNextCases ==
    ASSUME RolloutNext
    PROVE  \/ \E o \in Operator :
                  \/ Begin(o) \/ EnsureStringGet(o) \/ EnsureStringPut(o) \/ EnsureRandomGet(o)
                  \/ EnsureRandomLoses(o) \/ (\E k \in SigningKey : EnsureRandomPut(o, k))
                  \/ CreateAPIKey(o) \/ PutAPIKey(o) \/ ListAPIKeys(o) \/ ExpireAPIKey(o)
                  \/ ExpireDone(o) \/ PushSecret(o) \/ RestartConfigd(o) \/ HealthCheck(o)
                  \/ Abort(o)
           \/ EditTenants \/ BrokerRestarts \/ HeadscaleRelaunched \/ RotateSigningKey
BY DEF RolloutNext, Step

\* What is gone with a run stays gone.
LEMMA IdleStep == ASSUME RolloutIInv, RolloutNext PROVE IdleInv'
<1> USE DEF RolloutIInv
<1>1. ASSUME NEW o \in Operator,
             Begin(o) \/ EnsureStringGet(o) \/ EnsureStringPut(o) \/ EnsureRandomGet(o)
             \/ \E k \in SigningKey : EnsureRandomPut(o, k)
      PROVE  IdleInv'
  BY <1>1 DEF Begin, EnsureStringGet, EnsureStringPut, EnsureRandomGet, EnsureRandomPut, Goto,
              Hold, Idle, IdleInv, RolloutTypeOK
<1>2. ASSUME NEW o \in Operator, EnsureRandomLoses(o) \/ HealthCheck(o) \/ Abort(o)
      PROVE  IdleInv'
  <2>1. Leave(o)
    BY <1>2 DEF EnsureRandomLoses, HealthCheck, Abort
  <2> QED BY <2>1, LeaveFrame DEF Idle, IdleInv, RolloutTypeOK
<1>3. ASSUME NEW o \in Operator, CreateAPIKey(o) PROVE IdleInv'
  <2>1. \A q \in Operator \ {o} : ~clean'[q]
    BY <1>3, Zenon DEF CreateAPIKey
  <2> QED BY <1>3, <2>1 DEF CreateAPIKey, Goto, Hold, Idle, IdleInv, RolloutTypeOK
<1>4. ASSUME NEW o \in Operator,
             PutAPIKey(o) \/ ListAPIKeys(o) \/ ExpireAPIKey(o) \/ ExpireDone(o)
             \/ RestartConfigd(o)
      PROVE  IdleInv'
  BY <1>4 DEF PutAPIKey, ListAPIKeys, ExpireAPIKey, ExpireDone, RestartConfigd, Goto,
              Idle, IdleInv, RolloutTypeOK
<1>5. ASSUME NEW o \in Operator, PushSecret(o) PROVE IdleInv'
  <2>1. i[o] \in 1..4 /\ phase[o] = "push"
    BY <1>5 DEF PushSecret, IdleInv
  <2>2. /\ phase'[o] = (IF i[o] = 4 THEN "restart" ELSE "push") /\ i'[o] = i[o] + 1
        /\ \A q \in Operator \ {o} : phase'[q] = phase[q] /\ i'[q] = i[q]
        /\ UNCHANGED <<have, seen, clean>>
    BY <1>5 DEF PushSecret, Goto, RolloutTypeOK
  <2>3. seen[o] = {}
    BY <2>1 DEF IdleInv
  <2> QED BY <2>1, <2>2, <2>3 DEF Idle, IdleInv
<1>6. CASE EditTenants \/ BrokerRestarts \/ RotateSigningKey
  BY <1>6 DEF EditTenants, BrokerRestarts, RotateSigningKey, Idle, IdleInv
<1>7. CASE HeadscaleRelaunched
  <2>1. \A q \in Operator : ~clean'[q]
    BY <1>7, Zenon DEF HeadscaleRelaunched
  <2> QED BY <1>7, <2>1 DEF HeadscaleRelaunched, Idle, IdleInv
<1> QED BY <1>1, <1>2, <1>3, <1>4, <1>5, <1>6, <1>7, RolloutNextCases

\* A run that mints in the middle of another's stretch leaves nobody clean.
LEMMA AloneStep == ASSUME RolloutIInv, RolloutNext PROVE AloneInv'
<1> USE DEF RolloutIInv
<1>1. ASSUME NEW o \in Operator,
             Begin(o) \/ EnsureStringGet(o) \/ EnsureStringPut(o) \/ EnsureRandomGet(o)
             \/ \E k \in SigningKey : EnsureRandomPut(o, k)
      PROVE  AloneInv'
  <2>1. /\ clean' = clean /\ phase[o] \in {"idle", "kidGet", "kidPut", "keyGet", "keyPut"}
        /\ phase'[o] \in {"kidGet", "kidPut", "keyGet", "keyPut", "mint"}
        /\ \A q \in Operator \ {o} : phase'[q] = phase[q]
    BY <1>1 DEF Begin, EnsureStringGet, EnsureStringPut, EnsureRandomGet, EnsureRandomPut, Goto,
                Idle, RolloutTypeOK
  <2> QED BY <2>1 DEF Renewing, AloneInv
<1>2. ASSUME NEW o \in Operator, EnsureRandomLoses(o) \/ HealthCheck(o) \/ Abort(o)
      PROVE  AloneInv'
  <2>1. Leave(o)
    BY <1>2 DEF EnsureRandomLoses, HealthCheck, Abort
  <2> QED BY <2>1, LeaveFrame DEF Renewing, AloneInv, RolloutTypeOK
<1>3. ASSUME NEW o \in Operator, CreateAPIKey(o) PROVE AloneInv'
  <2>1. \A q \in Operator \ {o} : ~clean'[q]
    BY <1>3, Zenon DEF CreateAPIKey
  <2>2. clean'[o] => \A q \in Operator : ~Renewing(q)
    BY <1>3, Zenon DEF CreateAPIKey
  <2>3. phase'[o] = "put" /\ \A q \in Operator \ {o} : phase'[q] = phase[q]
    BY <1>3 DEF CreateAPIKey, Goto, RolloutTypeOK
  <2> QED BY <2>1, <2>2, <2>3 DEF Renewing, AloneInv
<1>4. ASSUME NEW o \in Operator,
             PutAPIKey(o) \/ ListAPIKeys(o) \/ ExpireAPIKey(o) \/ ExpireDone(o)
             \/ PushSecret(o) \/ RestartConfigd(o)
      PROVE  AloneInv'
  <2>1. clean' = clean /\ (Renewing(o))
    BY <1>4 DEF PutAPIKey, ListAPIKeys, ExpireAPIKey, ExpireDone, RestartConfigd, PushSecret,
                Renewing
  <2>2. /\ phase'[o] \in {"put", "list", "expire", "push", "restart", "health"}
        /\ \A q \in Operator \ {o} : phase'[q] = phase[q]
    BY <1>4 DEF PutAPIKey, ListAPIKeys, ExpireAPIKey, ExpireDone, RestartConfigd, PushSecret,
                Goto, RolloutTypeOK
  <2> QED BY <2>1, <2>2 DEF Renewing, AloneInv
<1>5. CASE EditTenants \/ BrokerRestarts \/ RotateSigningKey
  BY <1>5 DEF EditTenants, BrokerRestarts, RotateSigningKey, Renewing, AloneInv
<1>6. CASE HeadscaleRelaunched
  <2>1. \A q \in Operator : ~clean'[q]
    BY <1>6, Zenon DEF HeadscaleRelaunched
  <2> QED BY <2>1 DEF AloneInv
<1> QED BY <1>1, <1>2, <1>3, <1>4, <1>5, <1>6, RolloutNextCases

\* Before it mints, a run changes nothing of what the invariant says of clean runs.
LEMMA EarlyFrame ==
    ASSUME RolloutIInv, NEW o \in Operator,
           Begin(o) \/ EnsureStringGet(o) \/ EnsureStringPut(o) \/ EnsureRandomGet(o)
           \/ \E k \in SigningKey : EnsureRandomPut(o, k)
    PROVE  /\ UNCHANGED <<live, secret, broker, seen, i, clean, owed, result>>
           /\ ssm'.apikey = ssm.apikey
           /\ phase[o] \in {"idle", "kidGet", "kidPut", "keyGet", "keyPut"}
           /\ phase'[o] \in {"kidGet", "kidPut", "keyGet", "keyPut", "mint"}
           /\ \A q \in Operator \ {o} : phase'[q] = phase[q] /\ have'[q] = have[q]
           /\ ~clean[o]
<1>1. /\ UNCHANGED <<live, secret, broker, seen, i, clean, owed, result>>
      /\ ssm'.apikey = ssm.apikey
  BY DEF Begin, EnsureStringGet, EnsureStringPut, EnsureRandomGet, EnsureRandomPut, RolloutIInv,
      RolloutTypeOK
<1>2. /\ phase[o] \in {"idle", "kidGet", "kidPut", "keyGet", "keyPut"}
      /\ phase'[o] \in {"kidGet", "kidPut", "keyGet", "keyPut", "mint"}
      /\ \A q \in Operator \ {o} : phase'[q] = phase[q] /\ have'[q] = have[q]
  BY DEF Begin, EnsureStringGet, EnsureStringPut, EnsureRandomGet, EnsureRandomPut, Goto, Idle,
         Hold, RolloutIInv, RolloutTypeOK
<1>3. ~clean[o]
  BY <1>2 DEF RolloutIInv, AloneInv, Renewing
<1> QED BY <1>1, <1>2, <1>3

\* The stretch of a run from mint to restart: its phases and what stays as it is.
LEMMA RenewFrame ==
    ASSUME RolloutIInv, NEW o \in Operator,
           PutAPIKey(o) \/ ListAPIKeys(o) \/ ExpireAPIKey(o) \/ ExpireDone(o)
           \/ PushSecret(o) \/ RestartConfigd(o)
    PROVE  /\ UNCHANGED <<have, clean, result>>
           /\ Renewing(o)
           /\ \A q \in Operator \ {o} : /\ phase'[q] = phase[q] /\ seen'[q] = seen[q] /\ i'[q] = i[q]
                                        /\ ~clean[q]
<1>1. UNCHANGED <<have, clean, result>> /\ Renewing(o)
  BY DEF PutAPIKey, ListAPIKeys, ExpireAPIKey, ExpireDone, RestartConfigd, PushSecret, Renewing
<1>2. \A q \in Operator \ {o} : phase'[q] = phase[q] /\ seen'[q] = seen[q] /\ i'[q] = i[q]
  BY DEF PutAPIKey, ListAPIKeys, ExpireAPIKey, ExpireDone, RestartConfigd, PushSecret, Goto,
         RolloutIInv, RolloutTypeOK
<1>3. \A q \in Operator \ {o} : ~clean[q]
  BY <1>1 DEF RolloutIInv, AloneInv
<1> QED BY <1>1, <1>2, <1>3

\* A clean run keeps its key alive and carries it step by step to the broker.
LEMMA CleanStep == ASSUME RolloutIInv, RolloutNext PROVE CleanInv'
<1> USE DEF RolloutIInv
<1>1. ASSUME NEW o \in Operator,
             Begin(o) \/ EnsureStringGet(o) \/ EnsureStringPut(o) \/ EnsureRandomGet(o)
             \/ \E k \in SigningKey : EnsureRandomPut(o, k)
      PROVE  CleanInv'
  BY <1>1, EarlyFrame DEF CleanInv
<1>2. ASSUME NEW o \in Operator, EnsureRandomLoses(o) \/ HealthCheck(o) \/ Abort(o)
      PROVE  CleanInv'
  <2>1. Leave(o) /\ UNCHANGED world
    BY <1>2 DEF EnsureRandomLoses, HealthCheck, Abort
  <2> QED BY <2>1, LeaveFrame DEF CleanInv
<1>3. ASSUME NEW o \in Operator, CreateAPIKey(o) PROVE CleanInv'
  <2>1. \A q \in Operator \ {o} : ~clean'[q]
    BY <1>3, Zenon DEF CreateAPIKey
  <2>2. phase'[o] = "put" /\ live' = live \cup {NewKey} /\ NewKey \in ApiKey /\ seen' = seen
        /\ NewKey \notin seen[o]
    BY <1>3, NewKeyFresh DEF CreateAPIKey, Goto, RolloutTypeOK
  <2>3. have'[o].apikey = NewKey
    BY <1>3, <2>2, HoldFrame DEF CreateAPIKey
  <2> QED BY <2>1, <2>2, <2>3 DEF CleanInv
<1>4. ASSUME NEW o \in Operator,
             PutAPIKey(o) \/ ListAPIKeys(o) \/ ExpireAPIKey(o) \/ ExpireDone(o)
             \/ PushSecret(o) \/ RestartConfigd(o)
      PROVE  CleanInv'
  <2>1. SUFFICES ASSUME clean[o]
                 PROVE  /\ have[o].apikey \in live'
                        /\ have[o].apikey \notin seen'[o]
                        /\ phase'[o] # "put" => ssm'.apikey = have[o].apikey
                        /\ phase'[o] = "push" => \A k \in 1..4 : k < i'[o] =>
                                                 secret'[Leaf[k]] = have[o][Leaf[k]]
                        /\ phase'[o] \in {"restart", "health"} => secret' = have[o]
                        /\ phase'[o] = "health" => broker' = have[o]
    BY <1>4, RenewFrame DEF CleanInv
  <2>2. CASE PutAPIKey(o)
    BY <2>1, <2>2 DEF PutAPIKey, Goto, CleanInv, RolloutTypeOK
  <2>3. CASE ListAPIKeys(o)
    BY <2>1, <2>3 DEF ListAPIKeys, ToExpire, Goto, CleanInv, RolloutTypeOK
  <2>4. CASE ExpireAPIKey(o)
    BY <2>1, <2>4 DEF ExpireAPIKey, CleanInv, RolloutTypeOK
  <2>5. CASE ExpireDone(o)
    <3>1. i[o] = 1
      BY <2>5 DEF ExpireDone, IdleInv
    <3> QED BY <2>1, <2>5, <3>1 DEF ExpireDone, Goto, CleanInv, RolloutTypeOK
  <2>6. CASE PushSecret(o)
    <3>1. i[o] \in 1..4 /\ i'[o] = i[o] + 1 /\ phase[o] = "push"
      BY <2>6 DEF PushSecret, IdleInv, RolloutTypeOK
    <3>2. /\ secret' = [secret EXCEPT ![Leaf[i[o]]] = have[o][Leaf[i[o]]]]
          /\ secret \in Held /\ have[o] \in Held
      BY <2>6 DEF PushSecret, Pushed, RolloutTypeOK
    <3>3. \A k \in 1..4 : k < i[o] => secret[Leaf[k]] = have[o][Leaf[k]]
      BY <2>1, <3>1 DEF CleanInv
    <3>4. \A k \in 1..4 : k < i[o] + 1 => secret'[Leaf[k]] = have[o][Leaf[k]]
      <4>1. Leaf[1] = "apikey" /\ Leaf[2] = "key" /\ Leaf[3] = "kid" /\ Leaf[4] = "tenants"
        BY DEF Leaf
      <4> QED BY <3>1, <3>2, <3>3, <4>1 DEF Held
    <3>5. i[o] = 4 => secret' = have[o]
      <4>1. Leaf[1] = "apikey" /\ Leaf[2] = "key" /\ Leaf[3] = "kid" /\ Leaf[4] = "tenants"
        BY DEF Leaf
      <4>2. secret' \in Held
        BY RolloutTypeStep DEF RolloutTypeOK
      <4>3. ASSUME i[o] = 4 PROVE \A k \in 1..4 : secret'[Leaf[k]] = have[o][Leaf[k]]
        BY <3>4, <4>3
      <4>4. ASSUME i[o] = 4
            PROVE  /\ secret'["apikey"] = have[o]["apikey"] /\ secret'["key"] = have[o]["key"]
                   /\ secret'["kid"] = have[o]["kid"] /\ secret'["tenants"] = have[o]["tenants"]
        BY <4>1, <4>3, <4>4
      <4> QED BY <3>2, <4>2, <4>4, HeldEqual
    <3>6. phase'[o] = IF i[o] = 4 THEN "restart" ELSE "push"
      BY <2>6 DEF PushSecret, Goto, RolloutTypeOK
    <3> QED BY <2>1, <2>6, <3>1, <3>4, <3>5, <3>6 DEF PushSecret, CleanInv
  <2>7. CASE RestartConfigd(o)
    BY <2>1, <2>7 DEF RestartConfigd, Started, Goto, CleanInv, RolloutTypeOK
  <2> QED BY <1>4, <2>2, <2>3, <2>4, <2>5, <2>6, <2>7
<1>5. CASE EditTenants \/ BrokerRestarts \/ RotateSigningKey
  <2>1. /\ UNCHANGED <<live, secret, phase, have, seen, i, clean>>
        /\ ssm'.apikey = ssm.apikey
        /\ broker' \in {broker, secret}
    BY <1>5 DEF EditTenants, BrokerRestarts, RotateSigningKey, RolloutTypeOK
  <2> QED BY <2>1 DEF CleanInv
<1>6. CASE HeadscaleRelaunched
  <2>1. \A q \in Operator : ~clean'[q]
    BY <1>6, Zenon DEF HeadscaleRelaunched
  <2> QED BY <2>1 DEF CleanInv
<1> QED BY <1>1, <1>2, <1>3, <1>4, <1>5, <1>6, RolloutNextCases

\* While a result stands nobody touches SSM's key, the secrets or the broker's
\* key, and the run that reports it was alone from its mint on.
LEMMA ServedStep == ASSUME RolloutIInv, RolloutNext PROVE ServedInv'
<1> USE DEF RolloutIInv
<1>1. ASSUME NEW o \in Operator,
             Begin(o) \/ EnsureStringGet(o) \/ EnsureStringPut(o) \/ EnsureRandomGet(o)
             \/ \E k \in SigningKey : EnsureRandomPut(o, k)
      PROVE  ServedInv'
  BY <1>1, EarlyFrame DEF ServedInv, Renewing
<1>2. ASSUME NEW o \in Operator, EnsureRandomLoses(o) \/ Abort(o) \/ (HealthCheck(o) /\ ~clean[o])
      PROVE  ServedInv'
  <2>1. Leave(o) /\ UNCHANGED <<world, result>>
    BY <1>2 DEF EnsureRandomLoses, HealthCheck, Abort
  <2> QED BY <2>1, LeaveFrame DEF ServedInv, Renewing
<1>3. ASSUME NEW o \in Operator, HealthCheck(o), clean[o] PROVE ServedInv'
  <2>1. phase[o] = "health" /\ Leave(o) /\ UNCHANGED world /\ result' = have[o]
    BY <1>3 DEF HealthCheck
  <2>2. /\ broker = have[o] /\ secret = have[o] /\ have[o].apikey \in live
        /\ ssm.apikey = have[o].apikey
    BY <1>3, <2>1 DEF CleanInv
  <2>3. \A q \in Operator \ {o} : ~Renewing(q)
    BY <1>3 DEF AloneInv
  <2> QED BY <2>1, <2>2, <2>3, LeaveFrame DEF ServedInv, Renewing
<1>4. ASSUME NEW o \in Operator, CreateAPIKey(o) PROVE ServedInv'
  BY <1>4 DEF CreateAPIKey, ServedInv
<1>5. ASSUME NEW o \in Operator,
             PutAPIKey(o) \/ ListAPIKeys(o) \/ ExpireAPIKey(o) \/ ExpireDone(o)
             \/ PushSecret(o) \/ RestartConfigd(o)
      PROVE  ServedInv'
  BY <1>5, RenewFrame DEF ServedInv
<1>6. CASE EditTenants \/ BrokerRestarts \/ RotateSigningKey
  <2>1. /\ UNCHANGED <<live, secret, phase, result>>
        /\ ssm'.apikey = ssm.apikey
        /\ broker' \in {broker, secret}
    BY <1>6 DEF EditTenants, BrokerRestarts, RotateSigningKey, RolloutTypeOK
  <2> QED BY <2>1 DEF ServedInv, Renewing
<1>7. CASE HeadscaleRelaunched
  BY <1>7 DEF HeadscaleRelaunched, ServedInv
<1> QED BY <1>1, <1>2, <1>3, <1>4, <1>5, <1>6, <1>7, RolloutNextCases

\* A run that expires the broker's key is itself the witness that the broker is
\* about to get another, until it restarts the broker or is cut off.
LEMMA RolloutMintStep == ASSUME RolloutIInv, RolloutNext PROVE RolloutMintInv'
<1> USE DEF RolloutIInv
<1>1. ASSUME NEW o \in Operator,
             Begin(o) \/ EnsureStringGet(o) \/ EnsureStringPut(o) \/ EnsureRandomGet(o)
             \/ \E k \in SigningKey : EnsureRandomPut(o, k)
      PROVE  RolloutMintInv'
  BY <1>1, EarlyFrame DEF RolloutMintInv
<1>2. ASSUME NEW o \in Operator, EnsureRandomLoses(o) \/ HealthCheck(o) PROVE RolloutMintInv'
  <2>1. Leave(o) /\ UNCHANGED <<world, owed>> /\ phase[o] \in {"keyPut", "health"}
    BY <1>2 DEF EnsureRandomLoses, HealthCheck
  <2> QED BY <2>1, LeaveFrame DEF RolloutMintInv
<1>3. ASSUME NEW o \in Operator, Abort(o) PROVE RolloutMintInv'
  <2>1. Leave(o) /\ UNCHANGED world
    BY <1>3 DEF Abort
  <2>2. ~owed' => ~owed /\ phase[o] \notin {"expire", "push", "restart"}
    BY <1>3, Zenon DEF Abort
  <2> QED BY <2>1, <2>2, LeaveFrame DEF RolloutMintInv
<1>4. ASSUME NEW o \in Operator, CreateAPIKey(o) PROVE RolloutMintInv'
  <2>1. /\ UNCHANGED <<secret, broker, owed>> /\ live \subseteq live' /\ phase[o] = "mint"
        /\ \A q \in Operator \ {o} : phase'[q] = phase[q]
    BY <1>4 DEF CreateAPIKey, Goto, RolloutTypeOK
  <2> QED BY <2>1 DEF RolloutMintInv
<1>5. ASSUME NEW o \in Operator, PutAPIKey(o) PROVE RolloutMintInv'
  <2>1. /\ UNCHANGED <<secret, broker, owed, live>> /\ phase[o] = "put"
        /\ \A q \in Operator \ {o} : phase'[q] = phase[q]
    BY <1>5 DEF PutAPIKey, Goto, RolloutTypeOK
  <2> QED BY <2>1 DEF RolloutMintInv
<1>6. ASSUME NEW o \in Operator,
             ListAPIKeys(o) \/ ExpireAPIKey(o) \/ ExpireDone(o) \/ PushSecret(o)
      PROVE  RolloutMintInv'
  <2>1. phase'[o] \in {"expire", "push", "restart"}
    BY <1>6 DEF ListAPIKeys, ExpireAPIKey, ExpireDone, PushSecret, Goto, RolloutTypeOK
  <2> QED BY <2>1 DEF RolloutMintInv
<1>7. ASSUME NEW o \in Operator, RestartConfigd(o) PROVE RolloutMintInv'
  <2>1. phase[o] = "restart" /\ broker' = secret /\ UNCHANGED <<live, secret>>
    BY <1>7 DEF RestartConfigd, Started
  <2>2. ~owed' => clean[o]
    BY <1>7, Zenon DEF RestartConfigd
  <2>3. clean[o] => secret.apikey \in live
    BY <2>1 DEF CleanInv
  <2> QED BY <2>1, <2>2, <2>3 DEF RolloutMintInv
<1>8. CASE EditTenants \/ BrokerRestarts \/ RotateSigningKey
  <2>1. /\ UNCHANGED <<live, secret, phase, owed>>
        /\ broker' = broker \/ (broker # Unset /\ broker' = secret)
    BY <1>8 DEF EditTenants, BrokerRestarts, RotateSigningKey
  <2> QED BY <2>1 DEF RolloutMintInv
<1>9. CASE HeadscaleRelaunched
  BY <1>9 DEF HeadscaleRelaunched, RolloutMintInv
<1> QED BY <1>1, <1>2, <1>3, <1>4, <1>5, <1>6, <1>7, <1>8, <1>9, RolloutNextCases

\* The signing key of SSM changes only when nobody holds one.
LEMMA OneKeyStep == ASSUME RolloutIInv, RolloutNext PROVE OneSigningKey'
<1> USE DEF RolloutIInv
<1>1. ASSUME NEW o \in Operator, Begin(o) \/ EnsureStringGet(o) PROVE OneSigningKey'
  <2>1. /\ ssm' = ssm /\ have'[o].key = have[o].key
        /\ \A q \in Operator \ {o} : have'[q] = have[q]
    BY <1>1 DEF Begin, EnsureStringGet, Hold, RolloutTypeOK, Held
  <2> QED BY <2>1 DEF OneSigningKey
<1>2. ASSUME NEW o \in Operator, EnsureStringPut(o) PROVE OneSigningKey'
  <2>1. /\ ssm'.key = ssm.key /\ have'[o].key = have[o].key
        /\ \A q \in Operator \ {o} : have'[q] = have[q]
    BY <1>2 DEF EnsureStringPut, Hold, RolloutTypeOK, Held
  <2> QED BY <2>1 DEF OneSigningKey
<1>3. ASSUME NEW o \in Operator, EnsureRandomGet(o) PROVE OneSigningKey'
  <2>1. /\ ssm' = ssm /\ have'[o].key \in {have[o].key, ssm.key}
        /\ \A q \in Operator \ {o} : have'[q] = have[q]
    BY <1>3 DEF EnsureRandomGet, Hold, RolloutTypeOK, Held
  <2> QED BY <2>1 DEF OneSigningKey
<1>4. ASSUME NEW o \in Operator, NEW k \in SigningKey, EnsureRandomPut(o, k)
      PROVE  OneSigningKey'
  <2>1. /\ ssm.key = Unset /\ ssm'.key = k /\ have'[o].key = k
        /\ \A q \in Operator \ {o} : have'[q] = have[q]
    BY <1>4 DEF EnsureRandomPut, MayStore, Hold, RolloutTypeOK, Held
  <2> QED BY <2>1 DEF OneSigningKey
<1>5. ASSUME NEW o \in Operator, EnsureRandomLoses(o) \/ HealthCheck(o) \/ Abort(o)
      PROVE  OneSigningKey'
  <2>1. Leave(o) /\ UNCHANGED world
    BY <1>5 DEF EnsureRandomLoses, HealthCheck, Abort
  <2>2. Nothing.key = Unset
    BY DEF Nothing
  <2> QED BY <2>1, <2>2, LeaveFrame DEF OneSigningKey
<1>6. ASSUME NEW o \in Operator, CreateAPIKey(o) PROVE OneSigningKey'
  <2>1. /\ ssm' = ssm /\ have'[o].key = have[o].key
        /\ \A q \in Operator \ {o} : have'[q] = have[q]
    BY <1>6 DEF CreateAPIKey, Hold, RolloutTypeOK, Held
  <2> QED BY <2>1 DEF OneSigningKey
<1>7. ASSUME NEW o \in Operator,
             PutAPIKey(o) \/ ListAPIKeys(o) \/ ExpireAPIKey(o) \/ ExpireDone(o)
             \/ PushSecret(o) \/ RestartConfigd(o)
      PROVE  OneSigningKey'
  <2>1. ssm'.key = ssm.key
    BY <1>7 DEF PutAPIKey, ListAPIKeys, ExpireAPIKey, ExpireDone, PushSecret, RestartConfigd,
                RolloutTypeOK
  <2> QED BY <1>7, <2>1, RenewFrame DEF OneSigningKey
<1>8. CASE EditTenants \/ BrokerRestarts \/ HeadscaleRelaunched
  BY <1>8 DEF EditTenants, BrokerRestarts, HeadscaleRelaunched, OneSigningKey
<1>9. CASE RotateSigningKey
  <2>1. have' = have /\ \A o \in Operator : have[o] = Nothing
    BY <1>9 DEF RotateSigningKey, Quiet, IdleInv
  <2> QED BY <2>1 DEF OneSigningKey, Nothing
<1> QED BY <1>1, <1>2, <1>3, <1>4, <1>5, <1>6, <1>7, <1>8, <1>9, RolloutNextCases

----------------------------------------------------------------------------
(***************************************************************************)
(* The theorems.                                                           *)
(***************************************************************************)

\* The invariant holds before the first run.
LEMMA RolloutIInvInit == RolloutInit => RolloutIInv
<1> SUFFICES ASSUME RolloutInit PROVE RolloutIInv
  OBVIOUS
<1>1. RolloutTypeOK
  BY RolloutTypeInit
<1>2. \A o \in Operator : ~clean[o]
  BY Zenon DEF RolloutInit
<1>3. \A o \in Operator : phase[o] = "idle" /\ have[o] = Nothing /\ seen[o] = {} /\ i[o] = 1
  BY DEF RolloutInit
<1>4. broker = Unset /\ result = Unset
  BY DEF RolloutInit
<1> QED BY <1>1, <1>2, <1>3, <1>4 DEF RolloutIInv, IdleInv, Idle, AloneInv, CleanInv, ServedInv,
           RolloutMintInv, OneSigningKey, Nothing

\* Doing nothing keeps the invariant.
LEMMA IInvStutter == ASSUME RolloutIInv, UNCHANGED rolloutVars PROVE RolloutIInv'
<1>1. UNCHANGED <<roster, ssm, live, secret, broker, phase, have, seen, i, clean, owed, result,
                  events>>
  BY DEF rolloutVars
<1>2. RolloutTypeOK' /\ IdleInv'
  BY <1>1 DEF RolloutIInv, RolloutTypeOK, IdleInv, Idle
<1>3. AloneInv' /\ CleanInv'
  BY <1>1 DEF RolloutIInv, AloneInv, CleanInv, Renewing
<1>4. ServedInv' /\ RolloutMintInv' /\ OneSigningKey'
  BY <1>1 DEF RolloutIInv, ServedInv, Renewing, RolloutMintInv, OneSigningKey
<1> QED BY <1>2, <1>3, <1>4 DEF RolloutIInv

\* The inductive invariant holds in every state of the rollout.
THEOREM RolloutInductive == RolloutSpec => []RolloutIInv
<1>1. RolloutIInv /\ [RolloutNext]_rolloutVars => RolloutIInv'
  <2> SUFFICES ASSUME RolloutIInv, [RolloutNext]_rolloutVars PROVE RolloutIInv'
    OBVIOUS
  <2>1. CASE RolloutNext
    <3>1. RolloutTypeOK'
      BY RolloutTypeStep DEF RolloutIInv
    <3> QED BY <2>1, <3>1, IdleStep, AloneStep, CleanStep, ServedStep, RolloutMintStep, OneKeyStep
            DEF RolloutIInv
  <2>2. CASE UNCHANGED rolloutVars
    BY <2>2, IInvStutter
  <2> QED BY <2>1, <2>2
<1> QED BY <1>1, RolloutIInvInit, PTL DEF RolloutSpec

\* Every variable of the rollout keeps to its domain; that a run never pushes a
\* fifth secret is part of the argument, so this rests on the invariant.
THEOREM RolloutTypeCorrect == RolloutSpec => []RolloutTypeOK
<1>1. RolloutIInv => RolloutTypeOK
  BY DEF RolloutIInv
<1> QED BY <1>1, RolloutInductive, PTL

\* After a run of reconcileConfigd that reported success, the broker runs on
\* what that run held and its API key is accepted, until another run mints.
THEOREM Served == RolloutSpec => []OkMeansServed
<1>1. RolloutIInv => OkMeansServed
  BY DEF RolloutIInv, ServedInv, OkMeansServed, CanMint
<1> QED BY <1>1, RolloutInductive, PTL

\* Between runs of reconcileConfigd the broker's API key is dead only after a
\* rebuilt Headscale, a run cut off or two runs that overlapped.
THEOREM DeadKey == RolloutSpec => []DeadKeyOnlyAfterInterference
<1>1. RolloutIInv => DeadKeyOnlyAfterInterference
  BY DEF RolloutIInv, RolloutMintInv, DeadKeyOnlyAfterInterference, CanMint, Quiet, Idle
<1> QED BY <1>1, RolloutInductive, PTL

\* EnsureRandom never lets two runs in progress hold different signing keys.
THEOREM SigningKeys == RolloutSpec => []OneSigningKey
<1>1. RolloutIInv => OneSigningKey
  BY DEF RolloutIInv
<1> QED BY <1>1, RolloutInductive, PTL

=============================================================================
