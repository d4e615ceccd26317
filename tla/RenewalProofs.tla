---------------------------- MODULE RenewalProofs -----------------------------
(*****************************************************************************)
(* What is fetched, kept and renewed while others use it: verification keys  *)
(* and revocations, signing keys (security/jwtutil), certificates (security/ *)
(* netutil), the broker connection (infra/messaging/amqpbackend) and cached  *)
(* values (data/cache and its back-ends).                                    *)
(*                                                                           *)
(* Each has an inductive invariant of its own.  KeyInv and SignInv bound the *)
(* age of what is held by when its fetch began; CertInv says what a reload   *)
(* that holds the mutex has read so far; ConnInv says who has the reconnect  *)
(* flag and who owns each open connection; CacheInv says who is registered   *)
(* with a flight; MemcacheInv who is inside the store and past its probe;    *)
(* RcacheInv what the keys were since a read began.                          *)
(*****************************************************************************)
EXTENDS KeyMaterial, AmqpConnection, Caches, TLAPS

-------------------------------------------------------------------------------
(*******************************************************************************)
(* Verification keys and revocations.                                         *)
(*******************************************************************************)

\* The types of the keys of a verifier.
KeyTypes ==
    /\ keyNow \in Nat /\ keyNow <= MaxKeyTime /\ published \subseteq Keys
    /\ withdrawn \in [Keys -> Nat]
    /\ jwksFetch \in [at : {"idle", "read"}, began : Nat, keys : SUBSET Keys]
    /\ keyset \in [keys : SUBSET Keys, last : Nat]
    /\ revoked \in Nat

\* The newest published key is the newest there ever was: what is published, and what is
\* yet to be, was not withdrawn.
Published(m) ==
    /\ m \in published
    /\ \A j \in published : j <= m /\ withdrawn[j] = Never
    /\ \A k \in Keys : k > m => withdrawn[k] = Never

\* A set that was read holds no key that had been withdrawn before the read began, and is
\* stored within the time of one fetch.
SetsAreRecent ==
    /\ jwksFetch.at = "read" =>
           /\ jwksFetch.began <= keyNow /\ keyNow <= jwksFetch.began + KeyFetchTime
           /\ \A k \in jwksFetch.keys : jwksFetch.began <= withdrawn[k]
    /\ keyset.last <= keyNow
    /\ \A k \in keyset.keys : keyset.last <= withdrawn[k] + KeyFetchTime

\* The inductive invariant; a revocation lasts as long as the token.
KeyInv ==
    /\ KeyTypes /\ (\E m \in Keys : Published(m)) /\ SetsAreRecent
    /\ revokedAt = Never \/ revoked = TokenExpiry

\* The bounds are numbers.
LEMMA KeyBounds ==
    /\ KeyMaxStale \in Nat /\ KeyFetchTime \in Nat /\ TokenExpiry \in Nat /\ MaxKeyTime \in Nat
    /\ Never \in Nat /\ Never > MaxKeyTime /\ Keys \subseteq Nat /\ 1 \in Keys
BY KeyAssumption DEF Never, Keys

\* The provider starts with the first key, just fetched.
LEMMA KeyStarts == KeyInit => KeyInv
<1> SUFFICES ASSUME KeyInit PROVE KeyInv
    OBVIOUS
<1>1. KeyTypes
    BY KeyBounds DEF KeyInit, KeyTypes
<1>2. Published(1)
    BY KeyBounds DEF KeyInit, Published
<1>3. SetsAreRecent
    BY DEF KeyInit, SetsAreRecent
<1> QED
    BY <1>1, <1>2, <1>3, KeyBounds DEF KeyInit, KeyInv

\* The newest of the keys that are published is the last one.
LEMMA NewestIs == ASSUME NEW m, Published(m), KeyTypes PROVE Newest(published) = m
<1>1. published \subseteq Nat
    BY KeyBounds DEF KeyTypes
<1>2. m \in published /\ \A j \in published : j <= m
    BY DEF Published
<1>3. Newest(published) \in published /\ \A j \in published : j <= Newest(published)
    BY Zenon, <1>2 DEF Newest
<1>4. Newest(published) <= m /\ m <= Newest(published) /\ Newest(published) \in Nat /\ m \in Nat
    BY Zenon, <1>1, <1>2, <1>3
<1> QED
    BY SMT, <1>4

\* A key that is published is in no set that was fetched before.
LEMMA PublishKeyKeeps == ASSUME KeyInv, PublishKey PROVE KeyInv'
<1>1. PICK m \in Keys : Published(m)
    BY Zenon DEF KeyInv
<1>2. /\ m < MaxKeys /\ published' = published \cup {m + 1}
      /\ UNCHANGED <<keyNow, withdrawn, jwksFetch, keyset, revoked, revokedAt>>
    BY ZenonT(30), <1>1, NewestIs DEF KeyInv, PublishKey, verifier, revocation
<1>3. m + 1 \in Keys /\ m + 1 > m /\ m \in Nat
    BY <1>1, <1>2, KeyAssumption DEF Keys
<1>4. KeyTypes'
    BY Zenon, <1>2, <1>3 DEF KeyInv, KeyTypes
<1>5. withdrawn[m + 1] = Never
    BY Zenon, <1>1, <1>3 DEF Published
<1>6. Published(m + 1)'
  <2>1. m + 1 \in published'
    BY <1>2
  <2>2. \A j \in published' : j <= m + 1 /\ withdrawn'[j] = Never
    <3> SUFFICES ASSUME NEW j \in published' PROVE j <= m + 1 /\ withdrawn'[j] = Never
        OBVIOUS
    <3>1. CASE j = m + 1
        BY <1>2, <1>3, <1>5, <3>1
    <3>2. CASE j \in published
      <4>1. j <= m /\ withdrawn[j] = Never /\ j \in Nat
        BY <1>1, <3>2, KeyBounds DEF Published, KeyInv, KeyTypes
      <4> QED
        BY <1>2, <1>3, <4>1
    <3> QED
        BY Zenon, <1>2, <3>1, <3>2
  <2>3. \A k \in Keys : k > m + 1 => withdrawn'[k] = Never
    <3>1. \A k \in Keys : k > m + 1 => k > m
        BY <1>3, KeyBounds
    <3> QED
        BY Zenon, <1>1, <1>2, <3>1 DEF Published
  <2> QED
    BY Zenon, <2>1, <2>2, <2>3 DEF Published
<1>7. SetsAreRecent'
    BY Zenon, <1>2 DEF KeyInv, SetsAreRecent
<1> QED
    BY Zenon, <1>2, <1>3, <1>4, <1>6, <1>7 DEF KeyInv, Never

\* A key is withdrawn now: every set that has it was fetched no later.
LEMMA WithdrawKeyKeeps == ASSUME KeyInv, WithdrawKey PROVE KeyInv'
<1>1. PICK m \in Keys : Published(m)
    BY Zenon DEF KeyInv
<1>2. Newest(published) = m
    BY Zenon, <1>1, NewestIs DEF KeyInv
<1>3. PICK k \in published \ {m} : published' = published \ {k}
      /\ withdrawn' = [withdrawn EXCEPT ![k] = keyNow]
    BY Zenon, <1>2 DEF WithdrawKey
<1>4. UNCHANGED <<keyNow, jwksFetch, keyset, revoked, revokedAt>>
    BY Zenon DEF WithdrawKey, verifier, revocation
<1>5. /\ k \in Keys /\ k # m /\ keyNow \in Nat /\ withdrawn \in [Keys -> Nat]
      /\ withdrawn' \in [Keys -> Nat] /\ withdrawn'[k] = keyNow
      /\ \A j \in Keys : j # k => withdrawn'[j] = withdrawn[j]
    BY <1>3 DEF KeyInv, KeyTypes
<1>6. KeyTypes'
    BY ZenonT(30), <1>3, <1>4, <1>5 DEF KeyInv, KeyTypes
<1>7. Published(m)'
  <2>1. m \in published' /\ \A j \in published' : j \in published /\ j # k /\ j \in Keys
    BY ZenonT(30), <1>1, <1>3 DEF Published, KeyInv, KeyTypes
  <2>2. k <= m /\ k \in Nat /\ m \in Nat
    BY <1>1, <1>3, <1>5, KeyBounds DEF Published
  <2>3. \A j \in Keys : j > m => j # k
    BY <2>2, KeyBounds
  <2> QED
    BY ZenonT(30), <1>1, <1>5, <2>1, <2>3 DEF Published
<1>8. \A j \in Keys : withdrawn'[j] = withdrawn[j] \/ withdrawn'[j] = keyNow
    BY Zenon, <1>5
<1>9. SetsAreRecent'
  <2>1. jwksFetch.at = "read" => \A j \in jwksFetch.keys : jwksFetch.began <= withdrawn'[j]
    BY ZenonT(30), <1>8 DEF KeyInv, KeyTypes, SetsAreRecent
  <2>2. ASSUME NEW j \in keyset.keys PROVE keyset.last <= withdrawn'[j] + KeyFetchTime
    <3>1. keyset.last \in Nat /\ keyset.last <= keyNow /\ j \in Keys
          /\ keyset.last <= withdrawn[j] + KeyFetchTime
        BY ZenonT(30) DEF KeyInv, KeyTypes, SetsAreRecent
    <3> QED
        BY <1>5, <1>8, <3>1, KeyBounds
  <2> QED
    BY ZenonT(30), <1>4, <2>1, <2>2 DEF KeyInv, SetsAreRecent
<1> QED
    BY Zenon, <1>1, <1>4, <1>6, <1>7, <1>9 DEF KeyInv, Never

\* A fetch begins, fails or stores what it read.
LEMMA FetchKeeps == ASSUME KeyInv, BeginFetch \/ FailFetch \/ StoreKeys PROVE KeyInv'
<1>1. UNCHANGED <<keyNow, published, withdrawn, revoked, revokedAt>>
    BY ZenonT(30) DEF BeginFetch, FailFetch, StoreKeys, issuer, revocation
<1>2. /\ keyNow \in Nat /\ keyNow <= MaxKeyTime /\ published \subseteq Keys
         /\ withdrawn \in [Keys -> Nat]
      /\ jwksFetch \in [at : {"idle", "read"}, began : Nat, keys : SUBSET Keys]
      /\ keyset \in [keys : SUBSET Keys, last : Nat]
    BY ZenonT(30) DEF KeyInv, KeyTypes
<1>3. jwksFetch' \in [at : {"idle", "read"}, began : Nat, keys : SUBSET Keys]
      /\ keyset' \in [keys : SUBSET Keys, last : Nat] /\ SetsAreRecent'
  <2>1. CASE BeginFetch
    <3>1. jwksFetch' = [at |-> "read", began |-> keyNow, keys |-> published] /\ UNCHANGED keyset
        BY Zenon, <2>1 DEF BeginFetch
    <3>2. \A k \in published : keyNow <= withdrawn[k]
      <4>1. \A k \in published : withdrawn[k] = Never
        BY ZenonT(30) DEF KeyInv, Published
      <4>2. keyNow <= Never
        BY <1>2, KeyBounds
      <4> QED
        BY Zenon, <4>1, <4>2
    <3>3. keyNow <= keyNow /\ keyNow <= keyNow + KeyFetchTime
        BY <1>2, KeyBounds
    <3>4. /\ jwksFetch'.at = "read" /\ jwksFetch'.began = keyNow /\ jwksFetch'.keys = published
          /\ jwksFetch' \in [at : {"idle", "read"}, began : Nat, keys : SUBSET Keys]
        BY <1>2, <3>1
    <3> QED
        BY ZenonT(30), <1>1, <1>2, <3>1, <3>2, <3>3, <3>4 DEF KeyInv, SetsAreRecent
  <2>2. CASE FailFetch
    <3>1. jwksFetch' = [jwksFetch EXCEPT !.at = "idle", !.keys = {}] /\ UNCHANGED keyset
        BY Zenon, <2>2 DEF FailFetch
    <3>2. jwksFetch'.at # "read" /\ jwksFetch' \in [at : {"idle", "read"}, began : Nat, keys : SUBSET Keys]
        BY <1>2, <3>1
    <3> QED
        BY ZenonT(30), <1>1, <1>2, <3>1, <3>2 DEF KeyInv, SetsAreRecent
  <2>3. CASE StoreKeys
    <3>1. /\ jwksFetch.at = "read" /\ jwksFetch' = [jwksFetch EXCEPT !.at = "idle", !.keys = {}]
          /\ keyset' = [keys |-> jwksFetch.keys, last |-> keyNow]
        BY Zenon, <2>3 DEF StoreKeys
    <3>2. jwksFetch'.at # "read" /\ jwksFetch' \in [at : {"idle", "read"}, began : Nat, keys : SUBSET Keys]
        BY <1>2, <3>1
    <3>3. /\ keyset' \in [keys : SUBSET Keys, last : Nat] /\ keyset'.keys = jwksFetch.keys
             /\ keyset'.last = keyNow
          /\ jwksFetch.keys \subseteq Keys /\ jwksFetch.began \in Nat
        BY <1>2, <3>1
    <3>4. ASSUME NEW k \in jwksFetch.keys PROVE keyNow <= withdrawn[k] + KeyFetchTime
      <4>1. jwksFetch.began <= withdrawn[k] /\ keyNow <= jwksFetch.began + KeyFetchTime
            /\ withdrawn[k] \in Nat
        BY ZenonT(30), <1>2, <3>1, <3>3 DEF KeyInv, SetsAreRecent
      <4> QED
        BY <1>2, <3>3, <4>1, KeyBounds
    <3>5. keyNow <= keyNow
        BY <1>2
    <3> QED
        BY ZenonT(30), <1>1, <3>2, <3>3, <3>4, <3>5 DEF SetsAreRecent
  <2> QED
    BY Zenon, <2>1, <2>2, <2>3
<1>4. KeyTypes'
    BY ZenonT(30), <1>1, <1>3 DEF KeyInv, KeyTypes
<1>5. \E m \in Keys : Published(m)'
    BY ZenonT(30), <1>1 DEF KeyInv, Published, Never
<1> QED
    BY ZenonT(30), <1>1, <1>3, <1>4, <1>5 DEF KeyInv, Never

\* Time passes; a fetch ends within its timeout.
LEMMA KeyTickKeeps == ASSUME KeyInv, KeyTick PROVE KeyInv'
<1>1. /\ UNCHANGED <<published, withdrawn, jwksFetch, keyset, revoked, revokedAt>>
         /\ keyNow < MaxKeyTime
      /\ keyNow' = keyNow + 1 /\ (jwksFetch.at # "idle" => keyNow < jwksFetch.began + KeyFetchTime)
    BY ZenonT(30) DEF KeyTick, issuer, verifier, revocation
<1>2. /\ keyNow \in Nat /\ jwksFetch \in [at : {"idle", "read"}, began : Nat, keys : SUBSET Keys]
      /\ keyset \in [keys : SUBSET Keys, last : Nat]
    BY ZenonT(30) DEF KeyInv, KeyTypes
<1>3. keyNow' \in Nat /\ keyNow' <= MaxKeyTime /\ jwksFetch.began \in Nat /\ keyset.last \in Nat
    BY <1>1, <1>2, KeyBounds
<1>4. jwksFetch.at = "read" => jwksFetch.began <= keyNow' /\ keyNow' <= jwksFetch.began + KeyFetchTime
  <2>1. jwksFetch.at = "read" => jwksFetch.began <= keyNow /\ keyNow < jwksFetch.began + KeyFetchTime
    BY ZenonT(30), <1>1 DEF KeyInv, SetsAreRecent
  <2> QED
    BY <1>1, <1>2, <1>3, <2>1, KeyBounds
<1>5. keyset.last <= keyNow'
  <2>1. keyset.last <= keyNow
    BY ZenonT(30) DEF KeyInv, SetsAreRecent
  <2> QED
    BY <1>1, <1>2, <1>3, <2>1
<1>6. KeyTypes' /\ SetsAreRecent'
    BY ZenonT(30), <1>1, <1>3, <1>4, <1>5 DEF KeyInv, KeyTypes, SetsAreRecent
<1>7. \E m \in Keys : Published(m)'
    BY ZenonT(30), <1>1 DEF KeyInv, Published, Never
<1> QED
    BY ZenonT(30), <1>1, <1>6, <1>7 DEF KeyInv, Never

\* Every step of keys and verifiers keeps the invariant, and so does a step of others.
LEMMA KeyStep == KeyInv /\ (KeyNext \/ UNCHANGED keyState) => KeyInv'
<1> SUFFICES ASSUME KeyInv, KeyNext \/ UNCHANGED keyState PROVE KeyInv'
    OBVIOUS
<1>1. CASE UNCHANGED <<keyNow, published, withdrawn, jwksFetch, keyset>> /\ revoked' \in Nat
      /\ (revokedAt' = Never \/ revoked' = TokenExpiry)
    BY ZenonT(30), <1>1 DEF KeyInv, KeyTypes, Published, SetsAreRecent, Never
<1>2. CASE BeginVerify \/ CheckRevoked \/ EndVerify
    BY ZenonT(30), <1>1, <1>2 DEF BeginVerify, CheckRevoked, EndVerify, issuer, verifier, KeyInv,
        KeyTypes
<1>3. CASE Revoke
  <2>1. keyNow \in Nat /\ revoked' = keyNow + (TokenExpiry - keyNow)
    BY ZenonT(30), <1>3 DEF Revoke, RevocationTTL, KeyInv, KeyTypes
  <2>2. revoked' = TokenExpiry /\ revoked' \in Nat
    BY <2>1, KeyBounds
  <2> QED
    BY ZenonT(30), <1>1, <1>3, <2>2 DEF Revoke, issuer, verifier
<1>4. CASE Unrevoke
  <2>1. revoked' \in Nat /\ revokedAt' = Never
    BY <1>4 DEF Unrevoke
  <2> QED
    BY ZenonT(30), <1>1, <1>4, <2>1 DEF Unrevoke, issuer, verifier
<1>5. CASE UNCHANGED keyState
    BY ZenonT(30), <1>1, <1>5 DEF keyState, KeyInv, KeyTypes
<1> QED
    BY Zenon, <1>2, <1>3, <1>4, <1>5, PublishKeyKeeps, WithdrawKeyKeeps, FetchKeeps, KeyTickKeeps
        DEF KeyNext

\* What is trusted is recent.
LEMMA KeyInvGives == KeyInv => WithdrawnKeyRunsOut
<1> SUFFICES ASSUME KeyInv, KeySetReady, NEW k \in keyset.keys
    PROVE keyNow <= withdrawn[k] + KeyMaxStale + KeyFetchTime
    BY Zenon DEF WithdrawnKeyRunsOut
<1>1. keyNow \in Nat /\ keyset.last \in Nat /\ withdrawn[k] \in Nat
    BY DEF KeyInv, KeyTypes
<1>2. keyset.last <= withdrawn[k] + KeyFetchTime /\ keyNow - keyset.last <= KeyMaxStale
    BY Zenon DEF KeyInv, SetsAreRecent, KeySetReady
<1> QED
    BY <1>1, <1>2, KeyBounds

\* A check that lets the token pass finds no live entry.
LEMMA CheckIsRight ==
    ASSUME KeyInv, CheckRevoked, verifyCall' = "accepted"
    PROVE  revokedAt = Never \/ keyNow >= TokenExpiry
<1>1. ~IsRevoked
    BY DEF CheckRevoked
<1>2. revoked \in Nat /\ keyNow \in Nat /\ (revokedAt = Never \/ revoked = TokenExpiry)
    BY Zenon DEF KeyInv, KeyTypes
<1> QED
    BY <1>1, <1>2 DEF IsRevoked

-------------------------------------------------------------------------------
(*******************************************************************************)
(* Signing keys.                                                              *)
(*******************************************************************************)

\* A reload under way, the key in use, and a call of Sign.
Refreshes == [at : {"idle", "read", "stored"}, began : Nat, key : Nat]
\* What the provider holds.
SigningKeys == [key : Nat, read : Nat, last : Nat]
\* What a Sign call has loaded.
SignCalls == [at : {"idle", "loaded"}, key : Nat, read : Nat]

\* A reload is under way for no longer than its timeout.
ReloadInTime(time) ==
    refresh.at # "idle" => refresh.began <= time /\ time <= refresh.began + SignFetchTime

\* The inductive invariant: the time stored last is that of a key read within one reload
\* of it, and a closed provider has no reload under way and no key.
SignInv ==
    /\ signNow \in Nat /\ rotated \in Nat /\ refresh \in Refreshes /\ signing \in SigningKeys
       /\ signCall \in SignCalls
    /\ closing \in {"open", "closing", "closed"}
    /\ ReloadInTime(signNow)
    /\ refresh.at = "stored" => signing.read = refresh.began
    /\ signing.last <= signNow /\ signing.last <= signing.read + SignFetchTime
    /\ closing = "closed" => refresh.at = "idle" /\ signing.key = NoKey

\* The bounds are numbers.
LEMMA SignBounds == SignMaxStale \in Nat /\ SignFetchTime \in Nat /\ MaxSignTime \in Nat
BY SignAssumption

\* The provider starts with the key it read at once.
LEMMA SignStarts == SignInit => SignInv
BY SignBounds DEF SignInit, SignInv, Refreshes, SigningKeys, SignCalls, ReloadInTime, NoKey

\* The parts of a reload and of the key in use are numbers.
LEMMA SignNumbers ==
    ASSUME SignInv
    PROVE  /\ signNow \in Nat /\ refresh.began \in Nat /\ refresh.key \in Nat
           /\ signing.key \in Nat /\ signing.read \in Nat /\ signing.last \in Nat
BY DEF SignInv, Refreshes, SigningKeys

\* A reload at rest.
LEMMA RestIsARefresh ==
    ASSUME NEW r, r = [at |-> "idle", began |-> 0, key |-> NoKey]
    PROVE  r \in Refreshes /\ r.at = "idle"
BY ZenonT(30) DEF Refreshes, NoKey

\* The loop stores the key it read before the time it read it.
LEMMA StoreKeyKeeps == ASSUME SignInv, StoreKey PROVE SignInv'
<1>1. UNCHANGED <<signNow, rotated, signCall, closing>> /\ refresh.at = "read" /\ closing # "closed"
    BY ZenonT(30) DEF StoreKey, SignInv
<1>2. refresh \in Refreshes /\ signing \in SigningKeys
    BY Zenon DEF SignInv
<1>3. CASE refresh' = [refresh EXCEPT !.at = "stored"]
      /\ signing' = [signing EXCEPT !.key = refresh.key, !.read = refresh.began]
  <2>1. /\ refresh' \in Refreshes /\ signing' \in SigningKeys /\ refresh'.began = refresh.began
        /\ signing'.read = refresh.began /\ signing'.last = signing.last
    BY <1>2, <1>3, SignNumbers DEF Refreshes, SigningKeys
  <2>2. refresh.began <= signNow /\ signNow <= refresh.began + SignFetchTime /\ signing.last <= signNow
    BY ZenonT(30), <1>1 DEF SignInv, ReloadInTime
  <2>3. signing.last <= refresh.began + SignFetchTime
    BY <2>2, SignNumbers, SignBounds
  <2> QED
    BY ZenonT(30), <1>1, <2>1, <2>2, <2>3 DEF SignInv, ReloadInTime
<1>4. CASE refresh' = [at |-> "idle", began |-> 0, key |-> NoKey] /\ UNCHANGED signing
  <2>1. refresh' \in Refreshes /\ refresh'.at = "idle"
    BY <1>4, RestIsARefresh
  <2>2. refresh'.at # "stored"
    BY <2>1
  <2> QED
    BY ZenonT(30), <1>1, <1>4, <2>1, <2>2 DEF SignInv, ReloadInTime
<1> QED
    BY Zenon, <1>3, <1>4 DEF StoreKey

\* The loop stores the time of a reload that was in time.
LEMMA StoreTimeKeeps == ASSUME SignInv, StoreTime PROVE SignInv'
<1>1. /\ UNCHANGED <<signNow, rotated, signCall, closing>> /\ refresh.at = "stored"
         /\ closing # "closed"
      /\ refresh' = [at |-> "idle", began |-> 0, key |-> NoKey]
         /\ signing' = [signing EXCEPT !.last = signNow]
    BY ZenonT(30) DEF StoreTime, SignInv
<1>2. refresh' \in Refreshes /\ refresh'.at = "idle"
    BY <1>1, RestIsARefresh
<1>3. refresh'.at # "stored"
    BY <1>2
<1>4. signing \in SigningKeys
    BY Zenon DEF SignInv
<1>5. signing' \in SigningKeys /\ signing'.last = signNow /\ signing'.read = signing.read
    BY <1>1, <1>4, SignNumbers DEF SigningKeys
<1>6. signNow <= signing.read + SignFetchTime
    BY ZenonT(30), <1>1 DEF SignInv, ReloadInTime
<1>7. signNow <= signNow
    BY SignNumbers
<1> QED
    BY ZenonT(30), <1>1, <1>2, <1>3, <1>5, <1>6, <1>7 DEF SignInv, ReloadInTime

\* Time passes no further than a reload may take.
LEMMA SignTickKeeps == ASSUME SignInv, SignTick PROVE SignInv'
<1>1. /\ UNCHANGED <<rotated, refresh, signing, signCall, closing>> /\ signNow' = signNow + 1
      /\ (refresh.at # "idle" => signNow < refresh.began + SignFetchTime)
    BY ZenonT(30) DEF SignTick
<1>2. /\ signing.last <= signNow
      /\ refresh.at # "idle" => refresh.began <= signNow
    BY ZenonT(30) DEF SignInv, ReloadInTime
<1>3. /\ signNow' \in Nat /\ signing.last <= signNow'
      /\ refresh.at # "idle" => refresh.began <= signNow' /\ signNow' <= refresh.began + SignFetchTime
    BY <1>1, <1>2, SignNumbers, SignBounds
<1> QED
    BY ZenonT(30), <1>1, <1>3 DEF SignInv, ReloadInTime

\* Every step of a signing provider keeps the invariant, and so does a step of others.
LEMMA SignStep == SignInv /\ (SignNext \/ UNCHANGED signState) => SignInv'
<1> SUFFICES ASSUME SignInv, SignNext \/ UNCHANGED signState PROVE SignInv'
    OBVIOUS
<1>1. CASE Rotate
  <2>1. rotated \in Nat /\ rotated' = rotated + 1
    BY ZenonT(30), <1>1 DEF Rotate, SignInv
  <2>2. rotated' \in Nat
    BY <2>1
  <2> QED
    BY ZenonT(30), <1>1, <2>2 DEF Rotate, SignInv, ReloadInTime
<1>2. CASE BeginRefresh
  <2>1. /\ UNCHANGED <<signNow, rotated, signing, signCall, closing>> /\ closing = "open"
           /\ rotated \in Nat
        /\ refresh' = [at |-> "read", began |-> signNow, key |-> rotated]
    BY ZenonT(30), <1>2 DEF BeginRefresh, SignInv
  <2>2. refresh' \in Refreshes /\ refresh'.at # "stored" /\ refresh'.began = signNow
        /\ closing' # "closed"
    BY ZenonT(30), <2>1, SignNumbers DEF Refreshes
  <2>3. signNow <= signNow /\ signNow <= signNow + SignFetchTime
    BY SignNumbers, SignBounds
  <2> QED
    BY ZenonT(30), <2>1, <2>2, <2>3 DEF SignInv, ReloadInTime
<1>3. CASE LoadSigningKey \/ EndSign
  <2>1. signCall' \in SignCalls
    BY <1>3, SignNumbers DEF LoadSigningKey, EndSign, SignCalls, NoKey
  <2> QED
    BY ZenonT(30), <1>3, <2>1 DEF LoadSigningKey, EndSign, SignInv, ReloadInTime
<1>4. CASE Close
  <2>1. CASE closing' = "closing" /\ UNCHANGED <<signNow, rotated, refresh, signing, signCall>>
    <3>1. closing' \in {"open", "closing", "closed"} /\ closing' # "closed"
        BY <2>1
    <3> QED
        BY ZenonT(30), <2>1, <3>1 DEF SignInv, ReloadInTime
  <2>2. CASE /\ refresh.at = "idle" /\ closing' = "closed" /\ signing' = [signing EXCEPT !.key = NoKey]
             /\ UNCHANGED <<signNow, rotated, refresh, signCall>>
    <3>1. signing \in SigningKeys
        BY Zenon DEF SignInv
    <3>2. /\ signing' \in SigningKeys /\ signing'.key = NoKey /\ signing'.read = signing.read
          /\ signing'.last = signing.last
        BY <2>2, <3>1 DEF SigningKeys, NoKey
    <3> QED
        BY ZenonT(30), <2>2, <3>2 DEF SignInv, ReloadInTime
  <2> QED
    BY ZenonT(30), <1>4, <2>1, <2>2 DEF Close
<1>5. CASE UNCHANGED signState
    BY ZenonT(30), <1>5 DEF signState, SignInv, ReloadInTime
<1> QED
    BY Zenon, <1>1, <1>2, <1>3, <1>4, <1>5, StoreKeyKeeps, StoreTimeKeeps, SignTickKeeps DEF SignNext

\* A token is signed with a recent key, and nothing closed holds one.
LEMMA SignInvGives == SignInv => SignedKeyIsRecent /\ ClosedHoldsNoKey
<1> SUFFICES ASSUME SignInv PROVE SignedKeyIsRecent /\ ClosedHoldsNoKey
    OBVIOUS
<1>1. ASSUME FreshEnough, signCall.read = signing.read
      PROVE  signNow <= signCall.read + SignMaxStale + SignFetchTime
  <2>1. signNow - signing.last <= SignMaxStale /\ signing.last <= signing.read + SignFetchTime
    BY Zenon, <1>1 DEF FreshEnough, SignInv
  <2> QED
    BY <1>1, <2>1, SignNumbers, SignBounds
<1> QED
    BY ZenonT(30), <1>1 DEF SignInv, SignedKeyIsRecent, ClosedHoldsNoKey

-------------------------------------------------------------------------------
(*******************************************************************************)
(* Certificates.                                                              *)
(*******************************************************************************)

\* What a reloader has read so far, and what is served.
Reads == [at : {"out", "cert", "pair"}, cert : Int, key : Int]
\* What is served.
Snapshots == [cert : Int, key : Int, ca : Int]

\* A file holds nothing older than what was taken from it, and nothing of a later rotation.
NotOlder(f, taken) == taken <= rotation /\ (files[f] = Torn \/ taken <= files[f])

\* What the holder of reloadMu has read is no older than what is served, and its pair
\* matches.
Reading(r) ==
    /\ reloader[r].at # "out" => reloadMu = r
    /\ reloader[r].at = "cert" /\ reloader[r].cert # Torn =>
           snapshot.cert <= reloader[r].cert /\ NotOlder("cert", reloader[r].cert)
    /\ reloader[r].at = "pair" =>
           /\ reloader[r].key = reloader[r].cert
           /\ snapshot.cert <= reloader[r].cert /\ NotOlder("cert", reloader[r].cert)

\* The inductive invariant.
CertInv ==
    /\ files \in [Names -> Int] /\ rotation \in Int /\ reloader \in [CertReloaders -> Reads]
    /\ snapshot \in Snapshots
    /\ \A f \in Names : files[f] <= rotation
    /\ rotation >= 0 /\ snapshot.cert = snapshot.key
    /\ NotOlder("cert", snapshot.cert) /\ NotOlder("ca", snapshot.ca)
    /\ \A r \in CertReloaders : Reading(r)

\* A reloader at rest.
LEMMA OutIsARead == Out \in Reads /\ Out.at = "out"
BY DEF Out, Reads

\* The source starts with the first rotation.
LEMMA CertStarts == CertInit => CertInv
<1> SUFFICES ASSUME CertInit PROVE CertInv
    OBVIOUS
<1>1. snapshot \in Snapshots /\ files \in [Names -> Int] /\ files["cert"] = 0 /\ files["ca"] = 0
      /\ snapshot.cert = 0 /\ snapshot.ca = 0 /\ snapshot.key = 0 /\ \A f \in Names : files[f] = 0
    BY DEF CertInit, Snapshots, Names
<1>2. reloader \in [CertReloaders -> Reads] /\ \A r \in CertReloaders : reloader[r].at = "out"
    BY ZenonT(30), OutIsARead DEF CertInit
<1>3. \A r \in CertReloaders : Reading(r)
    BY ZenonT(30), <1>2 DEF Reading
<1> QED
    BY <1>1, <1>2, <1>3 DEF CertInit, CertInv, NotOlder

\* What is served and what a reloader has read are numbers.
LEMMA CertNumbers ==
    ASSUME CertInv
    PROVE  /\ rotation \in Int /\ snapshot.cert \in Int /\ snapshot.ca \in Int /\ snapshot.key \in Int
           /\ \A f \in Names : files[f] \in Int
           /\ \A r \in CertReloaders : reloader[r].cert \in Int /\ reloader[r].key \in Int
           /\ {"cert", "key", "ca"} = Names
BY ZenonT(30) DEF CertInv, Snapshots, Reads, Names

\* A file is replaced by one of the rotation under way, or torn, and a rotation begins.
LEMMA FilesKeep ==
    ASSUME CertInv, UNCHANGED <<reloader, reloadMu, snapshot>>,
           files' \in [Names -> Int], rotation' \in Int, rotation' >= rotation,
           \A f \in Names : files'[f] \in {files[f], Torn, rotation}
    PROVE  CertInv'
<1>1. \A f \in Names : files'[f] <= rotation' /\ files[f] \in Int
  <2> SUFFICES ASSUME NEW f \in Names PROVE files'[f] <= rotation' /\ files[f] \in Int
      OBVIOUS
  <2>1. files[f] \in Int /\ files[f] <= rotation /\ rotation \in Int /\ rotation >= 0
    BY Zenon, CertNumbers DEF CertInv
  <2> QED
    BY <2>1 DEF Torn
<1>2. ASSUME NEW f \in Names, NEW x \in Int, NotOlder(f, x) PROVE NotOlder(f, x)'
  <2>1. rotation \in Int /\ x <= rotation /\ files[f] \in Int /\ (files[f] = Torn \/ x <= files[f])
        /\ files'[f] \in {files[f], Torn, rotation}
    BY Zenon, <1>2, CertNumbers DEF NotOlder
  <2> QED
    BY <2>1 DEF NotOlder, Torn
<1>3. "cert" \in Names /\ "ca" \in Names
    BY ZenonT(30) DEF Names
<1>4. \A r \in CertReloaders : Reading(r)'
  <2> SUFFICES ASSUME NEW r \in CertReloaders PROVE Reading(r)'
      BY ZenonT(30)
  <2>1. Reading(r) /\ reloader[r].cert \in Int
    BY Zenon, CertNumbers DEF CertInv
  <2>2. NotOlder("cert", reloader[r].cert) => NotOlder("cert", reloader[r].cert)'
    <3> SUFFICES ASSUME NotOlder("cert", reloader[r].cert) PROVE NotOlder("cert", reloader[r].cert)'
        BY ZenonT(30)
    <3>1. \A x \in Int : NotOlder("cert", x) => NotOlder("cert", x)'
        BY Zenon, <1>2, <1>3
    <3>2. reloader'[r].cert = reloader[r].cert
        BY Zenon
    <3> QED
        BY ZenonT(30), <2>1, <3>1, <3>2 DEF NotOlder
  <2> QED
    BY ZenonT(30), <2>1, <2>2 DEF Reading
<1>5. NotOlder("cert", snapshot.cert)' /\ NotOlder("ca", snapshot.ca)'
  <2>1. snapshot.cert \in Int /\ snapshot.ca \in Int /\ NotOlder("cert", snapshot.cert)
        /\ NotOlder("ca", snapshot.ca)
    BY Zenon, CertNumbers DEF CertInv
  <2>2. \A f \in Names, x \in Int : NotOlder(f, x) => x <= rotation'
        /\ (files'[f] = Torn \/ x <= files'[f])
    BY Zenon, <1>2 DEF NotOlder
  <2> QED
    BY ZenonT(30), <1>3, <2>1, <2>2 DEF NotOlder
<1>6. rotation' >= 0
    BY DEF CertInv
<1> QED
    BY ZenonT(30), <1>1, <1>4, <1>5, <1>6 DEF CertInv

\* A reload begins: the holder of reloadMu reads the certificate.
LEMMA BeginReloadKeeps == ASSUME CertInv, NEW r \in CertReloaders, BeginReload(r) PROVE CertInv'
<1> DEFINE c == files["cert"]
<1>1. /\ reloadMu = "free" /\ reloadMu' = r /\ UNCHANGED <<files, rotation, snapshot>>
      /\ reloader' = [reloader EXCEPT ![r] = [at |-> "cert", cert |-> c, key |-> 0]]
    BY Zenon DEF BeginReload, LockReload
<1>2. /\ reloader \in [CertReloaders -> Reads] /\ c \in Int /\ rotation \in Int /\ c <= rotation
         /\ NotOlder("cert", snapshot.cert)
    BY ZenonT(30), CertNumbers DEF CertInv, Names
<1>3. [at |-> "cert", cert |-> c, key |-> 0] \in Reads
    BY <1>2 DEF Reads
<1>4. /\ reloader' \in [CertReloaders -> Reads] /\ reloader'[r] = [at |-> "cert", cert |-> c, key |-> 0]
      /\ \A q \in CertReloaders : q # r => reloader'[q] = reloader[q]
    BY Zenon, <1>1, <1>2, <1>3
<1>5. reloader'[r].at = "cert" /\ reloader'[r].cert = c /\ reloader'[r].at # "pair"
    BY <1>4
<1>6. Reading(r)'
  <2>1. c <= c
    BY <1>2
  <2> QED
    BY ZenonT(30), <1>1, <1>2, <1>5, <2>1 DEF Reading, NotOlder
<1>7. ASSUME NEW q \in CertReloaders, q # r PROVE Reading(q)'
  <2>1. reloader[q].at = "out"
    BY ZenonT(30), <1>1 DEF CertInv, Reading, CertReloaders
  <2>2. reloader'[q].at = "out"
    BY Zenon, <1>4, <1>7, <2>1
  <2> QED
    BY ZenonT(30), <2>2 DEF Reading
<1> HIDE DEF c
<1> QED
    BY ZenonT(30), <1>1, <1>4, <1>6, <1>7 DEF CertInv, NotOlder

\* The reloader that is in holds reloadMu; the others are out.
LEMMA OthersAreOut ==
    ASSUME CertInv, NEW r \in CertReloaders, reloader[r].at # "out", NEW q \in CertReloaders, q # r
    PROVE  reloader[q].at = "out"
BY Zenon DEF CertInv, Reading

\* A reload ends.
LEMMA EndsKeeps ==
    ASSUME CertInv, NEW r \in CertReloaders, reloader[r].at # "out", EndsReload(r)
    PROVE  reloader' \in [CertReloaders -> Reads] /\ \A q \in CertReloaders : Reading(q)'
<1>1. reloader' \in [CertReloaders -> Reads] /\ reloader'[r] = Out
      /\ \A q \in CertReloaders : q # r => reloader'[q] = reloader[q]
    BY ZenonT(30), OutIsARead DEF CertInv, EndsReload
<1>2. \A q \in CertReloaders : reloader'[q].at = "out"
    BY ZenonT(30), <1>1, OutIsARead, OthersAreOut
<1>3. "out" # "cert" /\ "out" # "pair"
    BY ZenonT(30)
<1> QED
    BY ZenonT(30), <1>1, <1>2, <1>3 DEF Reading

\* The key file is read after the certificate.
LEMMA ReadKeyKeeps == ASSUME CertInv, NEW r \in CertReloaders, ReadKey(r) PROVE CertInv'
<1>1. UNCHANGED <<files, rotation, snapshot>> /\ reloader[r].at = "cert"
    BY Zenon DEF ReadKey
<1>2. reloader[r].at # "out"
    BY ZenonT(30), <1>1
<1>3. CASE EndsReload(r)
    BY ZenonT(30), <1>1, <1>2, <1>3, EndsKeeps DEF CertInv, NotOlder
<1>4. CASE /\ PairMatches(reloader[r].cert, files["key"]) /\ UNCHANGED reloadMu
           /\ reloader' = [reloader EXCEPT ![r].at = "pair", ![r].key = files["key"]]
  <2>1. reloader[r].cert # Torn /\ files["key"] = reloader[r].cert /\ files["key"] \in Int
    BY <1>4, CertNumbers DEF PairMatches, Names
  <2>2. reloader \in [CertReloaders -> Reads]
    BY Zenon DEF CertInv
  <2>3. /\ reloader' \in [CertReloaders -> Reads] /\ reloader'[r].at = "pair"
        /\ reloader'[r].key = files["key"] /\ reloader'[r].cert = reloader[r].cert
        /\ \A q \in CertReloaders : q # r => reloader'[q] = reloader[q]
    BY <1>4, <2>1, <2>2 DEF Reads
  <2>4. reloader'[r].at # "cert" /\ reloadMu = r
    BY ZenonT(30), <1>2, <2>3 DEF CertInv, Reading
  <2>5. Reading(r)'
    BY ZenonT(30), <1>1, <1>4, <2>1, <2>3, <2>4 DEF CertInv, Reading, NotOlder
  <2>6. ASSUME NEW q \in CertReloaders, q # r PROVE Reading(q)'
    <3>1. reloader'[q].at = "out"
        BY Zenon, <1>2, <2>3, <2>6, OthersAreOut
    <3> QED
        BY <3>1 DEF Reading
  <2> QED
    BY ZenonT(30), <1>1, <2>3, <2>5, <2>6 DEF CertInv, NotOlder
<1> QED
    BY Zenon, <1>3, <1>4 DEF ReadKey

\* What a reload stores is a pair, and no older than what was served.
LEMMA ReadCAsKeeps ==
    ASSUME CertInv, NEW r \in CertReloaders, ReadCAs(r)
    PROVE  CertInv' /\ snapshot'.cert >= snapshot.cert /\ snapshot'.ca >= snapshot.ca
<1>1. UNCHANGED <<files, rotation>> /\ reloader[r].at = "pair" /\ EndsReload(r)
    BY Zenon DEF ReadCAs
<1>2. reloader[r].at # "out"
    BY ZenonT(30), <1>1
<1>3. reloader' \in [CertReloaders -> Reads] /\ \A q \in CertReloaders : Reading(q)'
    BY Zenon, <1>1, <1>2, EndsKeeps
<1>4. CASE snapshot' = snapshot
  <2>1. snapshot'.cert >= snapshot.cert /\ snapshot'.ca >= snapshot.ca
    BY <1>4, CertNumbers
  <2>2. CertInv'
    BY ZenonT(30), <1>1, <1>3, <1>4 DEF CertInv, NotOlder
  <2> QED
    BY Zenon, <2>1, <2>2
<1>5. CASE files["ca"] # Torn /\ snapshot' = [cert |-> reloader[r].cert, key |-> reloader[r].key, ca |-> files["ca"]]
  <2>1. /\ reloader[r].cert \in Int /\ reloader[r].key \in Int /\ files["ca"] \in Int
           /\ files["ca"] <= rotation
        /\ snapshot.cert \in Int /\ snapshot.ca \in Int /\ rotation \in Int
    BY ZenonT(30), CertNumbers DEF CertInv
  <2>2. /\ snapshot' \in Snapshots /\ snapshot'.cert = reloader[r].cert
           /\ snapshot'.key = reloader[r].key
        /\ snapshot'.ca = files["ca"]
    BY ZenonT(30), <1>5, <2>1 DEF Snapshots
  <2>3. /\ reloader[r].key = reloader[r].cert /\ snapshot.cert <= reloader[r].cert
        /\ NotOlder("cert", reloader[r].cert)
    BY Zenon, <1>1 DEF CertInv, Reading
  <2>4. snapshot.ca <= files["ca"]
    BY Zenon, <1>5 DEF CertInv, NotOlder
  <2>5. snapshot'.cert >= snapshot.cert /\ snapshot'.ca >= snapshot.ca /\ files["ca"] <= files["ca"]
    BY <2>1, <2>2, <2>3, <2>4
  <2>6. NotOlder("ca", snapshot.ca)' /\ NotOlder("cert", snapshot.cert)'
    BY ZenonT(30), <1>1, <2>1, <2>2, <2>3, <2>5 DEF NotOlder
  <2>7. CertInv'
    BY ZenonT(30), <1>1, <1>3, <2>2, <2>3, <2>6 DEF CertInv
  <2> QED
    BY Zenon, <2>5, <2>7
<1> QED
    BY Zenon, <1>4, <1>5 DEF ReadCAs

\* Every step keeps the invariant and takes nothing back, and so does a step of others.
LEMMA CertStep ==
    CertInv /\ (CertNext \/ UNCHANGED certState)
      => CertInv' /\ snapshot'.cert >= snapshot.cert /\ snapshot'.ca >= snapshot.ca
<1> SUFFICES ASSUME CertInv, CertNext \/ UNCHANGED certState
             PROVE  CertInv' /\ snapshot'.cert >= snapshot.cert /\ snapshot'.ca >= snapshot.ca
    OBVIOUS
<1>1. snapshot' = snapshot => snapshot'.cert >= snapshot.cert /\ snapshot'.ca >= snapshot.ca
    BY CertNumbers
<1>2. CASE BeginRotation
  <2>1. rotation' \in Int /\ rotation' >= rotation
    BY <1>2, CertNumbers DEF BeginRotation
  <2> QED
    BY ZenonT(30), <1>1, <1>2, <2>1, FilesKeep DEF BeginRotation, CertInv
<1>3. CASE ReplaceFile
  <2>1. PICK f \in Names : files' = [files EXCEPT ![f] = rotation] \/ files' = [files EXCEPT ![f] = Torn]
    BY Zenon, <1>3 DEF ReplaceFile
  <2>2. files \in [Names -> Int] /\ rotation \in Int /\ Torn \in Int
    BY DEF CertInv, Torn
  <2>3. files' \in [Names -> Int] /\ \A n \in Names : files'[n] \in {files[n], Torn, rotation}
    BY Zenon, <2>1, <2>2
  <2>4. rotation >= rotation
    BY <2>2
  <2> QED
    BY ZenonT(30), <1>1, <1>3, <2>2, <2>3, <2>4, FilesKeep DEF ReplaceFile
<1>4. CASE CloseSource \/ UNCHANGED certState
    BY ZenonT(30), <1>1, <1>4 DEF CloseSource, certState, CertInv, Reading, NotOlder
<1>5. ASSUME NEW r \in CertReloaders, BeginReload(r) \/ ReloadStep(r)
      PROVE  CertInv' /\ snapshot'.cert >= snapshot.cert /\ snapshot'.ca >= snapshot.ca
    BY ZenonT(30), <1>1, <1>5, BeginReloadKeeps, ReadKeyKeeps, ReadCAsKeeps
        DEF BeginReload, ReloadStep, ReadKey
<1> QED
    BY Zenon, <1>2, <1>3, <1>4, <1>5 DEF CertNext

-------------------------------------------------------------------------------
(*******************************************************************************)
(* The broker connection.                                                     *)
(*******************************************************************************)

\* A reconnect goroutine.
Goroutines == [at : InReconnect \cup {"off", "release", "look", "retake", "return"},
               attempts : Nat, dialled : Slots \cup {0}]

\* A goroutine that has the reconnecting flag.
HoldsFlag(g) == loop[g].at \in InReconnect \cup {"release"}

\* The inductive invariant: one goroutine has the flag, which is up then; an open
\* connection is c.conn or the one that is about to be installed.
ConnInv ==
    /\ conn \in Slots \cup {0} /\ open \subseteq Slots /\ loop \in [Loops -> Goroutines]
    /\ reconnecting \in BOOLEAN
    /\ \A g \in Loops : HoldsFlag(g) => reconnecting
    /\ \A g, h \in Loops : HoldsFlag(g) /\ HoldsFlag(h) => g = h
    /\ \A s \in open : s = conn \/ \E g \in Loops : loop[g].at = "install" /\ loop[g].dialled = s
    /\ stop = "closed" => conn \notin open

\* A loop at rest, and one that begins.
LEMMA LoopsBegin ==
    /\ NoLoop \in Goroutines /\ NoLoop.at = "off" /\ NewLoop \in Goroutines /\ NewLoop.at = "backoff"
    /\ "backoff" \in InReconnect /\ "off" \notin InReconnect \cup {"release"} /\ "off" # "install"
       /\ "backoff" # "install"
BY DEF NoLoop, NewLoop, Goroutines, InReconnect

\* The connection starts dialled and watched.
LEMMA ConnStarts == ConnInit => ConnInv
<1> SUFFICES ASSUME ConnInit PROVE ConnInv
    OBVIOUS
<1>1. Fresh \in Slots
    BY Zenon, ConnectionAssumption DEF Fresh
<1>2. stop # "closed"
    BY ZenonT(30) DEF ConnInit
<1>3. CASE /\ conn = Fresh /\ open = {Fresh} /\ reconnecting = FALSE /\ loop = [g \in Loops |-> NoLoop]
    BY ZenonT(30), <1>1, <1>2, <1>3, LoopsBegin DEF ConnInv, HoldsFlag
<1>4. CASE /\ conn = 0 /\ open = {} /\ reconnecting = TRUE
           /\ \E g \in Loops : loop = [h \in Loops |-> IF h = g THEN NewLoop ELSE NoLoop]
  <2>1. PICK g \in Loops : loop = [h \in Loops |-> IF h = g THEN NewLoop ELSE NoLoop]
    BY Zenon, <1>4
  <2>2. loop \in [Loops -> Goroutines] /\ \A h \in Loops : h # g => loop[h] = NoLoop
    BY ZenonT(30), <2>1, LoopsBegin
  <2>3. \A h \in Loops : HoldsFlag(h) => h = g
    BY ZenonT(30), <2>2, LoopsBegin DEF HoldsFlag
  <2> QED
    BY ZenonT(30), <1>2, <1>4, <2>2, <2>3 DEF ConnInv
<1> QED
    BY Zenon, <1>3, <1>4 DEF ConnInit

\* Only g moves.
OnlyMoves(g) == loop' \in [Loops -> Goroutines] /\ \A h \in Loops : h # g => loop'[h] = loop[h]

\* The ways in which a goroutine moves.
LEMMA Moved ==
    ASSUME ConnInv, NEW g \in Loops, NEW at \in InReconnect \cup {"off", "release", "look", "retake", "return"}
    PROVE  /\ loop' = [loop EXCEPT ![g].at = at] => OnlyMoves(g) /\ loop'[g].at = at
           /\ loop' = [loop EXCEPT ![g].at = at, ![g].attempts = 0] => OnlyMoves(g) /\ loop'[g].at = at
           /\ loop' = [loop EXCEPT ![g].at = at, ![g].attempts = @ + 1] => OnlyMoves(g)
              /\ loop'[g].at = at
           /\ \A s \in Slots : loop' = [loop EXCEPT ![g].at = at, ![g].dialled = s]
                 => OnlyMoves(g) /\ loop'[g].at = at /\ loop'[g].dialled = s
           /\ loop' = [loop EXCEPT ![g] = NoLoop] => OnlyMoves(g) /\ loop'[g].at = "off"
           /\ loop' = [loop EXCEPT ![g] = NewLoop] => OnlyMoves(g) /\ loop'[g].at = "backoff"
           /\ loop[g].dialled \in Slots \cup {0}
<1>1. loop \in [Loops -> Goroutines]
    BY Zenon DEF ConnInv
<1>2. loop' = [loop EXCEPT ![g].at = at] => OnlyMoves(g) /\ loop'[g].at = at
    BY <1>1 DEF Goroutines, OnlyMoves
<1> DEFINE q == [loop EXCEPT ![g].at = at]
<1>3. /\ q \in [Loops -> Goroutines] /\ q[g].at = at /\ q[g] \in Goroutines
      /\ \A h \in Loops : h # g => q[h] = loop[h]
    BY <1>1 DEF Goroutines
<1>4. /\ [loop EXCEPT ![g].at = at, ![g].attempts = 0] = [q EXCEPT ![g].attempts = 0]
      /\ [loop EXCEPT ![g].at = at, ![g].attempts = @ + 1] = [q EXCEPT ![g].attempts = @ + 1]
      /\ \A s \in Slots : [loop EXCEPT ![g].at = at, ![g].dialled = s] = [q EXCEPT ![g].dialled = s]
    BY <1>1
<1> HIDE DEF q
<1>5. /\ loop' = [q EXCEPT ![g].attempts = 0] => OnlyMoves(g) /\ loop'[g].at = at
      /\ loop' = [q EXCEPT ![g].attempts = @ + 1] => OnlyMoves(g) /\ loop'[g].at = at
    BY <1>3 DEF Goroutines, OnlyMoves
<1>9. \A s \in Slots : loop' = [q EXCEPT ![g].dialled = s]
         => OnlyMoves(g) /\ loop'[g].at = at /\ loop'[g].dialled = s
    BY <1>3 DEF Goroutines, OnlyMoves
<1>6. loop' = [loop EXCEPT ![g] = NoLoop] => OnlyMoves(g) /\ loop'[g].at = "off"
    BY ZenonT(30), <1>1, LoopsBegin DEF OnlyMoves
<1>7. loop' = [loop EXCEPT ![g] = NewLoop] => OnlyMoves(g) /\ loop'[g].at = "backoff"
    BY ZenonT(30), <1>1, LoopsBegin DEF OnlyMoves
<1>8. loop[g].dialled \in Slots \cup {0}
    BY ZenonT(30), <1>1 DEF Goroutines
<1> QED
    BY ZenonT(30), <1>2, <1>4, <1>5, <1>6, <1>7, <1>8, <1>9

\* A goroutine moves on: it keeps the flag, gives it up or takes it, and opens nothing.
LEMMA LoopMoves ==
    ASSUME ConnInv, NEW g \in Loops, OnlyMoves(g), loop[g].at # "install",
           UNCHANGED <<conn, open, stop>>, reconnecting' \in BOOLEAN,
           HoldsFlag(g)' => reconnecting' /\ (HoldsFlag(g) \/ ~reconnecting),
           reconnecting' = reconnecting \/ (reconnecting' /\ ~reconnecting) \/ HoldsFlag(g)
    PROVE  ConnInv'
<1>1. \A h \in Loops : h # g /\ HoldsFlag(h)' => HoldsFlag(h)
    BY Zenon DEF HoldsFlag, OnlyMoves
<1>2. \A h \in Loops : HoldsFlag(h)' => reconnecting'
    BY ZenonT(30), <1>1 DEF ConnInv
<1>3. \A h, k \in Loops : HoldsFlag(h)' /\ HoldsFlag(k)' => h = k
    BY ZenonT(30), <1>1 DEF ConnInv
<1>4. \A s \in open : s = conn \/ \E h \in Loops : loop'[h].at = "install" /\ loop'[h].dialled = s
    BY ZenonT(30) DEF ConnInv, OnlyMoves
<1> QED
    BY ZenonT(30), <1>2, <1>3, <1>4 DEF ConnInv, OnlyMoves

\* The goroutine that has the flag moves on and keeps it.
LEMMA FlagMoves ==
    ASSUME ConnInv, NEW g \in Loops, HoldsFlag(g), OnlyMoves(g), UNCHANGED reconnecting,
           conn' \in Slots \cup {0}, open' \subseteq Slots,
           \A s \in open' : s = conn' \/ (loop'[g].at = "install" /\ loop'[g].dialled = s),
           stop' = "closed" => conn' \notin open'
    PROVE  ConnInv'
<1>1. \A h \in Loops : HoldsFlag(h)' => HoldsFlag(h)
    BY ZenonT(30) DEF HoldsFlag, OnlyMoves
<1> QED
    BY ZenonT(30), <1>1 DEF ConnInv, OnlyMoves

\* What the goroutine with the flag finds open: c.conn, or what it has dialled itself.
LEMMA OpenIsOwned ==
    ASSUME ConnInv, NEW g \in Loops, HoldsFlag(g), NEW s \in open
    PROVE  s = conn \/ (loop[g].at = "install" /\ loop[g].dialled = s)
<1>1. \A h \in Loops : loop[h].at = "install" => HoldsFlag(h)
    BY ZenonT(30) DEF HoldsFlag, InReconnect
<1> QED
    BY ZenonT(30), <1>1 DEF ConnInv

\* A step of the goroutine with the flag that opens nothing and closes nothing.
LEMMA PlaceMoves ==
    ASSUME ConnInv, NEW g \in Loops, HoldsFlag(g), loop[g].at # "install", OnlyMoves(g),
           UNCHANGED <<conn, open, reconnecting, stop>>
    PROVE  ConnInv'
<1>1. \A s \in open : s = conn
    BY Zenon, OpenIsOwned
<1> QED
    BY ZenonT(30), <1>1, FlagMoves DEF ConnInv

\* A step that leaves the loops alone.
LEMMA OpenShrinks ==
    ASSUME ConnInv, UNCHANGED <<loop, reconnecting, conn>>, open' \subseteq open,
           stop' = "closed" => stop = "closed" \/ conn \notin open'
    PROVE  ConnInv'
BY ZenonT(30) DEF ConnInv, HoldsFlag

\* The places of a goroutine, told apart.
LEMMA Places ==
    /\ {"backoff", "dial", "install", "callback", "undo", "check", "final"} = InReconnect
    /\ {"backoff", "dial", "install", "callback", "undo", "check", "final", "off", "release", "look", "retake", "return"}
         = InReconnect \cup {"off", "release", "look", "retake", "return"}
    /\ "install" \notin {"backoff", "dial", "callback", "undo", "check", "final", "release", "look", "retake", "return"}
    /\ \A at \in {"off", "look", "retake", "return"} : at \notin InReconnect \cup {"release"}
BY DEF InReconnect

\* The goroutine with the flag that is not about to install finds nothing open but c.conn.
LEMMA CallbackKeeps == ASSUME ConnInv, NEW g \in Loops, CallOnReconnect(g) PROVE ConnInv'
<1> DEFINE d == loop[g].dialled
<1>1. loop[g].at = "callback" /\ UNCHANGED <<reconnecting, stop>>
    BY Zenon DEF CallOnReconnect
<1>2. HoldsFlag(g) /\ loop[g].at # "install"
    BY ZenonT(30), <1>1 DEF HoldsFlag, InReconnect
<1>3. \A s \in open : s = conn
    BY Zenon, <1>2, OpenIsOwned
<1>4. CASE Goto(g, "check") /\ UNCHANGED <<conn, open>>
    BY ZenonT(30), <1>1, <1>2, <1>4, Moved, Places, PlaceMoves DEF Goto
<1>5. CASE Goto(g, "undo") /\ open' = open \ {d} /\ (IF conn = d THEN conn' = 0 ELSE UNCHANGED conn)
  <2>1. OnlyMoves(g)
    BY ZenonT(30), <1>5, Moved, Places DEF Goto
  <2>2. open' \subseteq Slots /\ conn' \in Slots \cup {0} /\ 0 \notin open'
    BY ZenonT(30), <1>5, ConnectionAssumption DEF ConnInv
  <2>3. \A s \in open' : s = conn'
    BY ZenonT(30), <1>3, <1>5
  <2>4. stop' = "closed" => conn' \notin open'
    BY ZenonT(30), <1>1, <1>5, <2>2 DEF ConnInv
  <2> QED
    BY ZenonT(30), <1>1, <1>2, <2>1, <2>2, <2>3, <2>4, FlagMoves
<1> QED
    BY ZenonT(30), <1>4, <1>5 DEF CallOnReconnect

\* A dialled connection is open and about to be installed.
LEMMA DialKeeps == ASSUME ConnInv, NEW g \in Loops, Dial(g) PROVE ConnInv'
<1>1. loop[g].at = "dial" /\ UNCHANGED <<conn, reconnecting, stop>>
    BY Zenon DEF Dial
<1>2. HoldsFlag(g) /\ loop[g].at # "install"
    BY ZenonT(30), <1>1 DEF HoldsFlag, InReconnect
<1>3. \A s \in open : s = conn
    BY Zenon, <1>2, OpenIsOwned
<1>4. CASE Retry(g) /\ UNCHANGED open
    BY ZenonT(30), <1>1, <1>2, <1>4, Moved, Places, PlaceMoves DEF Retry
<1>5. ASSUME NEW s \in Slots \ (open \cup {conn}), open' = open \cup {s},
             loop' = [loop EXCEPT ![g].at = "install", ![g].dialled = s]
      PROVE  ConnInv'
  <2>1. OnlyMoves(g) /\ loop'[g].at = "install" /\ loop'[g].dialled = s
    BY ZenonT(30), <1>5, Moved, Places
  <2>2. open' \subseteq Slots /\ conn' \in Slots \cup {0}
    BY ZenonT(30), <1>1, <1>5 DEF ConnInv
  <2>3. stop' = "closed" => conn' \notin open'
    BY ZenonT(30), <1>1, <1>5 DEF ConnInv
  <2> QED
    BY ZenonT(30), <1>1, <1>2, <1>3, <1>5, <2>1, <2>2, <2>3, FlagMoves
<1> QED
    BY ZenonT(30), <1>4, <1>5 DEF Dial

\* It is installed in the place of the old one, or closed.
LEMMA InstallKeeps == ASSUME ConnInv, NEW g \in Loops, Install(g) PROVE ConnInv'
<1> DEFINE d == loop[g].dialled
<1>1. loop[g].at = "install" /\ UNCHANGED <<reconnecting, stop>>
    BY Zenon DEF Install
<1>2. HoldsFlag(g)
    BY ZenonT(30), <1>1 DEF HoldsFlag, InReconnect
<1>3. \A s \in open : s = conn \/ s = d
    BY Zenon, <1>2, OpenIsOwned
<1>4. d \in Slots \cup {0}
    BY Zenon, Moved, Places
<1>5. CASE open' = open \ {d} /\ Goto(g, "release") /\ UNCHANGED conn
  <2>1. OnlyMoves(g)
    BY ZenonT(30), <1>5, Moved, Places DEF Goto
  <2>2. open' \subseteq Slots /\ conn' \in Slots \cup {0} /\ (stop' = "closed" => conn' \notin open')
    BY ZenonT(30), <1>1, <1>5 DEF ConnInv
  <2>3. \A s \in open' : s = conn'
    BY ZenonT(30), <1>3, <1>5
  <2> QED
    BY ZenonT(30), <1>1, <1>2, <2>1, <2>2, <2>3, FlagMoves
<1>6. CASE stop = "no" /\ conn' = d /\ open' = open \ {conn} /\ Goto(g, "callback")
  <2>1. OnlyMoves(g)
    BY ZenonT(30), <1>6, Moved, Places DEF Goto
  <2>2. open' \subseteq Slots /\ conn' \in Slots \cup {0}
    BY ZenonT(30), <1>4, <1>6 DEF ConnInv
  <2>3. stop' # "closed"
    BY ZenonT(30), <1>1, <1>6
  <2>4. \A s \in open' : s = conn'
    BY ZenonT(30), <1>3, <1>6
  <2> QED
    BY ZenonT(30), <1>1, <1>2, <2>1, <2>2, <2>3, <2>4, FlagMoves
<1> QED
    BY ZenonT(30), <1>5, <1>6 DEF Install

\* The other steps of reconnect.
LEMMA ReconnectKeeps ==
    ASSUME ConnInv, NEW g \in Loops, Backoff(g) \/ UndoDrain(g) \/ CheckAlive(g) \/ FinalDrain(g)
    PROVE  ConnInv'
<1>1. UNCHANGED <<conn, open, reconnecting, stop>>
    BY ZenonT(30) DEF Backoff, UndoDrain, CheckAlive, FinalDrain
<1>2. loop[g].at \in {"backoff", "undo", "check", "final"}
    BY ZenonT(30) DEF Backoff, UndoDrain, CheckAlive, FinalDrain
<1>3. HoldsFlag(g) /\ loop[g].at # "install"
    BY ZenonT(30), <1>2 DEF HoldsFlag, InReconnect
<1>4. OnlyMoves(g)
  <2>1. CASE Backoff(g)
    BY ZenonT(30), <2>1, Moved, Places DEF Backoff, Goto
  <2>2. CASE UndoDrain(g)
    BY ZenonT(30), <2>2, Moved, Places DEF UndoDrain, Retry
  <2>3. CASE CheckAlive(g)
    BY ZenonT(30), <2>3, Moved, Places DEF CheckAlive, Retry
  <2>4. CASE FinalDrain(g)
    BY ZenonT(30), <2>4, Moved, Places DEF FinalDrain, Goto
  <2> QED
    BY Zenon, <2>1, <2>2, <2>3, <2>4
<1> QED
    BY ZenonT(30), <1>1, <1>3, <1>4, PlaceMoves

\* The flag is let go of, and taken again if nobody else has it.
LEMMA DrainPendingKeeps ==
    ASSUME ConnInv, NEW g \in Loops, ReleaseFlag(g) \/ LookAgain(g) \/ RetakeFlag(g) \/ ReturnSignal(g)
    PROVE  ConnInv'
<1>1. UNCHANGED <<conn, open, stop>>
    BY ZenonT(30) DEF ReleaseFlag, LookAgain, RetakeFlag, ReturnSignal
<1>2. loop[g].at \in {"release", "look", "retake", "return"}
    BY ZenonT(30) DEF ReleaseFlag, LookAgain, RetakeFlag, ReturnSignal
<1>3. loop[g].at # "install" /\ reconnecting \in BOOLEAN
    BY ZenonT(30), <1>2 DEF ConnInv
<1>4. CASE ReleaseFlag(g)
  <2>1. HoldsFlag(g) /\ reconnecting' = FALSE
    BY ZenonT(30), <1>4 DEF ReleaseFlag, HoldsFlag
  <2>2. OnlyMoves(g) /\ ~HoldsFlag(g)'
    BY ZenonT(30), <1>4, Moved, Places DEF ReleaseFlag, Goto, HoldsFlag
  <2> QED
    BY ZenonT(30), <1>1, <1>3, <2>1, <2>2, LoopMoves
<1>5. CASE LookAgain(g) \/ ReturnSignal(g)
  <2>1. OnlyMoves(g) /\ ~HoldsFlag(g)' /\ UNCHANGED reconnecting
    BY ZenonT(30), <1>5, Moved, Places DEF LookAgain, ReturnSignal, Goto, HoldsFlag
  <2> QED
    BY ZenonT(30), <1>1, <1>3, <2>1, LoopMoves
<1>6. CASE RetakeFlag(g)
  <2>1. CASE Goto(g, "return") /\ UNCHANGED reconnecting
    <3>1. OnlyMoves(g) /\ loop'[g].at = "return"
        BY ZenonT(30), <2>1, Moved, Places DEF Goto
    <3>2. ~HoldsFlag(g)'
        BY ZenonT(30), <3>1, Places DEF HoldsFlag
    <3> QED
        BY ZenonT(30), <1>1, <1>3, <2>1, <3>1, <3>2, LoopMoves
  <2>2. CASE ~reconnecting /\ reconnecting' = TRUE /\ loop' = [loop EXCEPT ![g] = NewLoop]
    <3>1. OnlyMoves(g)
        BY ZenonT(30), <2>2, Moved, Places
    <3> QED
        BY ZenonT(30), <1>1, <1>3, <2>2, <3>1, LoopMoves
  <2> QED
    BY Zenon, <1>6, <2>1, <2>2 DEF RetakeFlag
<1> QED
    BY Zenon, <1>4, <1>5, <1>6

\* A watcher starts a loop only when it takes the flag.
LEMMA WatcherKeeps == ASSUME ConnInv, NEW s \in Slots, WatcherStep(s) PROVE ConnInv'
<1>1. CASE UNCHANGED <<conn, open, reconnecting, loop, stop>>
    BY ZenonT(30), <1>1, OpenShrinks
<1>2. CASE TakeFlag(s) /\ ~reconnecting
  <2>1. PICK g \in Loops : loop[g].at = "off" /\ loop' = [loop EXCEPT ![g] = NewLoop]
    BY Zenon, <1>2 DEF TakeFlag
  <2>2. OnlyMoves(g) /\ loop[g].at # "install"
    BY ZenonT(30), <2>1, Moved, Places, LoopsBegin
  <2> QED
    BY ZenonT(30), <1>2, <2>2, LoopMoves DEF TakeFlag
<1> QED
    BY ZenonT(30), <1>1, <1>2 DEF WatcherStep, StartReconnect, TakeFlag, QueueSignal

\* Every step of the connection keeps the invariant.
LEMMA ConnStep == ConnInv /\ [ConnNext]_connVars => ConnInv'
<1> SUFFICES ASSUME ConnInv, [ConnNext]_connVars PROVE ConnInv'
    OBVIOUS
<1>1. ASSUME NEW s \in Slots, ConnectionLost(s) PROVE ConnInv'
    BY ZenonT(30), <1>1, OpenShrinks DEF ConnectionLost, ConnInv
<1>2. CASE StopSignal
  <2>1. stop' # "closed"
    BY ZenonT(30), <1>2 DEF StopSignal
  <2> QED
    BY ZenonT(30), <1>2, <2>1, OpenShrinks DEF StopSignal
<1>3. CASE StopClose
    BY ZenonT(30), <1>3, OpenShrinks DEF StopClose
<1>4. CASE UNCHANGED connVars
    BY ZenonT(30), <1>4, OpenShrinks DEF connVars
<1>5. ASSUME NEW g \in Loops, LoopStep(g) PROVE ConnInv'
    BY Zenon, <1>5, DialKeeps, InstallKeeps, CallbackKeeps, ReconnectKeeps, DrainPendingKeeps
        DEF LoopStep
<1> QED
    BY Zenon, <1>1, <1>2, <1>3, <1>4, <1>5, WatcherKeeps DEF ConnNext

\* At most one goroutine is in reconnect, and an open connection is c.conn or about to be
\* installed; none is left once Stop has closed.
LEMMA ConnInvGives == ConnInv => LinksAreOwned
<1> SUFFICES ASSUME ConnInv PROVE LinksAreOwned
    OBVIOUS
<1>1. OneReconnectLoop
    BY ZenonT(30) DEF ConnInv, HoldsFlag, OneReconnectLoop
<1>2. NoZombieConnection
    BY ZenonT(30) DEF ConnInv, NoZombieConnection
<1> QED
    BY Zenon, <1>1, <1>2 DEF LinksAreOwned

-------------------------------------------------------------------------------
(*****************************************************************************)
(* What the three providers of key material promise.  They share nothing but *)
(* the count of faults, so each one's step leaves the others alone.          *)
(*****************************************************************************)

\* The variables of the three.
materialVars == <<keyState, signState, certState, faults>>

\* One of the three moves.
MaterialNext ==
    \/ KeyNext /\ UNCHANGED <<signState, certState>>
    \/ SignNext /\ UNCHANGED <<keyState, certState>>
    \/ CertNext /\ UNCHANGED <<keyState, signState>>

\* The three side by side, each with its own scheduling left open.
MaterialSpec == KeyInit /\ SignInit /\ CertInit /\ [][MaterialNext]_materialVars

\* The invariants of the three.
MaterialInv == KeyInv /\ SignInv /\ CertInv

\* They hold at the start.
LEMMA MaterialStarts == KeyInit /\ SignInit /\ CertInit => MaterialInv
BY Zenon, KeyStarts, SignStarts, CertStarts DEF MaterialInv

\* A step of the three together is a step of each or leaves it alone.
LEMMA MaterialMoves ==
    [MaterialNext]_materialVars =>
        /\ KeyNext \/ UNCHANGED keyState
        /\ SignNext \/ UNCHANGED signState
        /\ CertNext \/ UNCHANGED certState
BY ZenonT(30) DEF MaterialNext, materialVars

\* Every step keeps the three invariants.
LEMMA MaterialStep == MaterialInv /\ [MaterialNext]_materialVars => MaterialInv'
BY ZenonT(30), MaterialMoves, KeyStep, SignStep, CertStep DEF MaterialInv

\* A key that verifies was withdrawn no longer ago than a set may be stale and a fetch may
\* take; a key that signs was read no longer ago than the same, or was replaced while the call
\* was under way; a certificate is served with its own key; and a closed signing provider
\* holds no key, whatever fetches and reloads fail.
THEOREM MaterialHolds == MaterialSpec => []MaterialIsCurrent
<1>1. MaterialInv => MaterialIsCurrent
    BY ZenonT(30), KeyInvGives, SignInvGives DEF MaterialInv, MaterialIsCurrent, CertInv, ServedPairMatches
<1> QED
    BY MaterialStarts, MaterialStep, <1>1, PTL DEF MaterialSpec

\* The check of a token that was revoked and has not expired does not let it through, and what
\* the certificate source serves is never replaced by something older.
THEOREM MaterialDoesNotGoBack == MaterialSpec => NothingGoesBack
<1>1. ASSUME MaterialInv, [MaterialNext]_materialVars
      PROVE  [CheckRevoked /\ verifyCall' = "accepted" => revokedAt = Never \/ keyNow >= TokenExpiry]_keyVars
    BY ZenonT(30), <1>1, CheckIsRight DEF MaterialInv
<1>2. ASSUME MaterialInv, [MaterialNext]_materialVars
      PROVE  [snapshot'.cert >= snapshot.cert /\ snapshot'.ca >= snapshot.ca]_certVars
    BY ZenonT(30), <1>2, MaterialMoves, CertStep DEF MaterialInv
<1> QED
    BY MaterialStarts, MaterialStep, <1>1, <1>2, PTL
       DEF MaterialSpec, NothingGoesBack, RevokedStaysOut, MaterialMovesForward

\* Whatever order the reconnect loop, the watchers, the callbacks, lost connections and Stop
\* come in, one loop at a time reconnects, and a connection that is open is the current one
\* or belongs to somebody who closes or installs it.
THEOREM LinksHold == ConnSpec => []LinksAreOwned
<1>1. ConnInv => LinksAreOwned
    BY Zenon, ConnInvGives
<1> QED
    BY ConnStarts, ConnStep, <1>1, PTL DEF ConnSpec

-------------------------------------------------------------------------------
(*******************************************************************************)
(* data/cache ComputeCache: Close returns when no flight is left.             *)
(*******************************************************************************)

\* Somebody is registered with a WaitGroup of Close: a caller in the flight, a drain that
\* was left behind, or the background refresh.
Registered == refresher = "waiting" \/ \E c \in Getters : getter[c] \in {"flying", "drain"}

\* The inductive invariant: a flight has somebody who is registered, Close has set closed
\* before anything else, and returns when nobody is left.
CacheInv ==
    /\ flight \in {"none", "computing", "storing"} /\ getter \in [Getters -> Steps]
    /\ flight # "none" => Registered
    /\ closer # "no" => isClosed
    /\ closer = "returned" => flight = "none"
    /\ lateWork = FALSE

\* The cache starts with nobody in flight.
LEMMA CacheStarts == CacheInit => CacheInv
BY ZenonT(30) DEF CacheInit, CacheInv, Steps

\* The places of a caller, told apart.
LEMMA StepsDiffer ==
    /\ {"new", "get", "join", "flying", "drain", "value", "error"} = Steps
    /\ \A s \in {"new", "get", "join", "value", "error"} : s \notin {"flying", "drain"}
    /\ "flying" \in {"flying", "drain"} /\ "drain" \in {"flying", "drain"}
    /\ "computing" # "none" /\ "storing" # "none" /\ "no" # "waiting" /\ "claimed" # "waiting"
    /\ {"none", "computing", "storing"} = {"none", "computing", "storing"}
BY ZenonT(30) DEF Steps

\* A caller moves between places outside the flight, or from the flight to its drain.
LEMMA CallerMoves ==
    ASSUME CacheInv, NEW c \in Getters, NEW s \in Steps, Moves(c, s),
        UNCHANGED <<flight, isClosed, closer, lateWork>>,
           getter[c] \in {"flying", "drain"} => s \in {"flying", "drain"},
           refresher = "waiting" => refresher' = "waiting"
    PROVE  CacheInv'
<1>1. getter' \in [Getters -> Steps] /\ getter'[c] = s
      /\ \A d \in Getters : d # c => getter'[d] = getter[d]
    BY ZenonT(30) DEF CacheInv, Moves
<1>2. Registered => Registered'
    BY ZenonT(30), <1>1 DEF Registered
<1> QED
    BY ZenonT(30), <1>1, <1>2 DEF CacheInv

\* A flight lands.
LEMMA LandKeeps ==
    ASSUME CacheInv, NEW result \in {"value", "error"}, Land(result), flight # "none",
           lateWork' = (lateWork \/ closer = "returned"), UNCHANGED <<isClosed, closer>>
    PROVE  CacheInv'
<1>1. flight' = "none" /\ getter' \in [Getters -> Steps]
  <2>1. result \in Steps /\ "error" \in Steps
    BY ZenonT(30) DEF Steps
  <2> QED
    BY ZenonT(30), <2>1 DEF Land, CacheInv
<1>2. lateWork' = FALSE
    BY Zenon DEF CacheInv
<1> QED
    BY ZenonT(30), <1>1, <1>2 DEF CacheInv

\* Somebody boards a flight of an open cache.
LEMMA BoardKeeps ==
    ASSUME CacheInv, MayJoin, Board, getter' \in [Getters -> Steps], Registered',
           lateWork' = (lateWork \/ (MayJoin /\ closer = "returned")), UNCHANGED <<isClosed, closer>>
    PROVE  CacheInv'
<1>1. closer = "no" /\ closer # "returned"
    BY ZenonT(30) DEF CacheInv, MayJoin
<1>2. flight' \in {"none", "computing", "storing"}
    BY ZenonT(30), StepsDiffer DEF CacheInv, Board
<1>3. lateWork' = FALSE
    BY Zenon, <1>1 DEF CacheInv
<1> QED
    BY ZenonT(30), <1>1, <1>2, <1>3 DEF CacheInv

\* Every step of a caller keeps the invariant, the one that gives up included.
LEMMA CallerKeeps == ASSUME CacheInv, NEW c \in Getters, GetterStep(c) \/ Leave(c) PROVE CacheInv'
<1>1. CASE Begin(c)
  <2>1. PICK s \in {"error", "get"} : Moves(c, s) /\ getter[c] = "new"
    BY Zenon, <1>1 DEF Begin
  <2>2. s \in Steps /\ getter[c] \notin {"flying", "drain"}
    BY ZenonT(30), <2>1, StepsDiffer
  <2> QED
    BY ZenonT(30), <1>1, <2>1, <2>2, CallerMoves DEF Begin
<1>2. CASE Look(c)
  <2>1. PICK s \in {"join", "value"} : Moves(c, s) /\ getter[c] = "get"
    BY Zenon, <1>2 DEF Look
  <2>2. s \in Steps /\ getter[c] \notin {"flying", "drain"}
    BY ZenonT(30), <2>1, StepsDiffer
  <2>3. refresher = "waiting" => refresher' = "waiting"
    BY ZenonT(30), <1>2, StepsDiffer DEF Look
  <2> QED
    BY ZenonT(30), <1>2, <2>1, <2>2, <2>3, CallerMoves DEF Look
<1>3. CASE Join(c) /\ MayJoin
  <2>1. Moves(c, "flying") /\ Board
    BY Zenon, <1>3 DEF Join
  <2>2. getter' \in [Getters -> Steps] /\ getter'[c] = "flying"
    BY ZenonT(30), <2>1, StepsDiffer DEF CacheInv, Moves
  <2>3. Registered'
    BY ZenonT(30), <2>2, StepsDiffer DEF Registered
  <2> QED
    BY ZenonT(30), <1>3, <2>1, <2>2, <2>3, BoardKeeps DEF Join
<1>4. CASE Join(c) /\ ~MayJoin
  <2>1. Moves(c, "error") /\ UNCHANGED <<flight, isClosed, closer, lateWork>> /\ getter[c] = "join"
    BY ZenonT(30), <1>4 DEF Join, CacheInv
  <2>2. "error" \in Steps /\ getter[c] \notin {"flying", "drain"}
    BY ZenonT(30), <2>1, StepsDiffer
  <2> QED
    BY ZenonT(30), <1>4, <2>1, <2>2, CallerMoves DEF Join
<1>5. CASE Leave(c)
  <2>1. Moves(c, "drain")
    BY Zenon, <1>5 DEF Leave, HandOff
  <2> QED
    BY ZenonT(30), <1>5, <2>1, StepsDiffer, CallerMoves DEF Leave
<1> QED
    BY Zenon, <1>1, <1>2, <1>3, <1>4, <1>5 DEF GetterStep

\* The background refresh joins or starts a flight only while the cache is open.
LEMMA RefreshKeeps == ASSUME CacheInv, Refresh PROVE CacheInv'
<1>1. UNCHANGED <<getter, isClosed, closer>> /\ refresher = "claimed"
    BY Zenon DEF Refresh
<1>2. CASE MayJoin
  <2>1. refresher' = "waiting" /\ Board
    BY Zenon, <1>2 DEF Refresh
  <2> QED
    BY ZenonT(30), <1>1, <1>2, <2>1, BoardKeeps DEF Refresh, Registered, CacheInv
<1>3. CASE ~MayJoin
  <2>1. UNCHANGED <<flight, lateWork>>
    BY ZenonT(30), <1>3 DEF Refresh, CacheInv
  <2>2. Registered => Registered'
    BY ZenonT(30), <1>1, StepsDiffer DEF Registered
  <2> QED
    BY ZenonT(30), <1>1, <2>1, <2>2 DEF CacheInv
<1> QED
    BY Zenon, <1>2, <1>3

\* Every step of the ComputeCache keeps the invariant.
LEMMA CacheStep == CacheInv /\ [CacheNext]_cacheVars => CacheInv'
<1> SUFFICES ASSUME CacheInv, [CacheNext]_cacheVars PROVE CacheInv'
    OBVIOUS
<1>1. CASE ComputeReturns
  <2>1. flight # "none" /\ UNCHANGED <<isClosed, closer>>
        /\ lateWork' = (lateWork \/ closer = "returned") /\ lateWork' = FALSE
    BY ZenonT(30), <1>1, StepsDiffer DEF ComputeReturns, CacheInv
  <2>2. CASE flight' = "storing" /\ UNCHANGED <<getter, refresher>>
    <3>1. flight' \in {"none", "computing", "storing"} /\ closer # "returned"
        BY ZenonT(30), <2>1, <2>2 DEF CacheInv
    <3> QED
        BY ZenonT(30), <2>1, <2>2, <3>1 DEF CacheInv, Registered
  <2>3. CASE Land("error")
    BY ZenonT(30), <2>1, <2>3, LandKeeps
  <2> QED
    BY Zenon, <1>1, <2>2, <2>3 DEF ComputeReturns
<1>2. CASE Store
  <2>1. flight # "none"
    BY Zenon, <1>2, StepsDiffer DEF Store
  <2> QED
    BY ZenonT(30), <1>2, <2>1, LandKeeps DEF Store
<1>3. CASE CloseCache \/ CancelBackground
  <2>1. UNCHANGED <<getter, flight, refresher, lateWork>> /\ isClosed' /\ closer' # "returned"
    BY ZenonT(30), <1>3 DEF CloseCache, CancelBackground, CacheInv
  <2> QED
    BY ZenonT(30), <2>1 DEF CacheInv, Registered
<1>4. CASE CloseReturns
  <2>1. UNCHANGED <<getter, flight, refresher, isClosed, lateWork>> /\ ~Registered /\ closer = "waiting"
    BY ZenonT(30), <1>4 DEF CloseReturns, Registered
  <2>2. isClosed
    BY ZenonT(30), <2>1 DEF CacheInv
  <2> QED
    BY ZenonT(30), <2>1, <2>2 DEF CacheInv, Registered
<1>5. CASE Age \/ UNCHANGED cacheVars
    BY ZenonT(30), <1>5 DEF Age, cacheVars, cacheState, CacheInv, Registered
<1> QED
    BY Zenon, <1>1, <1>2, <1>3, <1>4, <1>5, CallerKeeps, RefreshKeeps
        DEF CacheNext, FlightStep, CloserStep

\* Once Close has returned, no flight computes or stores any more (ComputeCache.Close waits for
\* the callers, the drains they left behind and the background refreshes).
THEOREM CloseIsFinal == CacheSpec => []NothingAfterClose
<1>1. CacheInv => NothingAfterClose
    BY Zenon DEF CacheInv, NothingAfterClose
<1> QED
    BY CacheStarts, CacheStep, <1>1, PTL DEF CacheSpec

-------------------------------------------------------------------------------
(*******************************************************************************)
(* data/cache MemoryCache: SetNX under the shard locks.                       *)
(*******************************************************************************)

\* Past the probe of SetNX, and between the probe and the second look.
PastProbe == {"store", "recheck", "won", "refused"}
\* The places of a SetNX between its write and its answer.
Storing == {"store", "recheck"}

\* The inductive invariant: who is past the probe of SetNX has the key's shard, no winner
\* stands while it stores, and nobody is inside a closed store.
MemcacheInv ==
    /\ nxUser \in [CacheUsers -> NxPlaces]
    /\ \A u \in CacheUsers : nxUser[u] \in PastProbe => shard = u
    /\ \A u \in CacheUsers : nxUser[u] \in Storing => owner = NoUser
    /\ cacheClosed => InOp = {}

\* The places of a caller, told apart.
LEMMA NxPlacesDiffer ==
    /\ {"idle", "setnx", "set", "delete", "store", "recheck", "won", "refused"} \subseteq NxPlaces
    /\ Storing \subseteq PastProbe
    /\ \A p \in {"idle", "setnx", "set", "delete"} : p \notin PastProbe
    /\ "won" \notin Storing /\ "refused" \notin Storing
    /\ \A p \in {"setnx", "store", "recheck", "set", "delete"} : p \notin {"idle", "won", "refused"}
    /\ \A p \in {"idle", "setnx", "store", "set", "delete", "refused"} : p # "won"
    /\ {"store", "recheck", "won", "refused"} = PastProbe /\ {"store", "recheck"} = Storing
BY ZenonT(30) DEF NxPlaces, PastProbe, Storing

\* The memory cache starts with nobody inside.
LEMMA MemcacheStarts == MemcacheInit => MemcacheInv
BY ZenonT(30), NxPlacesDiffer DEF MemcacheInit, MemcacheInv

\* A caller moves: it has the shard if it is past the probe, and the store is open.
LEMMA UserMoves ==
    ASSUME MemcacheInv, NEW u \in CacheUsers, NEW p \in NxPlaces, UserAt(u, p),
           p \in PastProbe => shard' = u, p \in Storing => owner' = NoUser,
           shard' = shard \/ shard = NoUser \/ shard = u,
           owner' = owner \/ owner' = NoUser \/ nxUser[u] = "recheck",
           cacheClosed' = cacheClosed,
           cacheClosed => p \in {"idle", "won", "refused"}
    PROVE  MemcacheInv' /\ nxUser'[u] = p /\ \A v \in CacheUsers : v # u => nxUser'[v] = nxUser[v]
<1>1. nxUser' \in [CacheUsers -> NxPlaces] /\ nxUser'[u] = p
      /\ \A v \in CacheUsers : v # u => nxUser'[v] = nxUser[v]
    BY ZenonT(30) DEF MemcacheInv, UserAt
<1>2. \A v \in CacheUsers : nxUser'[v] \in PastProbe => shard' = v
    BY ZenonT(30), <1>1, CacheUsersAssumption DEF MemcacheInv, NoUser
<1>3. ASSUME NEW v \in CacheUsers, nxUser'[v] \in Storing PROVE owner' = NoUser
  <2>1. CASE v = u
    BY Zenon, <1>1, <1>3, <2>1
  <2>2. CASE v # u
    <3>1. nxUser[v] \in Storing /\ nxUser[v] \in PastProbe /\ owner = NoUser /\ shard = v
        BY ZenonT(30), <1>1, <1>3, <2>2, NxPlacesDiffer DEF MemcacheInv
    <3>2. nxUser[u] # "recheck"
        BY ZenonT(30), <2>2, <3>1, NxPlacesDiffer DEF MemcacheInv
    <3> QED
        BY Zenon, <3>1, <3>2
  <2> QED
    BY Zenon, <2>1, <2>2
<1>4. cacheClosed' => InOp' = {}
    BY ZenonT(30), <1>1 DEF MemcacheInv, InOp
<1> QED
    BY ZenonT(30), <1>1, <1>2, <1>3, <1>4 DEF MemcacheInv

\* A SetNX that wins finds no winner and leaves a value, and nobody is in a closed store.
WinsAlone ==
    /\ \A u \in CacheUsers :
         nxUser[u] # "won" /\ nxUser'[u] = "won" => owner = NoUser /\ value' # NoUser
    /\ cacheClosed' => InOp' = {}

\* A caller that is about to move is inside an open store.
LEMMA InsideIsOpen ==
    ASSUME MemcacheInv, NEW u \in CacheUsers, nxUser[u] \in {"setnx", "store", "recheck", "set", "delete"}
    PROVE  ~cacheClosed
BY ZenonT(30), NxPlacesDiffer DEF MemcacheInv, InOp

\* A step that moves nobody.
LEMMA NobodyMoves ==
    ASSUME MemcacheInv, UNCHANGED <<shard, nxUser>>, owner' = owner \/ owner' = NoUser,
           cacheClosed' => cacheClosed \/ InOp = {}
    PROVE  MemcacheInv' /\ WinsAlone
<1>1. MemcacheInv'
    BY ZenonT(30) DEF MemcacheInv, InOp
<1> QED
    BY ZenonT(30), <1>1 DEF MemcacheInv, WinsAlone

\* A step of one caller.
LEMMA UserSteps ==
    ASSUME MemcacheInv, NEW u \in CacheUsers,
           \/ \E op \in {"setnx", "set", "delete"} : BeginOp(u, op)
           \/ Probe(u) \/ StoreValue(u) \/ Recheck(u) \/ Unlock(u) \/ SetValue(u) \/ DeleteValue(u)
    PROVE  MemcacheInv' /\ WinsAlone
<1>1. ASSUME NEW op \in {"setnx", "set", "delete"}, BeginOp(u, op) PROVE MemcacheInv' /\ WinsAlone
  <2>1. op \in NxPlaces /\ op \notin PastProbe /\ op \notin Storing /\ op # "won"
    BY ZenonT(30), NxPlacesDiffer
  <2>2. /\ ~cacheClosed /\ UserAt(u, op) /\ UNCHANGED <<shard, owner, cacheClosed>>
    BY Zenon, <1>1 DEF BeginOp
  <2> QED
    BY ZenonT(30), <2>1, <2>2, UserMoves DEF WinsAlone, MemcacheInv
<1>2. CASE Probe(u)
  <2>1. /\ shard = NoUser /\ shard' = u /\ UNCHANGED cacheClosed /\ nxUser[u] = "setnx" /\ ~cacheClosed
        /\ owner' = IF value' = NoUser THEN NoUser ELSE owner
    BY ZenonT(30), <1>2, InsideIsOpen DEF Probe, TakeShard
  <2>2. CASE value' # NoUser /\ UserAt(u, "refused")
    BY ZenonT(30), <2>1, <2>2, UserMoves, NxPlacesDiffer DEF WinsAlone, MemcacheInv
  <2>3. CASE value' = NoUser /\ UserAt(u, "store")
    BY ZenonT(30), <2>1, <2>3, UserMoves, NxPlacesDiffer DEF WinsAlone, MemcacheInv
  <2> QED
    BY ZenonT(30), <1>2, <2>2, <2>3 DEF Probe
<1>3. CASE StoreValue(u)
  <2>1. /\ UNCHANGED <<shard, owner, cacheClosed>> /\ ~cacheClosed /\ nxUser[u] = "store"
           /\ shard = u /\ owner = NoUser
    BY ZenonT(30), <1>3, InsideIsOpen, NxPlacesDiffer DEF StoreValue, MemcacheInv
  <2>2. CASE UserAt(u, "recheck")
    BY ZenonT(30), <2>1, <2>2, UserMoves, NxPlacesDiffer DEF WinsAlone, MemcacheInv
  <2>3. CASE UserAt(u, "refused")
    BY ZenonT(30), <2>1, <2>3, UserMoves, NxPlacesDiffer DEF WinsAlone, MemcacheInv
  <2> QED
    BY Zenon, <1>3, <2>2, <2>3 DEF StoreValue
<1>4. CASE Recheck(u)
  <2>1. /\ UNCHANGED <<shard, cacheClosed>> /\ ~cacheClosed /\ nxUser[u] = "recheck" /\ shard = u
           /\ owner = NoUser
    BY ZenonT(30), <1>4, InsideIsOpen, NxPlacesDiffer DEF Recheck, MemcacheInv
  <2>2. CASE value' = NoUser /\ owner' = NoUser /\ UserAt(u, "refused")
    BY ZenonT(30), <2>1, <2>2, UserMoves, NxPlacesDiffer DEF WinsAlone, MemcacheInv
  <2>3. CASE value' # NoUser /\ UserAt(u, "won")
    BY ZenonT(30), <2>1, <2>3, UserMoves, NxPlacesDiffer DEF WinsAlone, MemcacheInv
  <2> QED
    BY Zenon, <1>4, <2>2, <2>3 DEF Recheck
<1>5. CASE Unlock(u)
  <2>1. /\ UNCHANGED <<owner, cacheClosed>> /\ UserAt(u, "idle") /\ shard = u
        /\ shard' = IF shard = u THEN NoUser ELSE shard
    BY ZenonT(30), <1>5, NxPlacesDiffer DEF Unlock, MemcacheInv
  <2> QED
    BY ZenonT(30), <2>1, UserMoves, NxPlacesDiffer DEF WinsAlone, MemcacheInv
<1>6. CASE SetValue(u) \/ DeleteValue(u)
  <2>1. /\ UNCHANGED <<shard, cacheClosed>> /\ UserAt(u, "idle") /\ (owner' = owner \/ owner' = NoUser)
    BY ZenonT(30), <1>6 DEF SetValue, DeleteValue
  <2> QED
    BY ZenonT(30), <2>1, UserMoves, NxPlacesDiffer DEF WinsAlone, MemcacheInv
<1> QED
    BY Zenon, <1>1, <1>2, <1>3, <1>4, <1>5, <1>6

\* Every step keeps the invariant, and whoever wins does so alone.
LEMMA MemcacheStep == MemcacheInv /\ [MemcacheNext]_memcacheVars => MemcacheInv' /\ WinsAlone
<1> SUFFICES ASSUME MemcacheInv, [MemcacheNext]_memcacheVars PROVE MemcacheInv' /\ WinsAlone
    BY ZenonT(30)
<1>1. CASE Flush \/ DropEntry \/ SweepRead \/ SweepDelete
  <2>1. UNCHANGED <<shard, nxUser, cacheClosed>> /\ (owner' = owner \/ owner' = NoUser)
    BY ZenonT(30), <1>1 DEF Flush, DropEntry, SweepRead, SweepDelete
  <2> QED
    BY ZenonT(30), <2>1, NobodyMoves
<1>2. CASE CloseStore
    BY ZenonT(30), <1>2, NobodyMoves DEF CloseStore
<1>3. CASE UNCHANGED memcacheVars
    BY ZenonT(30), <1>3, NobodyMoves DEF memcacheVars
<1> QED
    BY Zenon, <1>1, <1>2, <1>3, UserSteps DEF MemcacheNext

\* A SetNX wins only where no earlier winner stands, and stores what is there; nobody is
\* inside a closed store.
THEOREM OneWinner == MemcacheSpec => SetNXHasOneWinner
<1>1. MemcacheInv /\ [MemcacheNext]_memcacheVars
        => [/\ \A u \in CacheUsers :
                 nxUser[u] # "won" /\ nxUser'[u] = "won" => owner = NoUser /\ value' # NoUser
            /\ cacheClosed' => InOp' = {}]_memcacheVars
    BY Zenon, MemcacheStep DEF WinsAlone
<1> QED
    BY <1>1, MemcacheStarts, MemcacheStep, PTL DEF MemcacheSpec, SetNXHasOneWinner

-------------------------------------------------------------------------------
(*******************************************************************************)
(* data/cache/rediscache: reads under the value-size cap.                     *)
(*******************************************************************************)

\* A read: its place, the keys it asks for and the ones still to fetch.
ReadCalls ==
    [at : {"idle", "get", "strlen", "fetch", "done"}, asked : SUBSET CacheKeys, fetch : SUBSET CacheKeys]

\* What an answer owes the caller.
KeyAnswered(k) ==
    /\ out[k] # "none" /\ (out[k] = "small" => "small" \in seen[k])
    /\ seen[k] = {"small"} => out[k] = "small"

\* The inductive invariant: a read in progress has seen what Redis has now; a key that is
\* not to be fetched any more has its answer; no answer is above the cap.
RcacheInv ==
    /\ redis \in [CacheKeys -> Contents] /\ seen \in [CacheKeys -> SUBSET Contents]
    /\ read \in ReadCalls
    /\ out \in [CacheKeys -> {"none", "small", "miss", "tooLarge"}]
    /\ read.at # "idle" => \A k \in CacheKeys : redis[k] \in seen[k]
    /\ read.at = "fetch" => \A k \in read.asked \ read.fetch : KeyAnswered(k)
    /\ read.at = "done" => \A k \in read.asked : KeyAnswered(k)

\* The read starts idle.
LEMMA RcacheStarts == RcacheInit => RcacheInv
BY DEF RcacheInit, RcacheInv, Contents, ReadCalls

\* Whatever another process writes during a read is among what the read may have seen.
LEMMA WriteKeyKeeps == ASSUME RcacheInv, NEW k \in CacheKeys, NEW c \in Contents, WriteKey(k, c)
    PROVE RcacheInv'
<1>1. /\ redis' \in [CacheKeys -> Contents] /\ redis'[k] = c
         /\ \A j \in CacheKeys : j # k => redis'[j] = redis[j]
      /\ seen' \in [CacheKeys -> SUBSET Contents] /\ seen'[k] = seen[k] \cup {c}
      /\ \A j \in CacheKeys : j # k => seen'[j] = seen[j]
      /\ UNCHANGED <<read, out>>
    BY ZenonT(30) DEF RcacheInv, WriteKey
<1>2. read.at # "idle" => \A j \in CacheKeys : redis'[j] \in seen'[j]
    BY ZenonT(30), <1>1 DEF RcacheInv
<1>3. ASSUME NEW j \in CacheKeys, read.at # "idle", KeyAnswered(j) PROVE KeyAnswered(j)'
  <2>1. CASE j # k
    BY ZenonT(30), <1>1, <1>3, <2>1 DEF KeyAnswered
  <2>2. CASE j = k
    <3>1. redis[k] \in seen[k]
        BY Zenon, <1>3 DEF RcacheInv
    <3>2. seen'[k] = {"small"} => seen[k] = {"small"}
        BY ZenonT(30), <1>1, <3>1
    <3> QED
        BY ZenonT(30), <1>1, <1>3, <2>2, <3>2 DEF KeyAnswered
  <2> QED
    BY Zenon, <2>1, <2>2
<1>4. read.asked \subseteq CacheKeys /\ ("fetch" # "idle") /\ ("done" # "idle")
    BY ZenonT(30) DEF RcacheInv, ReadCalls
<1>5. read.at = "fetch" => \A j \in read.asked \ read.fetch : KeyAnswered(j)'
    BY ZenonT(30), <1>3, <1>4 DEF RcacheInv
<1>6. read.at = "done" => \A j \in read.asked : KeyAnswered(j)'
    BY ZenonT(30), <1>3, <1>4 DEF RcacheInv
<1> QED
    BY ZenonT(30), <1>1, <1>2, <1>5, <1>6 DEF RcacheInv

\* A read begins with what Redis has now.
LEMMA BeginReadKeeps ==
    ASSUME RcacheInv, NEW asked \in SUBSET CacheKeys, NEW op \in {"get", "strlen"}, BeginRead(asked, op)
    PROVE  RcacheInv'
<1>1. read'.at # "fetch" /\ read'.at # "done"
    BY ZenonT(30) DEF BeginRead, ReadCalls
<1>2. read' \in ReadCalls
    BY ZenonT(30) DEF BeginRead, ReadCalls
<1>3. redis' = redis /\ seen' \in [CacheKeys -> SUBSET Contents]
      /\ \A k \in CacheKeys : redis'[k] \in seen'[k]
    BY ZenonT(30) DEF BeginRead, RcacheInv
<1>4. out' \in [CacheKeys -> {"none", "small", "miss", "tooLarge"}]
    BY ZenonT(30) DEF BeginRead
<1> QED
    BY ZenonT(30), <1>1, <1>2, <1>3, <1>4 DEF RcacheInv

\* The capped GET script measures and reads at once.
LEMMA GetScriptKeeps == ASSUME RcacheInv, GetScript PROVE RcacheInv'
<1>1. /\ read' \in ReadCalls
      /\ read'.at = "done" /\ read'.asked = read.asked /\ read.at # "idle" /\ "done" # "fetch"
      /\ UNCHANGED <<redis, seen>> /\ read.asked \subseteq CacheKeys
    BY DEF GetScript, RcacheInv, ReadCalls
<1>2. /\ out' \in [CacheKeys -> {"none", "small", "miss", "tooLarge"}]
      /\ \A k \in read.asked : out'[k] # "none" /\ (redis[k] = "small" <=> out'[k] = "small")
    BY ZenonT(30), <1>1 DEF GetScript, RcacheInv
<1>3. \A k \in CacheKeys : redis[k] \in seen[k]
    BY Zenon, <1>1 DEF RcacheInv
<1>4. \A k \in read.asked : KeyAnswered(k)'
    BY ZenonT(30), <1>1, <1>2, <1>3 DEF KeyAnswered
<1> QED
    BY ZenonT(30), <1>1, <1>2, <1>3, <1>4 DEF RcacheInv

\* The STRLEN pipeline answers the keys that are not fetched.
LEMMA MeasureKeysKeeps == ASSUME RcacheInv, MeasureKeys PROVE RcacheInv'
<1> DEFINE fetch == {k \in read.asked : redis[k] \in {"absent", "small"}}
<1>1. /\ read' \in ReadCalls
      /\ read'.asked = read.asked /\ read'.fetch = fetch /\ read.at # "idle"
      /\ (read'.at = "done" => fetch = {})
      /\ UNCHANGED <<redis, seen>> /\ read.asked \subseteq CacheKeys
  <2>1. read \in ReadCalls /\ read.at = "strlen" /\ UNCHANGED <<redis, seen>> /\ fetch \subseteq read.asked
    BY ZenonT(30) DEF MeasureKeys, RcacheInv
  <2>2. read' = [read EXCEPT !.at = IF fetch = {} THEN "done" ELSE "fetch", !.fetch = fetch]
    BY ZenonT(30) DEF MeasureKeys
  <2> HIDE DEF fetch
  <2> QED
    BY ZenonT(30), <2>1, <2>2 DEF ReadCalls
<1>2. out' \in [CacheKeys -> {"none", "small", "miss", "tooLarge"}]
      /\ \A k \in read.asked \ fetch : out'[k] = "miss"
    BY <1>1 DEF MeasureKeys, RcacheInv
<1>3. \A k \in CacheKeys : redis[k] \in seen[k]
    BY Zenon, <1>1 DEF RcacheInv
<1>4. \A k \in read.asked \ fetch : KeyAnswered(k)'
    BY ZenonT(30), <1>1, <1>2, <1>3 DEF KeyAnswered
<1> QED
    BY ZenonT(30), <1>1, <1>2, <1>3, <1>4 DEF RcacheInv

\* The GET pipeline answers a key, and never with a value that grew meanwhile.
LEMMA FetchKeyKeeps == ASSUME RcacheInv, NEW k \in CacheKeys, FetchKey(k) PROVE RcacheInv'
<1>1. /\ read' \in ReadCalls
      /\ read'.asked = read.asked /\ read'.fetch = read.fetch \ {k} /\ read.at # "idle"
         /\ read.at = "fetch"
      /\ (read'.at = "done" => read.fetch = {k})
      /\ UNCHANGED <<redis, seen>> /\ read.asked \subseteq CacheKeys
  <2>1. read \in ReadCalls /\ read.at = "fetch" /\ UNCHANGED <<redis, seen>>
    BY ZenonT(30) DEF FetchKey, RcacheInv
  <2>2. read' = [read EXCEPT !.fetch = @ \ {k}, !.at = IF read.fetch = {k} THEN "done" ELSE "fetch"]
    BY ZenonT(30) DEF FetchKey
  <2> QED
    BY ZenonT(30), <2>1, <2>2 DEF ReadCalls
<1>2. /\ out' \in [CacheKeys -> {"none", "small", "miss", "tooLarge"}]
      /\ out'[k] # "none" /\ (redis[k] = "small" <=> out'[k] = "small")
      /\ \A j \in CacheKeys : j # k => out'[j] = out[j]
    BY DEF FetchKey, Fetched, RcacheInv
<1>3. \A j \in CacheKeys : redis[j] \in seen[j]
    BY Zenon, <1>1 DEF RcacheInv
<1>4. KeyAnswered(k)'
    BY ZenonT(30), <1>1, <1>2, <1>3 DEF KeyAnswered
<1>5. ASSUME NEW j \in read.asked, j \notin read.fetch \ {k} PROVE KeyAnswered(j)'
    BY ZenonT(30), <1>1, <1>2, <1>4, <1>5 DEF KeyAnswered, RcacheInv
<1> QED
    BY ZenonT(30), <1>1, <1>2, <1>3, <1>5 DEF RcacheInv

\* Every step of a read or of another process keeps the invariant.
LEMMA RcacheStep == RcacheInv /\ [RcacheNext]_rcacheVars => RcacheInv'
<1> SUFFICES ASSUME RcacheInv, [RcacheNext]_rcacheVars PROVE RcacheInv'
    OBVIOUS
<1>1. CASE ReadAgain
  <2>1. /\ read' \in ReadCalls
        /\ read'.at = "idle" /\ UNCHANGED <<redis, seen, out>>
    BY ZenonT(30), <1>1 DEF ReadAgain, ReadCalls
  <2> QED
    BY ZenonT(30), <2>1 DEF RcacheInv
<1>2. CASE UNCHANGED rcacheVars
    BY ZenonT(30), <1>2 DEF rcacheVars, RcacheInv, KeyAnswered
<1> QED
    BY Zenon, <1>1, <1>2, WriteKeyKeeps, BeginReadKeeps, GetScriptKeeps, MeasureKeysKeeps,
        FetchKeyKeeps DEF RcacheNext

\* A read hands out nothing above the cap and answers every key with what it was.
THEOREM ReadsAreCapped == RcacheSpec => []ReadsStayUnderCap
<1>1. RcacheInv => ReadsStayUnderCap
  <2> SUFFICES ASSUME RcacheInv PROVE ReadsStayUnderCap
    OBVIOUS
  <2>1. \A k \in CacheKeys : out[k] # "big"
    BY ZenonT(30) DEF RcacheInv
  <2> QED
    BY ZenonT(30), <2>1 DEF RcacheInv, ReadsStayUnderCap, KeyAnswered
<1> QED
    BY RcacheStarts, RcacheStep, <1>1, PTL DEF RcacheSpec

-------------------------------------------------------------------------------

\* The caches keep their word: nothing computes or stores after Close, one SetNX wins, and
\* no read hands out more than its cap.
THEOREM CachesHold == CacheSpec /\ MemcacheSpec /\ RcacheSpec => CachesKeepTheirWord
BY CloseIsFinal, OneWinner, ReadsAreCapped, PTL DEF CachesKeepTheirWord

===============================================================================
