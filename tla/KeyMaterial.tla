----------------------------- MODULE KeyMaterial -----------------------------
(***************************************************************************)
(* Keys and certificates that rotate: security/jwtutil and                 *)
(* security/netutil.                                                       *)
(***************************************************************************)
EXTENDS Integers, FiniteSets, Faults

-------------------------------------------------------------------------------
(***************************************************************************)
(* security/jwtutil: the keys of signed tokens.  A Provider fetches the    *)
(* published key set now and then and verifies tokens with the set it has, *)
(* while it is not too old; the revocation store holds the id of a revoked *)
(* token until it expires.  Keys are numbered; the issuer publishes new    *)
(* ones and withdraws older ones from the published set.                   *)
(***************************************************************************)

CONSTANTS MaxKeys,       \* bound on the number of keys
          KeyMaxStale,   \* maxStale
          KeyFetchTime,  \* the timeout of a fetch
          TokenExpiry,   \* when the token under study expires
          MaxKeyTime     \* bound on the clock

ASSUME KeyAssumption ==
    MaxKeys \in Nat \ {0} /\ {KeyMaxStale, KeyFetchTime, TokenExpiry, MaxKeyTime} \subseteq Nat

VARIABLES
    keyNow,      \* the clock
    published,   \* the keys of the published set
    withdrawn,   \* per key: when it left the published set, or Never
    jwksFetch,   \* Provider.fetch: its place, when it began, the set it read
    keyset,      \* the verifier's set and lastSuccessfulFetch
    revoked,     \* the entry of the token in the revocation store: its end, or 0
    revokedAt,   \* when Revoke returned for the token, or Never
    verifyCall   \* a call of VerifyContext: its place and whether it found the token revoked

keyState == <<keyNow, published, withdrawn, jwksFetch, keyset, revoked, revokedAt, verifyCall>>
keyVars == <<keyState, faults>>

Keys == 1 .. MaxKeys
Never == MaxKeyTime + 1
Newest(keys) == CHOOSE k \in keys : \A j \in keys : j <= k

KeyInit ==
    /\ keyNow = 0 /\ published = {1} /\ withdrawn = [k \in Keys |-> Never]
    /\ jwksFetch = [at |-> "idle", began |-> 0, keys |-> {}]
    /\ keyset = [keys |-> {}, last |-> 0]
    /\ revoked = 0 /\ revokedAt = Never /\ verifyCall = "idle" /\ faults = 0

issuer == <<published, withdrawn>>
verifier == <<jwksFetch, keyset>>
revocation == <<revoked, revokedAt, verifyCall>>

\* The issuer publishes a new key, or withdraws one that is not its newest.
PublishKey ==
    /\ Newest(published) < MaxKeys /\ published' = published \cup {Newest(published) + 1}
    /\ UNCHANGED <<keyNow, withdrawn, verifier, revocation, faults>>

WithdrawKey ==
    /\ \E k \in published \ {Newest(published)} :
        /\ published' = published \ {k}
        /\ withdrawn' = [withdrawn EXCEPT ![k] = keyNow]
    /\ UNCHANGED <<keyNow, verifier, revocation, faults>>

\* Run calls fetch, first and on every tick: the response is read, and then,
\* within the timeout, the set is stored with the time of that moment.
BeginFetch ==
    /\ jwksFetch.at = "idle"
    /\ jwksFetch' = [at |-> "read", began |-> keyNow, keys |-> published]
    /\ UNCHANGED <<keyNow, issuer, keyset, revocation, faults>>

\* Fault model of FailFetch: a failed fetch counts as a look at the set.
FailTouches ==
    /\ jwksFetch.at = "read" /\ Fault /\ jwksFetch' = [jwksFetch EXCEPT !.at = "idle", !.keys = {}]
    /\ keyset' = [keyset EXCEPT !.last = keyNow]
    /\ UNCHANGED <<keyNow, issuer, revocation>>

FailFetch ==
    /\ jwksFetch.at = "read" /\ Fault /\ jwksFetch' = [jwksFetch EXCEPT !.at = "idle", !.keys = {}]
    /\ UNCHANGED <<keyNow, issuer, keyset, revocation>>

StoreKeys ==
    /\ jwksFetch.at = "read" /\ jwksFetch' = [jwksFetch EXCEPT !.at = "idle", !.keys = {}]
    /\ keyset' = [keys |-> jwksFetch.keys, last |-> keyNow]
    /\ UNCHANGED <<keyNow, issuer, revocation, faults>>

\* keySetWithReason.
KeySetReady == keyset.keys # {} /\ keyNow - keyset.last <= KeyMaxStale

\* VerifyContext: the set is taken if it is fresh and the token has not
\* expired; the revocation store is asked after that, and a failure of the
\* store fails the verification.
BeginVerify ==
    /\ verifyCall = "idle" /\ KeySetReady /\ keyNow <= TokenExpiry
    /\ verifyCall' = "parsed"
    /\ UNCHANGED <<keyNow, issuer, verifier, revoked, revokedAt, faults>>

\* IsRevokedID: the store has an entry that has not expired.
IsRevoked == revoked > keyNow

CheckRevoked ==
    /\ verifyCall = "parsed"
    /\ \/ verifyCall' = (IF IsRevoked THEN "refused" ELSE "accepted") /\ UNCHANGED faults
       \/ Fault /\ verifyCall' = "refused"
    /\ UNCHANGED <<keyNow, issuer, verifier, revoked, revokedAt>>

EndVerify ==
    /\ verifyCall \in {"accepted", "refused"} /\ verifyCall' = "idle"
    /\ UNCHANGED <<keyNow, issuer, verifier, revoked, revokedAt, faults>>

\* Fault model of RevocationTTL: the entry is kept for a fixed time.
RevocationTTLFixed == 1

\* revokeID: the entry lives exactly until the token expires.
RevocationTTL == TokenExpiry - keyNow

Revoke ==
    /\ RevocationTTL > 0 /\ revokedAt = Never
    /\ revoked' = keyNow + RevocationTTL /\ revokedAt' = keyNow
    /\ UNCHANGED <<keyNow, issuer, verifier, verifyCall, faults>>

Unrevoke ==
    /\ revokedAt # Never /\ revoked' = 0 /\ revokedAt' = Never
    /\ UNCHANGED <<keyNow, issuer, verifier, verifyCall, faults>>

\* Time passes; a fetch ends within its timeout.
KeyTick ==
    /\ keyNow < MaxKeyTime
    /\ jwksFetch.at # "idle" => keyNow < jwksFetch.began + KeyFetchTime
    /\ keyNow' = keyNow + 1
    /\ UNCHANGED <<issuer, verifier, revocation, faults>>

KeyNext ==
    \/ PublishKey \/ WithdrawKey \/ BeginFetch \/ FailFetch \/ StoreKeys
    \/ BeginVerify \/ CheckRevoked \/ EndVerify \/ Revoke \/ Unrevoke
    \/ KeyTick

KeySpec == KeyInit /\ [][KeyNext]_keyVars

KeyTypeOK ==
    /\ keyNow \in 0 .. MaxKeyTime /\ published \subseteq Keys /\ keyset.keys \subseteq Keys
    /\ \A k \in Keys : withdrawn[k] \in 0 .. Never
    /\ jwksFetch.at \in {"idle", "read"}
    /\ verifyCall \in {"idle", "parsed", "accepted", "refused"}
    /\ revoked \in 0 .. Never

\* A key withdrawn from the published set is trusted by a verifier for no
\* longer than maxStale and the time of one fetch, whatever fetches fail in
\* between (keySetWithReason, fetch).
WithdrawnKeyRunsOut ==
    KeySetReady => \A k \in keyset.keys : keyNow <= withdrawn[k] + KeyMaxStale + KeyFetchTime

\* From the moment Revoke returns until the token expires, no check of the
\* revocation store lets the token pass (revokeID, VerifyContext).
RevokedStaysOut ==
    [][CheckRevoked /\ verifyCall' = "accepted" => revokedAt = Never \/ keyNow >= TokenExpiry]_keyVars

-------------------------------------------------------------------------------
(***************************************************************************)
(* security/jwtutil: the SigningProvider.  Its loop reloads the private    *)
(* key from the rotator, Sign uses the key it has while the last reload is *)
(* not too old, and Close ends both.  Keys are numbered.                   *)
(***************************************************************************)

CONSTANTS MaxSignKeys,     \* bound on the number of keys
          SignMaxStale,    \* maxStale
          SignFetchTime,   \* fetchTimeout of a reload
          MaxSignTime      \* bound on the clock

ASSUME SignAssumption == {MaxSignKeys, SignMaxStale, SignFetchTime, MaxSignTime} \subseteq Nat

VARIABLES
    signNow,    \* the clock
    rotated,    \* the key the rotator returns
    refresh,    \* refresh: its place, when it began, the key it read
    signing,    \* the current key, when it was read, and lastSuccessfulRefresh
    signCall,   \* a call of Sign: its place and the key it loaded
    closing     \* Close: "open", "closing", "closed"

signState == <<signNow, rotated, refresh, signing, signCall, closing>>
signVars == <<signState, faults>>

NoKey == 0

SignInit ==
    /\ signNow = 0 /\ rotated = 1
    /\ refresh = [at |-> "idle", began |-> 0, key |-> NoKey]
    /\ signing = [key |-> 1, read |-> 0, last |-> 0]
    /\ signCall = [at |-> "idle", key |-> NoKey, read |-> 0] /\ closing = "open" /\ faults = 0

Rotate ==
    /\ rotated < MaxSignKeys /\ rotated' = rotated + 1
    /\ UNCHANGED <<signNow, refresh, signing, signCall, closing, faults>>

\* The loop of the signing provider reads the private key, stores it, and
\* stores the time afterwards.  Close stops the loop between two rounds.
BeginRefresh ==
    /\ refresh.at = "idle" /\ closing = "open"
    /\ refresh' = [at |-> "read", began |-> signNow, key |-> rotated]
    /\ UNCHANGED <<signNow, rotated, signing, signCall, closing, faults>>

StoreKey ==
    /\ refresh.at = "read"
    /\ \/ /\ refresh' = [refresh EXCEPT !.at = "stored"] /\ UNCHANGED faults
          /\ signing' = [signing EXCEPT !.key = refresh.key, !.read = refresh.began]
       \/ /\ refresh' = [at |-> "idle", began |-> 0, key |-> NoKey]
          /\ Fault /\ UNCHANGED signing
    /\ UNCHANGED <<signNow, rotated, signCall, closing>>

StoreTime ==
    /\ refresh.at = "stored" /\ refresh' = [at |-> "idle", began |-> 0, key |-> NoKey]
    /\ signing' = [signing EXCEPT !.last = signNow]
    /\ UNCHANGED <<signNow, rotated, signCall, closing, faults>>

\* signContext loads the key, then looks how old the last refresh is.
LoadSigningKey ==
    /\ signCall.at = "idle" /\ closing = "open" /\ signing.key # NoKey
    /\ signCall' = [at |-> "loaded", key |-> signing.key, read |-> signing.read]
    /\ UNCHANGED <<signNow, rotated, refresh, signing, closing, faults>>

\* Fault model of FreshEnough: no limit on the age of the key.
FreshEnoughAlways == signCall.at = "loaded"

FreshEnough == signCall.at = "loaded" /\ signNow - signing.last <= SignMaxStale

EndSign ==
    /\ signCall.at = "loaded" /\ signCall' = [at |-> "idle", key |-> NoKey, read |-> 0]
    /\ UNCHANGED <<signNow, rotated, refresh, signing, closing, faults>>

\* Fault model of Close: the key is dropped before the loop has ended.
CloseDropsFirst ==
    \/ /\ closing = "open" /\ closing' = "closed" /\ signing' = [signing EXCEPT !.key = NoKey]
       /\ UNCHANGED <<signNow, rotated, refresh, signCall, faults>>

\* Close: closed is set and the loop told to stop; once it is done, the key is
\* dropped.
Close ==
    \/ /\ closing = "open" /\ closing' = "closing"
       /\ UNCHANGED <<signNow, rotated, refresh, signing, signCall, faults>>
    \/ /\ closing = "closing" /\ refresh.at = "idle" /\ closing' = "closed"
       /\ signing' = [signing EXCEPT !.key = NoKey]
       /\ UNCHANGED <<signNow, rotated, refresh, signCall, faults>>

\* Time passes; a reload ends within fetchTimeout.
SignTick ==
    /\ signNow < MaxSignTime
    /\ refresh.at # "idle" => signNow < refresh.began + SignFetchTime
    /\ signNow' = signNow + 1
    /\ UNCHANGED <<rotated, refresh, signing, signCall, closing, faults>>

SignNext ==
    \/ Rotate \/ BeginRefresh \/ StoreKey \/ StoreTime
    \/ LoadSigningKey \/ EndSign \/ Close \/ SignTick

SignSpec == SignInit /\ [][SignNext]_signVars

SignTypeOK ==
    /\ signNow \in 0 .. MaxSignTime
    /\ {rotated, signing.key, signCall.key, refresh.key} \subseteq 0 .. MaxSignKeys
    /\ refresh.at \in {"idle", "read", "stored"} /\ signCall.at \in {"idle", "loaded"}
    /\ closing \in {"open", "closing", "closed"}

\* A token is signed with a key that was read at most maxStale and the time of
\* one read ago, or with one that was replaced while the call was under way:
\* the key is loaded before its age is looked at (signContext, refresh).
SignedKeyIsRecent ==
    FreshEnough => \/ signNow <= signCall.read + SignMaxStale + SignFetchTime
                   \/ signCall.key # signing.key \/ signCall.read # signing.read

\* A closed signing provider holds no private key, also when a reload was
\* under way when it was closed (Close, loop).
ClosedHoldsNoKey == closing = "closed" => signing.key = NoKey

-------------------------------------------------------------------------------
(***************************************************************************)
(* security/netutil: TLS material that is reloaded from three files.  The  *)
(* files are replaced one after the other; a reload reads them one after   *)
(* the other and stores a snapshot only when all is well.  The poll and    *)
(* callers of Reload reload, one at a time.                                *)
(* A file's content is known by the rotation it came with.                 *)
(***************************************************************************)

CONSTANTS MaxRotations     \* bound on the rotations of the files

ASSUME CertAssumption == MaxRotations \in Nat

VARIABLES
    files,       \* per file: the rotation of its content; Torn while it is written
    rotation,    \* the rotation under way or last done
    reloader,    \* per reloader: its place and what it read
    reloadMu,    \* the reloader that holds reloadMu, or "free"
    snapshot,    \* the stored certificate with its key, and the CAs
    source       \* the poll: "open", "closing", "closed"

certState == <<files, rotation, reloader, reloadMu, snapshot, source>>
certVars == <<certState, faults>>

Names == {"cert", "key", "ca"}
Torn == -1
CertReloaders == {"poll", "caller"}
Out == [at |-> "out", cert |-> 0, key |-> 0]

CertInit ==
    /\ files = [f \in Names |-> 0] /\ rotation = 0
    /\ reloader = [r \in CertReloaders |-> Out] /\ reloadMu = "free"
    /\ snapshot = [cert |-> 0, key |-> 0, ca |-> 0]
    /\ source = "open" /\ faults = 0

\* A rotation replaces each file, in any order, in one step or in two.
BeginRotation ==
    /\ rotation < MaxRotations /\ \A f \in Names : files[f] = rotation
    /\ rotation' = rotation + 1
    /\ UNCHANGED <<files, reloader, reloadMu, snapshot, source, faults>>

ReplaceFile ==
    /\ \E f \in Names :
        /\ files[f] # rotation
        /\ \/ files' = [files EXCEPT ![f] = rotation] /\ UNCHANGED faults
           \/ files[f] # Torn /\ Fault /\ files' = [files EXCEPT ![f] = Torn]
    /\ UNCHANGED <<rotation, reloader, reloadMu, snapshot, source>>

MovesTo(r, place) == reloader' = [reloader EXCEPT ![r].at = place]

\* Fault model of LockReload: reloads overlap.
LockReloadNever(r) == reloadMu' = reloadMu

LockReload(r) == reloadMu = "free" /\ reloadMu' = r

\* Reload, by the ticker of an open source or by a caller: LoadX509KeyPair
\* reads the certificate file first.
BeginReload(r) ==
    /\ reloader[r].at = "out" /\ (r = "poll" => source = "open")
    /\ LockReload(r)
    /\ reloader' = [reloader EXCEPT ![r] = [at |-> "cert", cert |-> files["cert"], key |-> 0]]
    /\ UNCHANGED <<files, rotation, snapshot, source, faults>>

EndsReload(r) ==
    /\ reloader' = [reloader EXCEPT ![r] = Out]
    /\ reloadMu' = (IF reloadMu = r THEN "free" ELSE reloadMu)

\* Fault model of PairMatches: what parses is taken for a pair.
PairParses(cert, key) == Torn \notin {cert, key}

PairMatches(cert, key) == Torn \notin {cert, key} /\ cert = key

\* Then the key file; a pair that does not match is an error, and the previous
\* snapshot stays.
ReadKey(r) ==
    /\ reloader[r].at = "cert"
    /\ \/ /\ PairMatches(reloader[r].cert, files["key"])
          /\ reloader' = [reloader EXCEPT ![r].at = "pair", ![r].key = files["key"]]
          /\ UNCHANGED reloadMu
       \/ ~PairMatches(reloader[r].cert, files["key"]) /\ EndsReload(r)
    /\ UNCHANGED <<files, rotation, snapshot, source, faults>>

\* Then the CAs; the snapshot is stored as one pointer.
ReadCAs(r) ==
    /\ reloader[r].at = "pair" /\ EndsReload(r)
    /\ snapshot' = (IF files["ca"] = Torn THEN snapshot
                    ELSE [cert |-> reloader[r].cert, key |-> reloader[r].key, ca |-> files["ca"]])
    /\ UNCHANGED <<files, rotation, source, faults>>

\* Close stops the poll and waits for the reload it may be in.
CloseSource ==
    /\ \/ source = "open" /\ Fault /\ source' = "closing"
       \/ source = "closing" /\ reloader["poll"].at = "out" /\ source' = "closed" /\ UNCHANGED faults
    /\ UNCHANGED <<files, rotation, reloader, reloadMu, snapshot>>

ReloadStep(r) == ReadKey(r) \/ ReadCAs(r)

CertNext ==
    \/ BeginRotation \/ ReplaceFile \/ CloseSource
    \/ \E r \in CertReloaders : BeginReload(r) \/ ReloadStep(r)

CertSpec ==
    /\ CertInit /\ [][CertNext]_certVars
    /\ WF_certVars(ReplaceFile) /\ SF_certVars(BeginReload("poll"))
    /\ \A r \in CertReloaders : WF_certVars(ReloadStep(r))

CertTypeOK ==
    /\ \A f \in Names : files[f] \in Torn .. MaxRotations
    /\ \A r \in CertReloaders : reloader[r].at \in {"out", "cert", "pair"}
    /\ reloadMu \in CertReloaders \cup {"free"}
    /\ snapshot \in [cert : 0 .. MaxRotations, key : 0 .. MaxRotations, ca : 0 .. MaxRotations]
    /\ source \in {"open", "closing", "closed"}

\* The certificate served always comes with its own key, whichever files were
\* replaced, half written or not yet written when they were read (Reload,
\* loadTLSMaterial).
ServedPairMatches == snapshot.cert = snapshot.key

\* No reload puts back older material than the one served, also when the poll
\* and a caller reload at the same time (reloadMu).
MaterialMovesForward ==
    [][snapshot'.cert >= snapshot.cert /\ snapshot'.ca >= snapshot.ca]_certVars

\* The source comes to serve what the files hold, unless its poll was closed.
CertSettled ==
    \/ source # "open"
    \/ \A f \in Names : files[f] = rotation /\ snapshot[f] = rotation

-------------------------------------------------------------------------------
\* Keys and certificates are of bounded age and of one piece: verification keys that were
\* withdrawn and signing keys run out, a certificate is served with its own key, and what
\* is closed holds no key, whatever fetches and reloads fail.
MaterialIsCurrent ==
    WithdrawnKeyRunsOut /\ SignedKeyIsRecent /\ ServedPairMatches /\ ClosedHoldsNoKey

\* No step goes back: a revoked token is not let through, and no reload replaces material
\* by older material.
NothingGoesBack ==
    /\ RevokedStaysOut /\ MaterialMovesForward
================================================================================
