-------------------------- MODULE CoordinationProofs --------------------------
(***************************************************************************)
(* Proofs about what replicas agree on through a store: who leads, and who *)
(* runs a request.                                                         *)
(*                                                                         *)
(* Leading: Elector, for any number of replicas, any lock life and any     *)
(* renewal interval that fits in it twice, and any number of faults; and   *)
(* K8sLease, for any number of terms alive at once, with a drain timeout   *)
(* or without.  The order of a term's steps needs no timing: TermInv says  *)
(* what each place of Run knows of the callback, the flag and the drain,   *)
(* and the handover properties follow from it.  That two replicas never    *)
(* lead at once does: LeaseInv counts the ticks since the last renewal     *)
(* against the life the server still gives the key.                        *)
(*                                                                         *)
(* Running a request once: Idempotency, for any number of requests, any    *)
(* lives of lock and response and any number of faults, over all three     *)
(* stores.  The fence is the token.  FenceInv says who may know the token  *)
(* of the slot: at most the request that took the lock, and nobody once    *)
(* the response is cached.  RunsInv is the account of handler runs: an     *)
(* occupied slot has been paid for, an empty one has not.                  *)
(***************************************************************************)
EXTENDS Elector, K8sLease, Idempotency, TLAPS

-----------------------------------------------------------------------------
(* A request that is repeated: Idempotency.                                *)

\* The places of Middleware at which a request holds a token.
Owning == {"handler", "set", "unlock"}

FenceInv ==
    /\ \A r \in Requests : token[r] # NoToken => place[r] \in Owning
    /\ \A r, q \in Requests : r # q /\ token[r] # NoToken => token[q] # token[r]
    /\ slot.kind = "free" => slot = Free
    /\ slot.kind # "free" => slot.token \in Tokens
    /\ slot.kind = "lock" =>
         \A r \in Requests : token[r] = slot.token => slot.fp = Fingerprint[r]
    /\ slot.kind = "resp" =>
         /\ \A r \in Requests : token[r] # slot.token
         /\ slot.by \in Requests /\ slot.fp = Fingerprint[slot.by]

\* A slot that may be locked stands for one more run.
RunsInv ==
    \/ releases = Cap \/ lapses = Cap
    \/ runs + (IF Live THEN 0 ELSE 1) <= 1 + releases + lapses

-----------------------------------------------------------------------------
(* The operators.                                                          *)

\* GenerateToken: while a request asks for the lock there is a token that neither
\* the slot nor any request holds.
LEMMA FreshRequest ==
  ASSUME IdempotencyAssumption, RequestTypeOK, FenceInv, NEW r \in Requests, place[r] = "lock"
  PROVE  /\ FreshToken \in Tokens /\ FreshToken # slot.token /\ FreshToken # NoToken
         /\ \A q \in Requests : token[q] # FreshToken
<1>1. token[r] = NoToken /\ NoToken \notin Tokens
  BY DEF FenceInv, Owning, IdempotencyAssumption
<1>2. PICK d \in Tokens : TRUE
  BY Zenon DEF IdempotencyAssumption
<1> DEFINE Token(x) == IF x \in Tokens THEN x ELSE d
           held == [q \in Requests |-> Token(IF q = r THEN slot.token ELSE token[q])]
<1>3. held \in [Requests -> Tokens]
  OBVIOUS
<1>4. PICK t \in Tokens : \A q \in Requests : held[q] # t
  <2> HIDE DEF held
  <2> QED
    BY Zenon, <1>3 DEF IdempotencyAssumption
<1>5. t # slot.token
  BY <1>4
<1>6. \A q \in Requests : t # token[q]
  BY <1>1, <1>4
<1> QED
  BY Zenon, <1>1, <1>5, <1>6 DEF FreshToken

LEMMA SlotTypes ==
  ASSUME IdempotencyAssumption
  PROVE  /\ Free \in Slot
         /\ \A r \in Requests, t \in Tokens : Locked(r, t) \in Slot
         /\ RequestTypeOK => \A r \in Requests : Cached(r) \in Slot
<1> USE DEF IdempotencyAssumption, Slot, Fps, Longest
<1>1. Free \in Slot
  BY DEF Free
<1>2. \A r \in Requests, t \in Tokens : Locked(r, t) \in Slot
  BY DEF Locked
<1>3. RequestTypeOK => \A r \in Requests : Cached(r) \in Slot
  <2> SUFFICES ASSUME RequestTypeOK, NEW r \in Requests
               PROVE  Cached(r) \in Slot
    OBVIOUS
  <2>1. slot \in Slot
    BY ZenonT(30) DEF RequestTypeOK
  <2>2. CacheTicks \in 0 .. Longest
    OBVIOUS
  <2> QED
    BY ZenonT(30), <2>1, <2>2 DEF Cached
<1> QED
  BY ZenonT(30), <1>1, <1>2, <1>3

\* Whichever store is in use, a lock is granted on a slot that is not live only.
LEMMA LockableIsNotLive ==
  ASSUME RequestTypeOK, FenceInv, Lockable
  PROVE  ~Live
<1>1. slot.kind = "free" => ~Live
  BY DEF FenceInv, Free, Live
<1>2. slot.kind \in {"free", "lock", "resp"}
  BY DEF RequestTypeOK, Slot
<1> QED
  BY <1>1, <1>2 DEF Lockable, PgLockable, RedisLockable, MemLockable

\* Whichever store is in use, what is replayed is a cached response to this body, or
\* to any body where no fingerprint is sent.
LEMMA HitMatches ==
  ASSUME RequestTypeOK, NEW r, StoreGet(r) = "hit"
  PROVE  slot.kind = "resp" /\ (Fingerprint[r] = NoFp \/ slot.fp = Fingerprint[r])
<1>1. slot.kind \in {"free", "lock", "resp"}
  BY DEF RequestTypeOK, Slot
<1>2. CASE store = "pg"
  <2>1. PgGet(Fingerprint[r]) = "hit"
    BY <1>2 DEF StoreGet
  <2> QED
    BY <2>1 DEF PgGet, Differs
<1>3. CASE store = "redis"
  <2>1. RedisGet(Fingerprint[r]) = "hit"
    BY <1>3 DEF StoreGet
  <2> QED
    BY <1>1, <2>1 DEF RedisGet, Differs
<1>4. CASE store \notin {"pg", "redis"}
  <2>1. MemGet(Fingerprint[r]) = "hit"
    BY <1>4 DEF StoreGet
  <2> QED
    BY <2>1 DEF MemGet, Differs
<1> QED
  BY <1>2, <1>3, <1>4

LEMMA UpTypes ==
  ASSUME IdempotencyAssumption, NEW n \in 0 .. Cap
  PROVE  Up(n) \in 0 .. Cap /\ (Up(n) = n + 1 \/ (Up(n) = n /\ n = Cap))
<1>1. Cap \in Nat
  BY DEF IdempotencyAssumption
<1> QED
  BY <1>1 DEF Up

-----------------------------------------------------------------------------
(* The invariant, action by action.                                        *)

IInv == RequestTypeOK /\ FenceInv /\ RunsInv /\ ReplayMatches

LEMMA FaultTypes ==
  ASSUME IdempotencyAssumption, RequestTypeOK, NEW k, StoreFault(k) \/ UNCHANGED storeFaults
  PROVE  storeFaults' \in 0 .. MaxStoreFaults
BY DEF IdempotencyAssumption, RequestTypeOK, StoreFault

\* A step that leaves slot, tokens and counts alone, and no owner's places.
LEMMA SlotKept ==
  ASSUME IInv, UNCHANGED <<store, slot, token, runs, releases, lapses>>,
         place' \in [Requests -> Places], \A q \in Requests : place[q] \in Owning => place'[q] \in Owning,
         got' \in [Requests -> Requests \cup {NoRequest}], ReplayMatches',
         storeFaults' \in 0 .. MaxStoreFaults
  PROVE  IInv'
<1>1. RequestTypeOK'
  BY DEF IInv, RequestTypeOK
<1>2. FenceInv'
  BY ZenonT(30) DEF IInv, FenceInv
<1>3. RunsInv'
  BY DEF IInv, RunsInv, Live
<1> QED
  BY <1>1, <1>2, <1>3 DEF IInv

\* What a request is answered with: nothing new, its own response, or the cached one
\* after a hit.
LEMMA AnswerMatches ==
  ASSUME IInv, NEW r \in Requests,
         \/ UNCHANGED got
         \/ got' = [got EXCEPT ![r] = r]
         \/ StoreGet(r) = "hit" /\ got' = [got EXCEPT ![r] = slot.by]
  PROVE  got' \in [Requests -> Requests \cup {NoRequest}] /\ ReplayMatches'
<1> USE DEF IInv, RequestTypeOK
<1>1. CASE UNCHANGED got
  BY ZenonT(30), <1>1 DEF ReplayMatches
<1>2. CASE got' = [got EXCEPT ![r] = r]
  BY ZenonT(30), <1>2 DEF ReplayMatches
<1>3. CASE StoreGet(r) = "hit" /\ got' = [got EXCEPT ![r] = slot.by]
  <2>1. slot.kind = "resp" /\ (Fingerprint[r] = NoFp \/ slot.fp = Fingerprint[r])
    BY ZenonT(30), <1>3, HitMatches
  <2>2. slot.by \in Requests /\ slot.fp = Fingerprint[slot.by]
    BY ZenonT(30), <2>1 DEF FenceInv
  <2>3. got' \in [Requests -> Requests \cup {NoRequest}]
    BY ZenonT(30), <1>3, <2>2
  <2>4. ReplayMatches'
    BY ZenonT(30), <1>3, <2>1, <2>2 DEF ReplayMatches
  <2> QED
    BY <2>3, <2>4
<1> QED
  BY ZenonT(30), <1>1, <1>2, <1>3

LEMMA GotoPlaces ==
  ASSUME RequestTypeOK, NEW r \in Requests, NEW w \in Places, RequestGoto(r, w)
  PROVE  /\ place' \in [Requests -> Places] /\ place'[r] = w
         /\ \A q \in Requests \ {r} : place'[q] = place[q]
BY DEF RequestTypeOK, RequestGoto

\* FirstGet, Inspect, SecondGet, Retry and a TryLock that finds the slot taken.
LEMMA ReadIInv ==
  ASSUME IdempotencyAssumption, IInv, NEW r \in Requests, NEW w \in Places, NEW k,
         place[r] \notin Owning \/ w \in Owning, RequestGoto(r, w), StoreFault(k) \/ UNCHANGED storeFaults,
         UNCHANGED <<store, slot, token, runs, releases, lapses>>,
         \/ UNCHANGED got
         \/ got' = [got EXCEPT ![r] = r]
         \/ StoreGet(r) = "hit" /\ got' = [got EXCEPT ![r] = slot.by]
  PROVE  IInv'
<1>1. RequestTypeOK
  BY ZenonT(30) DEF IInv
<1>2. storeFaults' \in 0 .. MaxStoreFaults
  BY ZenonT(30), <1>1, FaultTypes
<1>3. got' \in [Requests -> Requests \cup {NoRequest}] /\ ReplayMatches'
  BY ZenonT(30), AnswerMatches
<1>4. place' \in [Requests -> Places] /\ \A q \in Requests : place[q] \in Owning => place'[q] \in Owning
  BY ZenonT(30), <1>1, GotoPlaces
<1> QED
  BY ZenonT(30), <1>2, <1>3, <1>4, SlotKept

LEMMA FirstGetIInv ==
  ASSUME IdempotencyAssumption, IInv, NEW r \in Requests, FirstGet(r)
  PROVE  IInv'
<1>1. PICK w \in {"rejected", "answered", "lock", "turned away"} : RequestGoto(r, w)
  BY ZenonT(30) DEF FirstGet, Reject, Replay, TurnAway
<1>2. place[r] \notin Owning /\ w \in Places
  BY <1>1 DEF FirstGet, Owning, Places
<1>3. UNCHANGED <<store, slot, token, runs, releases, lapses>>
  BY DEF FirstGet, Ghosts
<1>4. UNCHANGED got \/ (StoreGet(r) = "hit" /\ got' = [got EXCEPT ![r] = slot.by])
  BY ZenonT(30) DEF FirstGet, Reject, Replay, TurnAway
<1>5. StoreFault("store") \/ UNCHANGED storeFaults
  BY ZenonT(30) DEF FirstGet
<1> QED
  BY ZenonT(30), <1>1, <1>2, <1>3, <1>4, <1>5, ReadIInv

LEMMA SecondGetIInv ==
  ASSUME IdempotencyAssumption, IInv, NEW r \in Requests, SecondGet(r)
  PROVE  IInv'
<1>1. PICK w \in {"rejected", "answered", "turned away"} : RequestGoto(r, w)
  BY ZenonT(30) DEF SecondGet, Reject, Replay, TurnAway
<1>2. place[r] \notin Owning /\ w \in Places
  BY ZenonT(30), <1>1 DEF SecondGet, Owning, Places
<1>3. UNCHANGED <<store, slot, token, runs, releases, lapses>>
  BY ZenonT(30) DEF SecondGet, Ghosts
<1>4. UNCHANGED got \/ (StoreGet(r) = "hit" /\ got' = [got EXCEPT ![r] = slot.by])
  BY ZenonT(30) DEF SecondGet, Reject, Replay, TurnAway
<1>5. StoreFault("store") \/ UNCHANGED storeFaults
  BY DEF SecondGet
<1> QED
  BY ZenonT(30), <1>1, <1>2, <1>3, <1>4, <1>5, ReadIInv

LEMMA InspectIInv ==
  ASSUME IdempotencyAssumption, IInv, NEW r \in Requests, Inspect(r)
  PROVE  IInv'
<1>1. PICK w \in {"rejected", "reget", "turned away"} : RequestGoto(r, w)
  BY ZenonT(30) DEF Inspect, Reject, TurnAway
<1>2. place[r] \notin Owning /\ w \in Places
  BY ZenonT(30), <1>1 DEF Inspect, Owning, Places
<1>3. UNCHANGED <<store, slot, token, runs, releases, lapses, got>>
  BY ZenonT(30) DEF Inspect, Ghosts, Reject, TurnAway
<1>4. StoreFault("store") \/ UNCHANGED storeFaults
  BY ZenonT(30) DEF Inspect
<1> QED
  BY ZenonT(30), <1>1, <1>2, <1>3, <1>4, ReadIInv

LEMMA HandlerIInv ==
  ASSUME IdempotencyAssumption, IInv, NEW r \in Requests, Handler(r)
  PROVE  IInv'
<1>1. PICK w \in {"set", "unlock"} : RequestGoto(r, w)
  BY ZenonT(30) DEF Handler
<1>2. w \in Owning /\ w \in Places
  BY <1>1 DEF Owning, Places
<1>3. UNCHANGED <<store, slot, token, runs, releases, lapses>>
  BY ZenonT(30) DEF Handler, Ghosts
<1>4. UNCHANGED got \/ got' = [got EXCEPT ![r] = r]
  BY ZenonT(30) DEF Handler
<1>5. StoreFault("handler") \/ UNCHANGED storeFaults
  BY ZenonT(30) DEF Handler
<1> QED
  BY ZenonT(30), <1>1, <1>2, <1>3, <1>4, <1>5, ReadIInv

LEMMA RetryIInv ==
  ASSUME IdempotencyAssumption, IInv, NEW r \in Requests, Retry(r)
  PROVE  IInv'
<1>1. RequestGoto(r, "new") /\ place[r] \notin Owning /\ "new" \in Places
  BY ZenonT(30) DEF Retry, Owning, Places
<1>2. UNCHANGED <<store, slot, token, runs, releases, lapses, got, storeFaults>>
  BY DEF Retry, Ghosts
<1> QED
  BY ZenonT(30), <1>1, <1>2, ReadIInv

\* The slot is locked, with a token that goes to the caller or to nobody.
LEMMA LockedFence ==
  ASSUME IdempotencyAssumption, IInv, NEW r \in Requests, place[r] = "lock",
         slot' = Locked(r, FreshToken),
         \/ token' = [token EXCEPT ![r] = FreshToken] /\ place'[r] = "handler"
         \/ UNCHANGED token,
         \A q \in Requests \ {r} : place'[q] = place[q]
  PROVE  FenceInv'
<1>1. RequestTypeOK /\ FenceInv
  BY ZenonT(30) DEF IInv
<1>2. /\ FreshToken \in Tokens /\ FreshToken # NoToken
      /\ \A q \in Requests : token[q] # FreshToken
  BY ZenonT(30), <1>1, FreshRequest
<1>3. /\ slot'.kind = "lock" /\ slot'.token = FreshToken /\ slot'.fp = Fingerprint[r]
  BY ZenonT(30) DEF Locked
<1>4. token[r] = NoToken
  BY ZenonT(30), <1>1 DEF FenceInv, Owning
<1>5. \A q \in Requests : token'[q] = token[q] \/ (q = r /\ token'[q] = FreshToken)
  BY ZenonT(30), <1>1 DEF RequestTypeOK
<1>6. \A q \in Requests : token'[q] # NoToken => place'[q] \in Owning
  BY ZenonT(30), <1>1, <1>2, <1>4, <1>5 DEF FenceInv, Owning, RequestTypeOK
<1>7. \A x, q \in Requests : x # q /\ token'[x] # NoToken => token'[q] # token'[x]
  BY <1>1, <1>2, <1>4, <1>5 DEF FenceInv
<1>8. \A q \in Requests : token'[q] = FreshToken => q = r
  BY ZenonT(30), <1>2, <1>5
<1> QED
  BY ZenonT(30), <1>2, <1>3, <1>6, <1>7, <1>8 DEF FenceInv

LEMMA TryLockIInv ==
  ASSUME IdempotencyAssumption, IInv, NEW r \in Requests, TryLock(r)
  PROVE  IInv'
<1>0. RequestTypeOK /\ FenceInv /\ RunsInv /\ ReplayMatches
  BY DEF IInv
<1>1. place[r] = "lock" /\ place[r] \notin Owning /\ UNCHANGED <<store, releases, lapses>>
  BY ZenonT(30) DEF TryLock, Owning
<1>2. ASSUME Lockable, slot' = Locked(r, FreshToken),
             runs' = Up(runs) \/ UNCHANGED runs, UNCHANGED <<releases, lapses>>
      PROVE  runs' \in 0 .. Cap /\ RunsInv'
  <2>1. Cap \in Nat /\ runs \in 0 .. Cap /\ releases \in 0 .. Cap /\ lapses \in 0 .. Cap
    BY ZenonT(30), <1>0 DEF RequestTypeOK, IdempotencyAssumption
  <2>2. runs' \in 0 .. Cap /\ (runs' = runs + 1 \/ runs' = runs)
    BY ZenonT(30), <1>2, <2>1, UpTypes
  <2>3. ~Live /\ Live'
    BY <1>0, <1>2, LockableIsNotLive DEF Live, Locked, IdempotencyAssumption
  <2>4. releases = Cap \/ lapses = Cap \/ runs + 1 <= 1 + releases + lapses
    BY ZenonT(30), <1>0, <2>3 DEF RunsInv
  <2>5. runs + 1 <= 1 + releases + lapses => runs' + 0 <= 1 + releases + lapses
    <3>1. runs \in Nat /\ releases \in Nat /\ lapses \in Nat
      BY <2>1
    <3>2. runs' = runs + 1 \/ runs' = runs
      BY ZenonT(30), <2>2
    <3> QED
      BY <3>1, <3>2
  <2> QED
    BY ZenonT(30), <1>2, <2>2, <2>3, <2>4, <2>5 DEF RunsInv
<1>3. CASE /\ Lockable
           /\ slot' = Locked(r, FreshToken) /\ token' = [token EXCEPT ![r] = FreshToken]
           /\ RequestGoto(r, "handler") /\ runs' = Up(runs)
           /\ UNCHANGED <<got, storeFaults>>
  <2>1. FreshToken \in Tokens
    BY ZenonT(30), <1>0, <1>1, FreshRequest
  <2>2. place' \in [Requests -> Places] /\ place'[r] = "handler" /\ \A q \in Requests \ {r} : place'[q] = place[q]
    BY ZenonT(30), <1>0, <1>3, GotoPlaces DEF Places
  <2>3. FenceInv'
    BY ZenonT(30), <1>1, <1>3, <2>2, LockedFence
  <2>4. runs' \in 0 .. Cap /\ RunsInv'
    BY ZenonT(30), <1>1, <1>2, <1>3
  <2>5. RequestTypeOK'
    BY ZenonT(30), <1>0, <1>1, <1>3, <2>1, <2>2, <2>4, SlotTypes DEF RequestTypeOK
  <2>6. ReplayMatches'
    BY ZenonT(30), <1>0, <1>3 DEF ReplayMatches
  <2> QED
    BY ZenonT(30), <2>3, <2>4, <2>5, <2>6 DEF IInv
<1>4. CASE /\ ~Lockable
           /\ \/ store # "redis" /\ Differs(Fingerprint[r]) /\ Reject(r)
              \/ store # "redis" /\ ~Differs(Fingerprint[r]) /\ RequestGoto(r, "reget") /\ UNCHANGED got
              \/ store = "redis" /\ RequestGoto(r, "inspect") /\ UNCHANGED got
           /\ UNCHANGED <<slot, token, runs, storeFaults>>
  <2>1. PICK w \in {"rejected", "reget", "inspect"} : RequestGoto(r, w)
    BY ZenonT(30), <1>4 DEF Reject
  <2>2. w \in Places
    BY <2>1 DEF Places
  <2>3. UNCHANGED got
    BY ZenonT(30), <1>4 DEF Reject
  <2> QED
    BY ZenonT(30), <1>1, <1>4, <2>1, <2>2, <2>3, ReadIInv
<1>5. CASE /\ StoreFault("store") /\ TurnAway(r)
           /\ slot' \in MaybeDone(IF Lockable THEN Locked(r, FreshToken) ELSE slot)
           /\ UNCHANGED <<token, runs>>
  <2>1. RequestGoto(r, "turned away") /\ UNCHANGED got /\ "turned away" \in Places
    BY ZenonT(30), <1>5 DEF TurnAway, Places
  <2>2. UNCHANGED slot \/ (Lockable /\ slot' = Locked(r, FreshToken))
    BY ZenonT(30), <1>5 DEF MaybeDone
  <2>3. CASE UNCHANGED slot
    BY ZenonT(30), <1>1, <1>5, <2>1, <2>3, ReadIInv
  <2>4. CASE Lockable /\ slot' = Locked(r, FreshToken)
    <3>1. FreshToken \in Tokens
      BY <1>0, <1>1, FreshRequest
    <3>2. place' \in [Requests -> Places] /\ \A q \in Requests \ {r} : place'[q] = place[q]
      BY ZenonT(30), <1>0, <2>1, GotoPlaces
    <3>3. FenceInv'
      BY ZenonT(30), <1>1, <1>5, <2>4, <3>2, LockedFence
    <3>4. RunsInv'
      BY ZenonT(30), <1>1, <1>2, <1>5, <2>4
    <3>5. RequestTypeOK'
      BY ZenonT(30), <1>0, <1>1, <1>5, <2>1, <2>4, <3>1, <3>2, SlotTypes, FaultTypes DEF RequestTypeOK
    <3>6. ReplayMatches'
      BY ZenonT(30), <1>0, <2>1 DEF ReplayMatches
    <3> QED
      BY ZenonT(30), <3>3, <3>4, <3>5, <3>6 DEF IInv
  <2> QED
    BY ZenonT(30), <2>2, <2>3, <2>4
<1> QED
  BY ZenonT(30), <1>3, <1>4, <1>5 DEF TryLock

\* The request is over and its token forgotten: what it does to place, token and got.
LEMMA DoneFacts ==
  ASSUME RequestTypeOK, NEW r \in Requests, Done(r)
  PROVE  /\ place' \in [Requests -> Places] /\ \A q \in Requests \ {r} : place'[q] = place[q]
         /\ token' \in [Requests -> Tokens \cup {NoToken}]
         /\ token'[r] = NoToken /\ \A q \in Requests \ {r} : token'[q] = token[q]
BY ZenonT(30) DEF RequestTypeOK, Done, RequestGoto, Places

\* A slot that stays as it was, or is freed, keeps the fence.
LEMMA DoneFence ==
  ASSUME RequestTypeOK, FenceInv, IdempotencyAssumption, NEW r \in Requests, Done(r),
         UNCHANGED slot \/ slot' = Free
  PROVE  FenceInv'
<1>1. /\ token'[r] = NoToken
      /\ \A q \in Requests \ {r} : place'[q] = place[q] /\ token'[q] = token[q]
  BY ZenonT(30), DoneFacts
<1>2. \A q \in Requests : token'[q] # NoToken => place'[q] \in Owning
  BY ZenonT(30), <1>1 DEF FenceInv
<1>3. \A x, q \in Requests : x # q /\ token'[x] # NoToken => token'[q] # token'[x]
  BY <1>1 DEF FenceInv
<1>4. CASE UNCHANGED slot
  <2>1. slot.kind # "free" => slot.token # NoToken
    BY ZenonT(30) DEF FenceInv, IdempotencyAssumption
  <2> QED
    BY ZenonT(30), <1>1, <1>2, <1>3, <1>4, <2>1 DEF FenceInv
<1>5. CASE slot' = Free
  BY ZenonT(30), <1>2, <1>3, <1>5 DEF FenceInv, Free
<1> QED
  BY ZenonT(30), <1>4, <1>5

LEMMA SetIInv ==
  ASSUME IdempotencyAssumption, IInv, NEW r \in Requests, Set(r)
  PROVE  IInv'
<1>0. RequestTypeOK /\ FenceInv /\ RunsInv /\ ReplayMatches
  BY DEF IInv
<1>1. Done(r) /\ UNCHANGED <<store, got, runs, releases, lapses>>
  BY ZenonT(30) DEF Set, Ghosts
<1>2. UNCHANGED slot \/ (Sets(r) /\ slot' = Cached(r))
  BY ZenonT(30) DEF Set, MaybeDone
<1>3. storeFaults' \in 0 .. MaxStoreFaults
  BY ZenonT(30), <1>0, FaultTypes DEF Set
<1>4. slot' \in Slot
  BY ZenonT(30), <1>0, <1>2, SlotTypes DEF RequestTypeOK
<1>5. RequestTypeOK'
  BY ZenonT(30), <1>0, <1>1, <1>3, <1>4, DoneFacts DEF RequestTypeOK
<1>6. RunsInv'
  <2>1. Live <=> Live'
    <3>1. slot \in Slot /\ CacheTicks \in Nat \ {0}
      BY ZenonT(30), <1>0 DEF RequestTypeOK, IdempotencyAssumption
    <3>2. CASE Sets(r) /\ slot' = Cached(r)
      <4>1. slot'.ttl = CacheTicks
        BY <3>1, <3>2 DEF Cached, Slot
      <4> QED
        BY <3>1, <3>2, <4>1 DEF Live, Sets
    <3> QED
      BY ZenonT(30), <1>2, <3>2 DEF Live
  <2> QED
    BY ZenonT(30), <1>0, <1>1, <2>1 DEF RunsInv
<1>7. FenceInv'
  <2>1. CASE UNCHANGED slot
    BY ZenonT(30), <1>0, <1>1, <2>1, DoneFence
  <2>2. CASE Sets(r) /\ slot' = Cached(r)
    <3>1. slot.kind # "free"
      BY <1>0, <2>2 DEF Sets, FenceInv, Free, Live
    <3>2. slot.kind = "lock"
      BY ZenonT(30), <1>0, <2>2, <3>1 DEF Sets, FenceInv, RequestTypeOK, Slot
    <3>3. slot.token \in Tokens /\ slot.token # NoToken /\ token[r] = slot.token
          /\ slot.fp = Fingerprint[r]
      BY ZenonT(30), <1>0, <2>2, <3>2 DEF Sets, FenceInv, IdempotencyAssumption
    <3>4. /\ slot'.kind = "resp" /\ slot'.by = r /\ slot'.token = slot.token
          /\ slot'.fp = slot.fp
      BY <1>0, <2>2 DEF Cached, RequestTypeOK, Slot
    <3>5. /\ token'[r] = NoToken
          /\ \A q \in Requests \ {r} : place'[q] = place[q] /\ token'[q] = token[q]
      BY ZenonT(30), <1>0, <1>1, DoneFacts
    <3>6. \A q \in Requests : token'[q] # NoToken => place'[q] \in Owning
      BY ZenonT(30), <1>0, <3>5 DEF FenceInv
    <3>7. \A x, q \in Requests : x # q /\ token'[x] # NoToken => token'[q] # token'[x]
      BY <1>0, <3>5 DEF FenceInv
    <3>8. \A q \in Requests : token'[q] # slot.token
      BY ZenonT(30), <1>0, <3>3, <3>5 DEF FenceInv
    <3> QED
      BY ZenonT(30), <3>3, <3>4, <3>6, <3>7, <3>8 DEF FenceInv
  <2> QED
    BY ZenonT(30), <1>2, <2>1, <2>2
<1>8. ReplayMatches'
  BY ZenonT(30), <1>0, <1>1 DEF ReplayMatches
<1> QED
  BY ZenonT(30), <1>5, <1>6, <1>7, <1>8 DEF IInv

LEMMA UnlockIInv ==
  ASSUME IdempotencyAssumption, IInv, NEW r \in Requests, Unlock(r)
  PROVE  IInv'
<1>0. RequestTypeOK /\ FenceInv /\ RunsInv /\ ReplayMatches
  BY DEF IInv
<1>1. Done(r) /\ UNCHANGED <<store, got, runs, lapses>>
  BY ZenonT(30) DEF Unlock
<1>2. UNCHANGED slot \/ (Unlocks(r) /\ slot' = Free)
  BY ZenonT(30) DEF Unlock, MaybeDone
<1>3. storeFaults' \in 0 .. MaxStoreFaults
  BY ZenonT(30), <1>0, FaultTypes DEF Unlock
<1>4. Cap \in Nat /\ runs \in 0 .. Cap /\ releases \in 0 .. Cap /\ lapses \in 0 .. Cap
  BY <1>0 DEF RequestTypeOK, IdempotencyAssumption
<1>5. Up(releases) \in 0 .. Cap /\ (Up(releases) = releases + 1 \/ (Up(releases) = releases /\ releases = Cap))
  BY ZenonT(30), <1>4, UpTypes
<1>6. releases' = Up(releases) \/ (releases' = releases /\ UNCHANGED slot)
  BY ZenonT(30), <1>2 DEF Unlock, Unlocks
<1>7. RequestTypeOK'
  <2>1. slot' \in Slot
    BY ZenonT(30), <1>0, <1>2, SlotTypes DEF RequestTypeOK
  <2>2. releases' \in 0 .. Cap
    BY ZenonT(30), <1>4, <1>5, <1>6
  <2> QED
    BY ZenonT(30), <1>0, <1>1, <1>3, <2>1, <2>2, DoneFacts DEF RequestTypeOK
<1>8. RunsInv'
  <2>1. CASE releases' = Up(releases)
    <3>1. releases' = Cap \/ lapses = Cap \/ runs + 1 <= 1 + releases' + lapses
      BY <1>0, <1>4, <1>5, <2>1 DEF RunsInv
    <3> QED
      BY <1>1, <1>4, <1>5, <2>1, <3>1 DEF RunsInv
  <2>2. CASE UNCHANGED <<releases, slot>>
    BY ZenonT(30), <1>0, <1>1, <2>2 DEF RunsInv, Live
  <2> QED
    BY ZenonT(30), <1>6, <2>1, <2>2
<1>9. FenceInv' /\ ReplayMatches'
  BY ZenonT(30), <1>0, <1>1, <1>2, DoneFence DEF ReplayMatches
<1> QED
  BY ZenonT(30), <1>7, <1>8, <1>9 DEF IInv

LEMMA CrashIInv ==
  ASSUME IdempotencyAssumption, IInv, NEW r \in Requests, ServerCrash(r)
  PROVE  IInv'
<1>0. RequestTypeOK /\ FenceInv /\ RunsInv /\ ReplayMatches
  BY DEF IInv
<1>1. Done(r) /\ UNCHANGED <<store, slot, got, runs, releases, lapses>>
  BY ZenonT(30) DEF ServerCrash, Ghosts
<1>2. storeFaults' \in 0 .. MaxStoreFaults
  BY ZenonT(30), <1>0, FaultTypes DEF ServerCrash
<1>3. RequestTypeOK'
  BY ZenonT(30), <1>0, <1>1, <1>2, DoneFacts DEF RequestTypeOK
<1>4. FenceInv' /\ RunsInv' /\ ReplayMatches'
  BY ZenonT(30), <1>0, <1>1, DoneFence DEF RunsInv, Live, ReplayMatches
<1> QED
  BY ZenonT(30), <1>3, <1>4 DEF IInv

LEMMA DeleteExpiredIInv ==
  ASSUME IdempotencyAssumption, IInv, DeleteExpired
  PROVE  IInv'
<1>0. RequestTypeOK /\ FenceInv /\ RunsInv /\ ReplayMatches
  BY DEF IInv
<1>1. ~Live /\ slot' = Free /\ UNCHANGED <<store, place, token, got, runs, releases, lapses, storeFaults>>
  BY ZenonT(30) DEF DeleteExpired, Ghosts
<1>2. ~Live'
  BY <1>1 DEF Live, Free
<1>3. RequestTypeOK'
  BY ZenonT(30), <1>0, <1>1, SlotTypes DEF RequestTypeOK
<1>4. FenceInv'
  BY ZenonT(30), <1>0, <1>1 DEF FenceInv, Free
<1>5. RunsInv' /\ ReplayMatches'
  BY ZenonT(30), <1>0, <1>1, <1>2 DEF RunsInv, ReplayMatches
<1> QED
  BY ZenonT(30), <1>3, <1>4, <1>5 DEF IInv

LEMMA TickIInv ==
  ASSUME IdempotencyAssumption, IInv, StoreTick
  PROVE  IInv'
<1>0. RequestTypeOK /\ FenceInv /\ RunsInv /\ ReplayMatches
  BY DEF IInv
<1>1. Live /\ UNCHANGED <<store, place, token, got, runs, releases, storeFaults>>
  BY DEF StoreTick
<1>2. slot \in Slot /\ slot.ttl \in Nat /\ slot.ttl > 0 /\ Longest \in Nat
  BY <1>0, <1>1 DEF RequestTypeOK, Slot, Live, Longest, IdempotencyAssumption
<1>3. \/ slot' = Free /\ slot.ttl = 1
      \/ slot' = [slot EXCEPT !.ttl = slot.ttl - 1]
  BY DEF StoreTick
<1>4. Cap \in Nat /\ runs \in 0 .. Cap /\ releases \in 0 .. Cap /\ lapses \in 0 .. Cap
  BY ZenonT(30), <1>0 DEF RequestTypeOK, IdempotencyAssumption
<1>5. Up(lapses) \in 0 .. Cap /\ (Up(lapses) = lapses + 1 \/ (Up(lapses) = lapses /\ lapses = Cap))
  BY ZenonT(30), <1>4, UpTypes
<1>6. lapses' = IF slot.ttl = 1 THEN Up(lapses) ELSE lapses
  BY DEF StoreTick
<1>7. slot' \in Slot
  BY <1>2, <1>3, SlotTypes DEF Slot
<1>8. RequestTypeOK'
  BY ZenonT(30), <1>0, <1>1, <1>4, <1>5, <1>6, <1>7 DEF RequestTypeOK
<1>9. slot'.ttl = slot.ttl - 1
  BY <1>2, <1>3 DEF Slot, Free
<1>10. RunsInv'
  <2>1. CASE slot.ttl = 1
    <3>1. ~Live' /\ lapses' = Up(lapses)
      BY <1>6, <1>9, <2>1 DEF Live
    <3>2. releases = Cap \/ lapses = Cap \/ runs + 0 <= 1 + releases + lapses
      BY ZenonT(30), <1>0, <1>1 DEF RunsInv
    <3>3. releases = Cap \/ lapses' = Cap \/ runs + 1 <= 1 + releases + lapses'
      BY <1>4, <1>5, <3>1, <3>2
    <3> QED
      BY ZenonT(30), <1>1, <3>1, <3>3 DEF RunsInv
  <2>2. CASE slot.ttl # 1
    <3>1. Live'
      BY <1>2, <1>9, <2>2 DEF Live
    <3> QED
      BY ZenonT(30), <1>0, <1>1, <1>6, <2>2, <3>1 DEF RunsInv
  <2> QED
    BY ZenonT(30), <2>1, <2>2
<1>11. FenceInv'
  <2>1. CASE slot' = Free
    BY ZenonT(30), <1>0, <1>1, <2>1 DEF FenceInv, Free
  <2>2. CASE slot' = [slot EXCEPT !.ttl = slot.ttl - 1]
    <3>1. /\ slot'.kind = slot.kind /\ slot'.token = slot.token /\ slot'.fp = slot.fp
          /\ slot'.by = slot.by
      BY ZenonT(30), <1>2, <2>2 DEF Slot
    <3>2. slot.kind # "free"
      <4> SUFFICES ASSUME slot = Free PROVE FALSE
        BY ZenonT(30), <1>0 DEF FenceInv
      <4>1. slot.ttl = 0
        BY ZenonT(30) DEF Free
      <4> QED
        BY <1>1, <4>1 DEF Live
    <3> QED
      BY ZenonT(30), <1>0, <1>1, <3>1, <3>2 DEF FenceInv
  <2> QED
    BY <1>3, <2>1, <2>2
<1>12. ReplayMatches'
  BY ZenonT(30), <1>0, <1>1 DEF ReplayMatches
<1> QED
  BY ZenonT(30), <1>8, <1>10, <1>11, <1>12 DEF IInv

-----------------------------------------------------------------------------
(* The theorems.                                                           *)

LEMMA InitIInv == ASSUME IdempotencyAssumption PROVE RequestInit => IInv
<1> SUFFICES ASSUME RequestInit
             PROVE  IInv
  BY ZenonT(30)
<1>1. Free \in Slot /\ Cap \in Nat /\ MaxStoreFaults \in Nat
  BY ZenonT(30), SlotTypes DEF IdempotencyAssumption
<1>2. RequestTypeOK
  BY <1>1 DEF RequestInit, RequestTypeOK, Places
<1>3. FenceInv
  BY ZenonT(30) DEF RequestInit, FenceInv, Free
<1>4. RunsInv
  BY DEF RequestInit, RunsInv, Live, Free
<1>5. ReplayMatches
  BY ZenonT(30) DEF RequestInit, ReplayMatches
<1> QED
  BY ZenonT(30), <1>2, <1>3, <1>4, <1>5 DEF IInv

LEMMA NextIInv == ASSUME IdempotencyAssumption PROVE IInv /\ [RequestNext]_requestVars => IInv'
<1> SUFFICES ASSUME IInv, [RequestNext]_requestVars
             PROVE  IInv'
  BY ZenonT(30)
<1>1. CASE UNCHANGED requestVars
  BY ZenonT(30), <1>1 DEF requestVars, IInv, RequestTypeOK, FenceInv, RunsInv, Live, ReplayMatches
<1> QED
  BY ZenonT(30), <1>1, FirstGetIInv, TryLockIInv, InspectIInv, SecondGetIInv, HandlerIInv, SetIInv,
     UnlockIInv, RetryIInv, CrashIInv, DeleteExpiredIInv, TickIInv DEF RequestNext, RequestStep

LEMMA Invariance == ASSUME IdempotencyAssumption PROVE RequestSpec => []IInv
<1>1. RequestInit => IInv
  BY ZenonT(30), InitIInv
<1>2. IInv /\ [RequestNext]_requestVars => IInv'
  BY ZenonT(30), NextIInv
<1> QED
  BY <1>1, <1>2, PTL DEF RequestSpec

\* Whatever store is in use and whatever calls fail, time out or come late: a handler
\* runs once per key and once more only for a lock its owner gave up or a slot that
\* expired, and nobody is replayed the response to another body.
THEOREM ReplaysHold == ASSUME IdempotencyAssumption PROVE RequestSpec => []ReplaysAreRight
<1>1. IInv => ReplaysAreRight
  <2> SUFFICES ASSUME IInv
               PROVE  runs <= 1 + releases + lapses
    BY ZenonT(30) DEF IInv, ReplaysAreRight, ExecutionsAreExplained
  <2>1. Cap \in Nat /\ runs \in 0 .. Cap /\ releases \in 0 .. Cap /\ lapses \in 0 .. Cap
    BY ZenonT(30) DEF IInv, RequestTypeOK, IdempotencyAssumption
  <2> QED
    BY <2>1 DEF IInv, RunsInv
<1> QED
  BY <1>1, Invariance, PTL

\* Set never replaces a cached response, TryLock and Unlock never remove one: until
\* it expires every replay is the same.
THEOREM CacheIsStable == ASSUME IdempotencyAssumption PROVE RequestSpec => CachedIsStable
<1>1. IInv /\ [RequestNext]_requestVars =>
        [slot.kind = "resp" /\ slot.ttl > 1 =>
           slot'.kind = "resp" /\ slot'.by = slot.by /\ slot'.ttl <= slot.ttl]_requestVars
  <2> SUFFICES ASSUME IInv, [RequestNext]_requestVars, slot.kind = "resp", slot.ttl > 1
               PROVE  slot'.kind = "resp" /\ slot'.by = slot.by /\ slot'.ttl <= slot.ttl
    BY ZenonT(30)
  <2>0. /\ RequestTypeOK /\ FenceInv /\ slot \in Slot /\ slot.ttl \in Nat /\ Live /\ ~Lockable
        /\ \A r \in Requests : ~Sets(r) /\ ~Unlocks(r)
    <3>1. RequestTypeOK /\ FenceInv /\ slot \in Slot /\ slot.ttl \in Nat
      BY DEF IInv, RequestTypeOK, Slot
    <3>2. Live
      BY <3>1 DEF Live
    <3>3. \A r \in Requests : ~Sets(r) /\ ~Unlocks(r)
      BY ZenonT(30), <3>1 DEF FenceInv, Sets, Unlocks
    <3> QED
      BY ZenonT(30), <3>1, <3>2, <3>3, LockableIsNotLive
  <2>1. CASE StoreTick
    <3>1. slot' = [slot EXCEPT !.ttl = slot.ttl - 1]
      BY <2>0, <2>1 DEF StoreTick
    <3> QED
      BY <2>0, <3>1 DEF Slot
  <2>2. CASE \E r \in Requests : RequestStep(r) \/ ServerCrash(r)
    <3>1. PICK r \in Requests : RequestStep(r) \/ ServerCrash(r)
      BY ZenonT(30), <2>2
    <3>2. UNCHANGED slot
      BY ZenonT(30), <2>0, <3>1 DEF RequestStep, ServerCrash, FirstGet, TryLock, Inspect, SecondGet, Handler, Set, Unlock,
                        Retry, MaybeDone
    <3> QED
      BY <2>0, <3>2
  <2>3. CASE UNCHANGED requestVars
    BY <2>0, <2>3 DEF requestVars
  <2> QED
    BY ZenonT(30), <2>0, <2>1, <2>2, <2>3 DEF RequestNext, DeleteExpired
<1> QED
  BY <1>1, Invariance, PTL DEF RequestSpec, CachedIsStable

-----------------------------------------------------------------------------
(* Types.                                                                  *)

\* The part of ElectorTypeOK that is about the server.
ServerOK ==
    /\ holder \in Replicas \cup {NoHolder, Ghost}
    /\ ttl \in 0..TTL /\ (ttl = 0 <=> holder = NoHolder)

LEMMA InitTypeOK == ElectorInit => ElectorTypeOK
<1>1. /\ TTL \in Nat /\ MaxElectorFaults \in Nat
  BY ZenonT(30), ElectorAssumption
<1> QED
  BY <1>1 DEF ElectorInit, ElectorTypeOK, Stages, InTerm

LEMMA NextTypeOK == ElectorTypeOK /\ [ElectorNext]_electorVars => ElectorTypeOK'
<1> SUFFICES ASSUME ElectorTypeOK, [ElectorNext]_electorVars
             PROVE  ElectorTypeOK'
  BY ZenonT(30)
<1> USE ElectorAssumption DEF ElectorTypeOK, ServerOK, Stages, InTerm
<1>1. ASSUME NEW p \in Replicas, Acquire(p) \/ Campaign(p)
      PROVE  ElectorTypeOK'
  <2>1. ServerOK'
    BY <1>1 DEF Acquire, Campaign, BeginTerm, SetHolder
  <2>2. BeginTerm(p)
    BY ZenonT(30), <1>1 DEF Acquire, Campaign
  <2> QED
    BY <2>1, <2>2 DEF BeginTerm, GoTo
<1>2. ASSUME NEW p \in Replicas, CtxDone(p) \/ SessionDone(p)
      PROVE  ElectorTypeOK'
  BY ZenonT(30), <1>2 DEF CtxDone, SessionDone, StepDown, GoTo, srv
<1>3. ASSUME NEW p \in Replicas, ReturnIdle(p) \/ BeginExtend(p)
      PROVE  ElectorTypeOK'
  BY <1>3 DEF ReturnIdle, BeginExtend, GoTo, srv, term
<1>4. ASSUME NEW p \in Replicas, CallbackDone(p) \/ Drained(p)
      PROVE  ElectorTypeOK'
  <2>1. CASE CallbackDone(p)
    BY ZenonT(30), <2>1 DEF CallbackDone, AfterHold, GoTo, srv
  <2>2. CASE Drained(p)
    BY ZenonT(30), <2>2 DEF Drained, AfterHold, GoTo, srv
  <2> QED
    BY ZenonT(30), <1>4, <2>1, <2>2
<1>5. ASSUME NEW p \in Replicas, ExtendOK(p) \/ KeepAlive(p)
      PROVE  ElectorTypeOK'
  BY <1>5 DEF ExtendOK, KeepAlive, SetHolder, GoTo
<1>6. ASSUME NEW p \in Replicas, ExtendFails(p)
      PROVE  ElectorTypeOK'
  <2>1. electorFaults' \in 0..MaxElectorFaults
    BY <1>6 DEF ExtendFails, ElectorFault
  <2>2. ServerOK'
    BY <1>6 DEF ExtendFails, SetHolder, srv
  <2> QED
    BY ZenonT(30), <1>6, <2>1, <2>2 DEF ExtendFails, StepDown, GoTo
<1>7. ASSUME NEW p \in Replicas, DrainTimeout(p)
      PROVE  ElectorTypeOK'
  BY ZenonT(30), <1>7 DEF DrainTimeout, AfterHold, GoTo, srv
<1>8. ASSUME NEW p \in Replicas, OnLost(p)
      PROVE  ElectorTypeOK'
  BY ZenonT(30), <1>8 DEF OnLost, AfterLost, GoTo, srv
<1>9. ASSUME NEW p \in Replicas, RedisRelease(p) \/ Resign(p)
      PROVE  ElectorTypeOK'
  <2>1. electorFaults' \in 0..MaxElectorFaults
    BY <1>9 DEF RedisRelease, Resign, ElectorFault
  <2>2. ServerOK'
    BY <1>9 DEF RedisRelease, Resign, SetHolder, srv
  <2> QED
    BY <1>9, <2>1, <2>2 DEF RedisRelease, Resign, GoTo, AfterTerm, term
<1>10. ASSUME NEW p \in Replicas, PgRelease(p) \/ CloseSession(p)
       PROVE  ElectorTypeOK'
  <2>1. ServerOK'
    <3>1. CASE PgRelease(p)
      BY <3>1 DEF PgRelease, SetHolder, srv
    <3>2. CASE CloseSession(p) /\ holder # p
      BY ZenonT(30), <3>2 DEF CloseSession, srv
    <3>3. CASE CloseSession(p) /\ holder = p /\ stop[p]
      BY <3>3 DEF CloseSession, SetHolder
    <3>4. CASE CloseSession(p) /\ holder = p /\ ~stop[p]
      BY <3>4 DEF CloseSession, SetHolder
    <3> QED
      BY ZenonT(30), <1>10, <3>1, <3>2, <3>3, <3>4
  <2>2. CASE PgRelease(p)
    BY ZenonT(30), <2>1, <2>2 DEF PgRelease, GoTo, AfterTerm, term
  <2>3. CASE CloseSession(p)
    BY ZenonT(30), <2>1, <2>3 DEF CloseSession, GoTo, AfterTerm, term
  <2> QED
    BY <1>10, <2>2, <2>3
<1>11. ASSUME NEW p \in Replicas, CallbackReturns(p)
       PROVE  ElectorTypeOK'
  BY ZenonT(30), <1>11 DEF CallbackReturns, srv
<1>12. ASSUME NEW p \in Replicas, ElectorCrash(p) \/ Replace(p)
       PROVE  ElectorTypeOK'
  <2>1. electorFaults' \in 0..MaxElectorFaults
    BY <1>12 DEF ElectorCrash, Replace, ElectorFault
  <2>2. ServerOK'
    <3>1. CASE holder # p
      BY ZenonT(30), <1>12, <3>1 DEF ElectorCrash, Replace, ReplicaEnds, srv
    <3>2. CASE holder = p /\ backend = "pg"
      BY <1>12, <3>2 DEF ElectorCrash, Replace, ReplicaEnds, SetHolder
    <3>3. CASE holder = p /\ backend # "pg"
      BY <1>12, <3>3 DEF ElectorCrash, Replace, ReplicaEnds, SetHolder
    <3> QED
      BY ZenonT(30), <3>1, <3>2, <3>3
  <2>3. ReplicaEnds(p)
    BY ZenonT(30), <1>12 DEF ElectorCrash, Replace
  <2>4. /\ stage' \in [Replicas -> Stages] /\ since' \in [Replicas -> 0..TTL]
        /\ cb' \in [Replicas -> {"none", "running", "done"}]
    BY <2>3 DEF ReplicaEnds, GoTo
  <2>5. /\ leader' \in [Replicas -> BOOLEAN] /\ ctxCancelled' \in [Replicas -> BOOLEAN]
        /\ lostOwed' \in [Replicas -> BOOLEAN] /\ timedOut' \in [Replicas -> BOOLEAN]
    BY ZenonT(30), <2>3 DEF ReplicaEnds
  <2>6. backend' \in Backends /\ stop' \in [Replicas -> BOOLEAN]
    BY ZenonT(30), <2>3 DEF ReplicaEnds
  <2> QED
    BY ZenonT(30), <2>1, <2>2, <2>4, <2>5, <2>6
<1>13. ASSUME NEW p \in Replicas, ElectorStart(p) \/ ElectorStop(p)
       PROVE  ElectorTypeOK'
  <2>1. CASE ElectorStart(p)
    BY ZenonT(30), <2>1 DEF ElectorStart, GoTo, srv, term
  <2>2. CASE ElectorStop(p)
    BY <2>2 DEF ElectorStop, ElectorFault, srv, term
  <2> QED
    BY <1>13, <2>1, <2>2
<1>14. ASSUME NEW p \in Replicas, AcquireError(p)
       PROVE  ElectorTypeOK'
  BY <1>14 DEF AcquireError, ElectorFault, SetHolder, srv, term
<1>15. CASE Lose
  BY <1>15 DEF Lose, ElectorFault, SetHolder, term
<1>16. CASE ElectorTick
  <2>1. since' \in [Replicas -> 0..TTL]
    BY <1>16 DEF ElectorTick
  <2>2. ServerOK'
    BY <1>16 DEF ElectorTick, SetHolder, srv
  <2> QED
    BY ZenonT(30), <1>16, <2>1, <2>2 DEF ElectorTick
<1>17. CASE UNCHANGED electorVars
  BY ZenonT(30), <1>17 DEF electorVars
<1> QED
  BY ZenonT(30), <1>1, <1>2, <1>3, <1>4, <1>5, <1>6, <1>7, <1>8, <1>9, <1>10, <1>11, <1>12, <1>13, <1>14,
     <1>15, <1>16, <1>17 DEF ElectorNext, ElectorStep, Env

\* Elector keeps the types of its variables: among others the key has a life
\* exactly while somebody holds it, and no renewal or expiry leaves 0..TTL.
THEOREM TypesHold == ElectorSpec => []ElectorTypeOK
<1>1. ElectorInit => ElectorTypeOK
  BY ZenonT(30), InitTypeOK
<1>2. ElectorTypeOK /\ [ElectorNext]_electorVars => ElectorTypeOK'
  BY ZenonT(30), NextTypeOK
<1> QED
  BY <1>1, <1>2, PTL DEF ElectorSpec

-----------------------------------------------------------------------------
(* The order of a term.                                                    *)

Holding == {"lead", "extend"}

\* What a place of Run says about the rest of the process: OnLost is owed in a
\* term, the flag is up while the lock is held, a callback with a live ctx belongs
\* to a held lock, and a drain that timed out ends the process.
TermOf(p) ==
    /\ lostOwed[p] <=> stage[p] \in InTerm
    /\ leader[p] <=> stage[p] \in Holding
    /\ cb[p] # "none" => stage[p] \in Holding \cup {"drain"} \/ timedOut[p]
    /\ cb[p] = "running" /\ ~ctxCancelled[p] => stage[p] \in Holding
    /\ timedOut[p] => stage[p] \in {"resign", "lost", "release", "close", "failed"}
    /\ timedOut[p] /\ backend = "redis" => stage[p] # "release"

TermInv == \A p \in Replicas : TermOf(p)

\* The variables of Run that TermOf speaks of.
Run(p) == <<stage[p], leader[p], cb[p], ctxCancelled[p], lostOwed[p], timedOut[p]>>

LEMMA OthersKeepTheirTerm ==
  ASSUME NEW p \in Replicas, TermInv, TermOf(p)', backend' = backend,
         \A q \in Replicas \ {p} : Run(q)' = Run(q)
  PROVE  TermInv'
<1> SUFFICES ASSUME NEW q \in Replicas, q # p
             PROVE  TermOf(q)'
  BY ZenonT(30) DEF TermInv
<1>1. /\ stage'[q] = stage[q] /\ leader'[q] = leader[q] /\ cb'[q] = cb[q]
      /\ ctxCancelled'[q] = ctxCancelled[q] /\ lostOwed'[q] = lostOwed[q] /\ timedOut'[q] = timedOut[q]
  BY ZenonT(30) DEF Run
<1>2. TermOf(q)
  BY ZenonT(30) DEF TermInv
<1> QED
  BY ZenonT(30), <1>1, <1>2 DEF TermOf

LEMMA InitTermInv == ElectorInit => TermInv
BY ZenonT(30) DEF ElectorInit, TermInv, TermOf, Holding, InTerm

LEMMA NextTermInv == ElectorTypeOK /\ TermInv /\ [ElectorNext]_electorVars => TermInv'
<1> SUFFICES ASSUME ElectorTypeOK, TermInv, [ElectorNext]_electorVars
             PROVE  TermInv'
  BY ZenonT(30)
<1> USE DEF ElectorTypeOK
<1>1. ASSUME NEW p \in Replicas, Acquire(p) \/ Campaign(p)
      PROVE  TermInv'
  <2>1. BeginTerm(p) /\ stage[p] = "acquire" /\ TermOf(p)
    BY ZenonT(30), <1>1 DEF Acquire, Campaign, TermInv
  <2>2. TermOf(p)'
    BY ZenonT(30), <2>1 DEF BeginTerm, GoTo, TermOf, Holding, InTerm
  <2>3. backend' = backend /\ \A q \in Replicas \ {p} : Run(q)' = Run(q)
    BY ZenonT(30), <2>1 DEF BeginTerm, GoTo, Run
  <2> QED
    BY ZenonT(30), <2>2, <2>3, OthersKeepTheirTerm
<1>2. ASSUME NEW p \in Replicas, CtxDone(p) \/ SessionDone(p) \/ ExtendFails(p)
      PROVE  TermInv'
  <2>1. StepDown(p) /\ stage[p] \in Holding /\ TermOf(p)
    BY ZenonT(30), <1>2 DEF CtxDone, SessionDone, ExtendFails, TermInv, Holding
  <2>2. TermOf(p)'
    BY ZenonT(30), <2>1 DEF StepDown, GoTo, TermOf, Holding, InTerm
  <2>3. backend' = backend /\ \A q \in Replicas \ {p} : Run(q)' = Run(q)
    BY ZenonT(30), <2>1 DEF StepDown, GoTo, Run
  <2> QED
    BY <2>2, <2>3, OthersKeepTheirTerm
<1>3. ASSUME NEW p \in Replicas,
             ReturnIdle(p) \/ BeginExtend(p) \/ ExtendOK(p)
               \/ RedisRelease(p) \/ PgRelease(p) \/ Resign(p) \/ CloseSession(p) \/ ElectorStart(p)
      PROVE  TermInv'
  <2>1. UNCHANGED <<backend, leader, cb, ctxCancelled, lostOwed, timedOut>>
    BY ZenonT(30), <1>3 DEF ReturnIdle, BeginExtend, ExtendOK, RedisRelease, PgRelease, Resign,
                CloseSession, ElectorStart, term
  <2>2. TermOf(p)
    BY ZenonT(30) DEF TermInv
  <2>3. TermOf(p)'
    <3>1. CASE ReturnIdle(p) \/ BeginExtend(p) \/ ExtendOK(p) \/ Resign(p) \/ ElectorStart(p)
      BY ZenonT(30), <2>1, <2>2, <3>1 DEF ReturnIdle, BeginExtend, ExtendOK, Resign, ElectorStart, GoTo, TermOf,
                              Holding, InTerm
    <3>2. CASE RedisRelease(p) \/ PgRelease(p) \/ CloseSession(p)
      BY ZenonT(30), <2>1, <2>2, <3>2 DEF RedisRelease, PgRelease, CloseSession, GoTo, AfterTerm, TermOf,
                              Holding, InTerm
    <3> QED
      BY ZenonT(30), <1>3, <3>1, <3>2
  <2>4. \A q \in Replicas \ {p} : stage'[q] = stage[q]
    BY ZenonT(30), <1>3 DEF ReturnIdle, BeginExtend, ExtendOK, RedisRelease, PgRelease, Resign,
                CloseSession, ElectorStart, GoTo
  <2> QED
    BY ZenonT(30), <2>1, <2>3, <2>4, OthersKeepTheirTerm DEF Run
<1>4. ASSUME NEW p \in Replicas, CallbackDone(p) \/ Drained(p) \/ DrainTimeout(p)
      PROVE  TermInv'
  <2>1. TermOf(p)
    BY DEF TermInv
  <2>2. TermOf(p)'
    BY ZenonT(30), <1>4, <2>1 DEF CallbackDone, Drained, DrainTimeout, AfterHold, GoTo, TermOf, Holding, InTerm
  <2>3. backend' = backend /\ \A q \in Replicas \ {p} : Run(q)' = Run(q)
    BY ZenonT(30), <1>4 DEF CallbackDone, Drained, DrainTimeout, GoTo, Run
  <2> QED
    BY <2>2, <2>3, OthersKeepTheirTerm
<1>5. ASSUME NEW p \in Replicas, OnLost(p)
      PROVE  TermInv'
  <2>1. TermOf(p)
    BY DEF TermInv
  <2>2. TermOf(p)'
    BY ZenonT(30), <1>5, <2>1 DEF OnLost, AfterLost, GoTo, TermOf, Holding, InTerm
  <2>3. backend' = backend /\ \A q \in Replicas \ {p} : Run(q)' = Run(q)
    BY ZenonT(30), <1>5 DEF OnLost, GoTo, Run
  <2> QED
    BY <2>2, <2>3, OthersKeepTheirTerm
<1>6. ASSUME NEW p \in Replicas, CallbackReturns(p)
      PROVE  TermInv'
  <2>1. TermOf(p)
    BY DEF TermInv
  <2>2. TermOf(p)'
    BY ZenonT(30), <1>6, <2>1 DEF CallbackReturns, TermOf, Holding, InTerm
  <2>3. backend' = backend /\ \A q \in Replicas \ {p} : Run(q)' = Run(q)
    BY ZenonT(30), <1>6 DEF CallbackReturns, Run
  <2> QED
    BY <2>2, <2>3, OthersKeepTheirTerm
<1>7. ASSUME NEW p \in Replicas, ElectorCrash(p) \/ Replace(p)
      PROVE  TermInv'
  <2>1. ReplicaEnds(p)
    BY ZenonT(30), <1>7 DEF ElectorCrash, Replace
  <2>2. TermOf(p)'
    BY ZenonT(30), <2>1 DEF ReplicaEnds, GoTo, TermOf, Holding, InTerm
  <2>3. backend' = backend /\ \A q \in Replicas \ {p} : Run(q)' = Run(q)
    BY ZenonT(30), <2>1 DEF ReplicaEnds, GoTo, Run
  <2> QED
    BY <2>2, <2>3, OthersKeepTheirTerm
<1>8. CASE \/ \E p \in Replicas : KeepAlive(p) \/ AcquireError(p) \/ ElectorStop(p)
           \/ Lose \/ ElectorTick \/ UNCHANGED electorVars
  <2>1. UNCHANGED <<backend, stage, leader, cb, ctxCancelled, lostOwed, timedOut>>
    BY ZenonT(30), <1>8 DEF KeepAlive, AcquireError, ElectorStop, Lose, ElectorTick, term, electorVars
  <2> QED
    BY ZenonT(30), <2>1 DEF TermInv, TermOf
<1> QED
  BY ZenonT(30), <1>1, <1>2, <1>3, <1>4, <1>5, <1>6, <1>7, <1>8 DEF ElectorNext, ElectorStep, Env

LEMMA TermInvariance == ElectorSpec => [](ElectorTypeOK /\ TermInv)
<1>1. ElectorInit => ElectorTypeOK /\ TermInv
  BY ZenonT(30), InitTypeOK, InitTermInv
<1>2. ElectorTypeOK /\ TermInv /\ [ElectorNext]_electorVars => ElectorTypeOK' /\ TermInv'
  BY ZenonT(30), NextTypeOK, NextTermInv
<1> QED
  BY <1>1, <1>2, PTL DEF ElectorSpec

\* leaderelection.Callbacks: whatever the timing and the faults, OnLost is owed
\* exactly while a term is on, runs only after OnAcquired has returned or its drain
\* timed out, and a process with a left-over OnAcquired starts no new term.
THEOREM CallbacksAreBalanced == ElectorSpec => []TermsAreBalanced
<1>1. ElectorTypeOK /\ TermInv => TermsAreBalanced
  BY ZenonT(30) DEF ElectorTypeOK, TermInv, TermOf, TermsAreBalanced, Holding, InTerm
<1> QED
  BY <1>1, TermInvariance, PTL

\* The steps that free the lock and move Run on are the last ones of a term, and
\* the end of the process.
LEMMA Handover ==
  ASSUME ElectorTypeOK, [ElectorNext]_electorVars, NEW p \in Replicas,
         holder = p, holder' = NoHolder, stage'[p] # stage[p]
  PROVE  \/ backend = "redis" /\ stage[p] = "release" /\ UNCHANGED term
         \/ backend = "pg" /\ stage[p] = "release" /\ UNCHANGED term
         \/ backend = "etcd" /\ stage[p] \in {"resign", "close"} /\ UNCHANGED term
         \/ ~lostOwed'[p] /\ cb'[p] = "none"
<1>0. p # NoHolder
  BY ZenonT(30), ElectorAssumption
<1>1. ASSUME NEW q \in Replicas, q # p, stage' = [stage EXCEPT ![q] = stage'[q]]
      PROVE  FALSE
  BY ZenonT(30), <1>1 DEF ElectorTypeOK
<1>2. ASSUME NEW q \in Replicas, ElectorStep(q)
      PROVE  stage' = [stage EXCEPT ![q] = stage'[q]]
  BY ZenonT(30), <1>2 DEF ElectorTypeOK, ElectorStep, Acquire, Campaign, BeginTerm, ReturnIdle, CtxDone, CallbackDone,
              BeginExtend, ExtendOK, ExtendFails, SessionDone, StepDown, Drained, DrainTimeout,
              OnLost, RedisRelease, PgRelease, Resign, CloseSession, GoTo
<1>3. CASE ElectorStep(p)
  <2>1. CASE \/ Acquire(p) \/ Campaign(p) \/ ReturnIdle(p) \/ CtxDone(p) \/ CallbackDone(p)
             \/ BeginExtend(p) \/ ExtendOK(p) \/ ExtendFails(p) \/ SessionDone(p)
             \/ Drained(p) \/ DrainTimeout(p) \/ OnLost(p)
    <3>1. holder' # NoHolder
      BY ZenonT(30), <1>0, <2>1 DEF Acquire, Campaign, BeginTerm, ReturnIdle, CtxDone, CallbackDone,
              BeginExtend, ExtendOK, ExtendFails, SessionDone, Drained, DrainTimeout, OnLost,
              SetHolder, srv
    <3> QED
      BY ZenonT(30), <3>1
  <2>2. CASE RedisRelease(p) \/ PgRelease(p) \/ Resign(p) \/ CloseSession(p)
    BY ZenonT(30), <2>2 DEF RedisRelease, PgRelease, Resign, CloseSession
  <2> QED
    BY ZenonT(30), <1>3, <2>1, <2>2 DEF ElectorStep
<1>4. ASSUME NEW q \in Replicas, ElectorStep(q), q # p
      PROVE  FALSE
  BY ZenonT(30), <1>1, <1>2, <1>4
<1>5. ASSUME NEW q \in Replicas, ElectorCrash(q) \/ Replace(q)
      PROVE  ~lostOwed'[p] /\ cb'[p] = "none"
  <2>1. ReplicaEnds(q)
    BY ZenonT(30), <1>5 DEF ElectorCrash, Replace
  <2>2. q = p
    BY ZenonT(30), <2>1 DEF ReplicaEnds, GoTo, ElectorTypeOK
  <2> QED
    BY ZenonT(30), <2>1, <2>2 DEF ReplicaEnds, ElectorTypeOK
<1>6. CASE \/ \E q \in Replicas : \/ KeepAlive(q) \/ CallbackReturns(q) \/ AcquireError(q)
                              \/ ElectorStop(q)
           \/ Lose \/ ElectorTick \/ UNCHANGED electorVars
  <2>1. UNCHANGED stage
    BY ZenonT(30), <1>6 DEF KeepAlive, CallbackReturns, AcquireError, ElectorStop, Lose, ElectorTick, electorVars
  <2> QED
    BY ZenonT(30), <2>1
<1>7. ASSUME NEW q \in Replicas, ElectorStart(q)
      PROVE  FALSE
  BY ZenonT(30), <1>0, <1>7 DEF ElectorStart, srv
<1> QED
  BY ZenonT(30), <1>3, <1>4, <1>5, <1>6, <1>7 DEF ElectorNext, Env

\* Callbacks' contract on the lock: Run gives it back only after OnLost (etcd
\* excepted), and under a running OnAcquired only after a drain timeout, which
\* makes redislock leave the key to its TTL.
THEOREM HandoverHolds == ElectorSpec => HandoverIsOrderly
<1>1. ElectorTypeOK /\ TermInv /\ [ElectorNext]_electorVars =>
        [\A p \in Replicas :
            holder = p /\ holder' = NoHolder /\ stage'[p] # stage[p] =>
                ~lostOwed'[p] \/ backend = "etcd"]_electorVars
  <2> SUFFICES ASSUME ElectorTypeOK, TermInv, [ElectorNext]_electorVars, NEW p \in Replicas,
                      holder = p, holder' = NoHolder, stage'[p] # stage[p], lostOwed'[p], backend # "etcd"
               PROVE  FALSE
    BY ZenonT(30)
  <2>1. stage[p] = "release" /\ lostOwed[p]
    BY ZenonT(30), Handover DEF term
  <2> QED
    BY ZenonT(30), <2>1 DEF TermInv, TermOf, InTerm
<1>2. ElectorTypeOK /\ TermInv /\ [ElectorNext]_electorVars =>
        [\A p \in Replicas :
            holder = p /\ holder' = NoHolder /\ stage'[p] # stage[p] /\ cb'[p] = "running" =>
                timedOut[p] /\ backend # "redis"]_electorVars
  <2> SUFFICES ASSUME ElectorTypeOK, TermInv, [ElectorNext]_electorVars, NEW p \in Replicas,
                      holder = p, holder' = NoHolder, stage'[p] # stage[p], cb'[p] = "running"
               PROVE  timedOut[p] /\ backend # "redis"
    BY ZenonT(30)
  <2>1. /\ stage[p] \in {"release", "resign", "close"} /\ cb[p] = "running"
        /\ backend = "redis" => stage[p] = "release"
    BY ZenonT(30), Handover DEF term
  <2> QED
    BY ZenonT(30), <2>1 DEF TermInv, TermOf, Holding
<1> QED
  BY <1>1, <1>2, TermInvariance, PTL
     DEF ElectorSpec, HandoverIsOrderly, OnLostBeforeRelease, NoHandoverWhileRunning

-----------------------------------------------------------------------------
(* One leader.                                                             *)

\* Renewals are on schedule, the key outlives an interval and the call that renews it
\* (extendOnce), and the server keeps what it granted.
LeaseIsKept == RenewsTimely /\ TTL > 2 * RenewTicks /\ "lost" \notin ElectorFaultKinds

\* Who holds the lock by its own account holds it by the server's, and the key has
\* at least the life it was given at the last renewal less the ticks since.
LeaseInv ==
    \A p \in Replicas : stage[p] \in Holding => holder = p /\ ttl + since[p] >= TTL

LEMMA InitLeaseInv == ElectorInit => LeaseInv
BY ZenonT(30) DEF ElectorInit, LeaseInv, Holding

\* A step that touches only what nobody holding the lock relies on.
LEMMA LeaseStays ==
  ASSUME LeaseInv,
         \A q \in Replicas : stage'[q] \in Holding =>
             stage[q] \in Holding /\ holder' = holder /\ ttl' = ttl /\ since'[q] = since[q]
  PROVE  LeaseInv'
BY ZenonT(30) DEF LeaseInv

LEMMA NextLeaseInv ==
  ASSUME LeaseIsKept
  PROVE  ElectorTypeOK /\ TermInv /\ LeaseInv /\ [ElectorNext]_electorVars => LeaseInv'
<1> SUFFICES ASSUME ElectorTypeOK, TermInv, LeaseInv, [ElectorNext]_electorVars
             PROVE  LeaseInv'
  BY ZenonT(30)
<1>0. /\ NoHolder \notin Replicas
      /\ RenewTicks \in Nat /\ TTL \in Nat /\ TTL > 2 * RenewTicks
  BY ZenonT(30), ElectorAssumption DEF LeaseIsKept
<1>1. ASSUME NEW p \in Replicas, Acquire(p) \/ Campaign(p)
      PROVE  LeaseInv'
  <2>1. \A q \in Replicas : stage[q] \notin Holding
    BY ZenonT(30), <1>0, <1>1 DEF Acquire, Campaign, LeaseInv
  <2>2. BeginTerm(p)
    BY ZenonT(30), <1>1 DEF Acquire, Campaign
  <2> QED
    BY <1>0, <2>1, <2>2 DEF BeginTerm, SetHolder, GoTo, LeaseInv, ElectorTypeOK
<1>2. ASSUME NEW p \in Replicas, ExtendOK(p) \/ KeepAlive(p)
      PROVE  LeaseInv'
  <2>1. holder = p /\ holder' = p /\ ttl' = TTL /\ since'[p] = 0
    BY ZenonT(30), <1>2 DEF ExtendOK, KeepAlive, SetHolder, ElectorTypeOK
  <2>2. \A q \in Replicas \ {p} : stage'[q] = stage[q]
    BY ZenonT(30), <1>2 DEF ExtendOK, KeepAlive, GoTo, ElectorTypeOK
  <2>3. \A q \in Replicas \ {p} : stage[q] \notin Holding
    BY ZenonT(30), <2>1 DEF LeaseInv
  <2> QED
    BY <1>0, <2>1, <2>2, <2>3 DEF LeaseInv
<1>3. ASSUME NEW p \in Replicas, stage'[p] \notin Holding, UNCHANGED since,
             \A q \in Replicas \ {p} : stage'[q] = stage[q],
             holder = p \/ holder = NoHolder \/ UNCHANGED srv
      PROVE  LeaseInv'
  <2>1. \A q \in Replicas \ {p} : stage[q] \in Holding => UNCHANGED srv
    BY ZenonT(30), <1>0, <1>3 DEF LeaseInv
  <2> QED
    BY ZenonT(30), <1>3, <2>1, LeaseStays DEF srv
<1>4. ASSUME NEW p \in Replicas, CtxDone(p) \/ SessionDone(p) \/ ExtendFails(p)
      PROVE  LeaseInv'
  <2>1. StepDown(p) /\ (holder = p \/ UNCHANGED srv)
    BY ZenonT(30), <1>4 DEF CtxDone, SessionDone, ExtendFails
  <2> QED
    BY ZenonT(30), <1>3, <2>1 DEF StepDown, GoTo, ElectorTypeOK, Holding
<1>5. ASSUME NEW p \in Replicas,
             ReturnIdle(p) \/ CallbackDone(p) \/ Drained(p) \/ DrainTimeout(p) \/ OnLost(p)
      PROVE  LeaseInv'
  <2>1. UNCHANGED <<since, srv>>
    BY ZenonT(30), <1>5 DEF ReturnIdle, CallbackDone, Drained, DrainTimeout, OnLost, term
  <2>2. stage'[p] \notin Holding /\ \A q \in Replicas \ {p} : stage'[q] = stage[q]
    BY ZenonT(30), <1>5 DEF ReturnIdle, CallbackDone, Drained, DrainTimeout, OnLost, AfterHold, AfterLost,
                GoTo, ElectorTypeOK, Holding
  <2> QED
    BY ZenonT(30), <1>3, <2>1, <2>2
<1>6. ASSUME NEW p \in Replicas, RedisRelease(p) \/ PgRelease(p) \/ Resign(p) \/ CloseSession(p)
      PROVE  LeaseInv'
  <2>1. UNCHANGED since
    BY ZenonT(30), <1>6 DEF RedisRelease, PgRelease, Resign, CloseSession, term
  <2>2. holder = p \/ UNCHANGED srv
    BY ZenonT(30), <1>6 DEF RedisRelease, PgRelease, Resign, CloseSession
  <2>3. stage'[p] \notin Holding /\ \A q \in Replicas \ {p} : stage'[q] = stage[q]
    BY ZenonT(30), <1>6 DEF RedisRelease, PgRelease, Resign, CloseSession, AfterTerm, GoTo, ElectorTypeOK, Holding
  <2> QED
    BY ZenonT(30), <1>3, <2>1, <2>2, <2>3
<1>7. ASSUME NEW p \in Replicas, ElectorCrash(p) \/ Replace(p)
      PROVE  LeaseInv'
  <2>1. ReplicaEnds(p)
    BY ZenonT(30), <1>7 DEF ElectorCrash, Replace
  <2>2. holder = p \/ UNCHANGED srv
    BY ZenonT(30), <2>1 DEF ReplicaEnds
  <2>3. /\ stage'[p] \notin Holding
        /\ \A q \in Replicas \ {p} : stage'[q] = stage[q] /\ since'[q] = since[q]
    BY ZenonT(30), <2>1 DEF ReplicaEnds, GoTo, ElectorTypeOK, Holding
  <2>4. \A q \in Replicas \ {p} : stage[q] \in Holding => UNCHANGED srv
    BY ZenonT(30), <2>2 DEF LeaseInv
  <2> QED
    BY ZenonT(30), <2>3, <2>4, LeaseStays DEF srv
<1>8. ASSUME NEW p \in Replicas, BeginExtend(p) \/ ElectorStart(p) \/ ElectorStop(p) \/ CallbackReturns(p)
      PROVE  LeaseInv'
  <2>1. UNCHANGED <<since, holder, ttl>>
    BY ZenonT(30), <1>8 DEF BeginExtend, ElectorStart, ElectorStop, CallbackReturns, term, srv
  <2>2. \A q \in Replicas : stage'[q] \in Holding => stage[q] \in Holding
    BY ZenonT(30), <1>8 DEF BeginExtend, ElectorStart, ElectorStop, CallbackReturns, GoTo, ElectorTypeOK, Holding
  <2> QED
    BY ZenonT(30), <2>1, <2>2, LeaseStays
<1>9. ASSUME NEW p \in Replicas, AcquireError(p)
      PROVE  LeaseInv'
  <2>1. UNCHANGED <<since, stage>> /\ (holder = NoHolder \/ UNCHANGED srv)
    BY ZenonT(30), <1>9 DEF AcquireError, term
  <2>2. \A q \in Replicas : stage[q] \in Holding => UNCHANGED srv
    BY ZenonT(30), <1>0, <2>1 DEF LeaseInv
  <2> QED
    BY ZenonT(30), <2>1, <2>2, LeaseStays DEF srv
<1>10. CASE ElectorTick
  <2> SUFFICES ASSUME NEW p \in Replicas, stage[p] \in Holding
               PROVE  holder' = p /\ ttl' + since'[p] >= TTL
    BY ZenonT(30), <1>10 DEF ElectorTick, LeaseInv
  <2>1. leader[p]
    BY ZenonT(30) DEF TermInv, TermOf
  <2>2. holder = p /\ ttl + since[p] >= TTL
    BY ZenonT(30) DEF LeaseInv
  <2>3. since[p] \in Nat /\ ttl \in Nat
    BY SMTT(30) DEF ElectorTypeOK
  <2>4. since[p] < 2 * RenewTicks
    <3>1. since[p] < (IF stage[p] = "extend" THEN 2 * RenewTicks ELSE RenewTicks)
      BY ZenonT(30), <1>0, <1>10, <2>1 DEF ElectorTick, LeaseIsKept, OnSchedule, Leads
    <3> QED
      BY <1>0, <2>3, <3>1
  <2>5. since'[p] = since[p] + 1
    <3>1. since'[p] = IF leader[p] /\ since[p] < TTL THEN since[p] + 1 ELSE since[p]
      BY ZenonT(30), <1>10 DEF ElectorTick
    <3> QED
      BY <1>0, <2>1, <2>3, <2>4, <3>1
  <2>6. ttl >= 2
    BY <1>0, <2>2, <2>3, <2>4
  <2>7. holder' = p /\ (ttl' = ttl - 1 \/ ttl' = ttl)
    <3>1. \/ holder' = holder /\ ttl' = ttl
          \/ holder' = (IF ttl = 1 THEN NoHolder ELSE holder) /\ ttl' = ttl - 1
      BY ZenonT(30), <1>10 DEF ElectorTick, SetHolder, srv
    <3> QED
      BY <2>2, <2>3, <2>6, <3>1
  <2> QED
    BY SMTT(30), <1>0, <2>2, <2>3, <2>5, <2>7
<1>11. CASE Lose
  BY ZenonT(30), <1>11 DEF Lose, ElectorFault, LeaseIsKept
<1>12. CASE UNCHANGED electorVars
  BY ZenonT(30), <1>12, LeaseStays DEF electorVars
<1> QED
  BY ZenonT(30), <1>1, <1>2, <1>4, <1>5, <1>6, <1>7, <1>8, <1>9, <1>10, <1>11, <1>12 DEF ElectorNext, ElectorStep, Env

\* As long as renewals are on schedule and the server drops no lock, failed
\* renewals, crashes, cancellations and lost answers never leave two replicas with
\* IsLeader true or a live leader ctx: the key outlives two renewal intervals, so
\* none expires under a leader.
THEOREM LeadershipIsExclusive ==
  ASSUME LeaseIsKept
  PROVE  ElectorSpec => []ExclusiveLeadership
<1>1. ElectorInit => LeaseInv
  BY ZenonT(30), InitLeaseInv
<1>2. ElectorTypeOK /\ TermInv /\ LeaseInv /\ [ElectorNext]_electorVars => LeaseInv'
  BY ZenonT(30), NextLeaseInv
<1>3. ElectorTypeOK /\ TermInv /\ LeaseInv => ExclusiveLeadership
  <2> SUFFICES ASSUME ElectorTypeOK, TermInv, LeaseInv
               PROVE  \A p \in Replicas : Leads(p) => holder = p
    BY ZenonT(30) DEF ExclusiveLeadership
  <2>1. \A p \in Replicas : Leads(p) => stage[p] \in Holding
    BY ZenonT(30) DEF TermInv, TermOf, Leads, LiveCtx
  <2> QED
    BY ZenonT(30), <2>1 DEF LeaseInv
<1> QED
  BY <1>1, <1>2, <1>3, TermInvariance, PTL DEF ElectorSpec

-----------------------------------------------------------------------------
(***************************************************************************)
(* What the term coordinator of k8slease guarantees however Run's          *)
(* goroutine, the goroutines of all its terms and the caller interleave.   *)
(***************************************************************************)

\* A goroutine in, or about to be in, OnAcquired has claimed its term, and one that has
\* sent on cbDone is gone.
Coordinated(t) ==
    /\ g[t] \in {"claimed", "running"} => tm[t].acquired
    /\ cbDone[t] = "full" => g[t] = "none"

\* A term whose Run is over: what is left of its goroutine finds it stopped.
Over(t) ==
    /\ g[t] # "none" => tm[t].stopped
    /\ tm[t].acquired <=> lost[t] = 1

\* The term of the current Run, by where that Run is.  After the drain nothing is left
\* of a claimed term's goroutine, unless the drain timed out.
Current ==
    /\ run = "idle" => Over(cur)
    /\ run = "acquiring" => tm[cur] = NewTerm /\ g[cur] = "none" /\ cbDone[cur] = "empty"
    /\ run \in {"acquiring", "renewing", "stopping"} => ~tm[cur].stopped
    /\ run \in {"clear", "drain", "drained", "onlost", "settle"} => tm[cur].stopped
    /\ run \notin {"idle", "settle"} => lost[cur] = 0
    /\ run \in {"drain", "drained", "onlost"} => tm[cur].acquired
    /\ run = "settle" => (tm[cur].acquired <=> lost[cur] = 1)
    /\ run \in {"drained", "onlost", "settle", "idle"} /\ tm[cur].acquired => g[cur] = "none" \/ orphaned

\* The flag is up only for a claimed term whose Run has not yet cleared it for good.
FlagInv ==
    leaseLeader /\ ~orphaned => run \notin {"idle", "onlost", "settle"} /\ tm[cur].acquired

CoordinatorInv ==
    /\ LeaseTypeOK
    /\ \A t \in Slots : Coordinated(t)
    /\ \A t \in Slots \ {cur} : Over(t) /\ (tm[t].acquired => g[t] = "none")
    /\ Current
    /\ FlagInv

-------------------------------------------------------------------------------
(* A step concerns one term.                                               *)

Terms == [launched: BOOLEAN, acquired: BOOLEAN, stopped: BOOLEAN]

Only(t) ==
    \A s \in Slots \ {t} : g'[s] = g[s] /\ tm'[s] = tm[s] /\ cbDone'[s] = cbDone[s] /\ lost'[s] = lost[s]

LEMMA CurrentTerm ==
  ASSUME CoordinatorInv, UNCHANGED cur, Only(cur), LeaseTypeOK', Coordinated(cur)', Current', FlagInv'
  PROVE  CoordinatorInv'
<1>1. \A t \in Slots : Coordinated(t)'
  <2> SUFFICES ASSUME NEW t \in Slots, t # cur
               PROVE  Coordinated(t)'
    BY ZenonT(30)
  <2> QED
    BY ZenonT(30) DEF CoordinatorInv, Only, Coordinated
<1>2. \A t \in Slots \ {cur'} : Over(t)' /\ (tm'[t].acquired => g'[t] = "none")
  BY ZenonT(30) DEF CoordinatorInv, Only, Over
<1> QED
  BY ZenonT(30), <1>1, <1>2 DEF CoordinatorInv

LEMMA OlderTerm ==
  ASSUME CoordinatorInv, NEW t \in Slots, t # cur, UNCHANGED <<run, cur, leaseLeader, orphaned>>, Only(t), LeaseTypeOK',
         Coordinated(t)', Over(t)', tm'[t].acquired => g'[t] = "none"
  PROVE  CoordinatorInv'
<1>1. \A s \in Slots : Coordinated(s)'
  BY ZenonT(30) DEF CoordinatorInv, Only, Coordinated
<1>2. \A s \in Slots \ {cur'} : Over(s)' /\ (tm'[s].acquired => g'[s] = "none")
  BY ZenonT(30) DEF CoordinatorInv, Only, Over
<1>3. cur \in Slots \ {t}
  BY ZenonT(30) DEF CoordinatorInv, LeaseTypeOK
<1>4. g'[cur] = g[cur] /\ tm'[cur] = tm[cur] /\ cbDone'[cur] = cbDone[cur] /\ lost'[cur] = lost[cur]
  BY ZenonT(30), <1>3 DEF Only
<1>5. Current'
  BY ZenonT(30), <1>4 DEF CoordinatorInv, Current, Over
<1>6. FlagInv'
  BY ZenonT(30), <1>4 DEF CoordinatorInv, FlagInv
<1> QED
  BY ZenonT(30), <1>1, <1>2, <1>5, <1>6 DEF CoordinatorInv

\* The flags of a term, one at a time.
LEMMA FlagSet ==
  ASSUME NEW t \in Slots, NEW m \in Terms, tm \in [Slots -> Terms], tm' = [tm EXCEPT ![t] = m]
  PROVE  tm' \in [Slots -> Terms] /\ tm'[t] = m /\ \A s \in Slots \ {t} : tm'[s] = tm[s]
BY ZenonT(30)

-------------------------------------------------------------------------------
(* Run's goroutine.                                                        *)

LEMMA StepRun ==
  ASSUME CoordinatorInv, NEW t \in Slots, LeaseRun(t)
  PROVE  CoordinatorInv'
<1>1. /\ run = "idle" /\ ~orphaned /\ g[t] = "none" /\ run' = "acquiring" /\ cur' = t
      /\ UNCHANGED <<leaseLeader, g, orphaned>> /\ ~leaseLeader
  BY ZenonT(30) DEF LeaseRun, process, CoordinatorInv, FlagInv
<1>2. NewTerm \in Terms /\ tm \in [Slots -> Terms] /\ ~NewTerm.stopped
  BY ZenonT(30) DEF NewTerm, CoordinatorInv, LeaseTypeOK, Terms
<1>3. /\ tm' \in [Slots -> Terms] /\ tm'[t] = NewTerm
      /\ \A s \in Slots \ {t} : tm'[s] = tm[s]
  BY ZenonT(30), <1>2, FlagSet DEF LeaseRun
<1>4. /\ cbDone'[t] = "empty" /\ lost'[t] = 0
      /\ \A s \in Slots \ {t} : cbDone'[s] = cbDone[s] /\ lost'[s] = lost[s]
  BY ZenonT(30) DEF LeaseRun, CoordinatorInv, LeaseTypeOK
<1>5. LeaseTypeOK'
  BY <1>1, <1>3 DEF LeaseRun, CoordinatorInv, LeaseTypeOK, Terms, RunPCs, process
<1>6. \A s \in Slots : Coordinated(s)'
  BY ZenonT(30), <1>1, <1>3, <1>4 DEF CoordinatorInv, Coordinated
<1>7. \A s \in Slots \ {t} : Over(s) /\ (tm[s].acquired => g[s] = "none")
  BY ZenonT(30), <1>1 DEF CoordinatorInv, Current
<1>8. \A s \in Slots \ {cur'} : Over(s)' /\ (tm'[s].acquired => g'[s] = "none")
  BY ZenonT(30), <1>1, <1>3, <1>4, <1>7 DEF Over
<1>9. Current'
  BY ZenonT(30), <1>1, <1>2, <1>3, <1>4 DEF Current
<1> QED
  BY ZenonT(30), <1>1, <1>5, <1>6, <1>8, <1>9 DEF CoordinatorInv, FlagInv

LEMMA StepAcquire ==
  ASSUME CoordinatorInv, LeaseAcquired \/ AcquireGivesUp \/ RenewEnds
  PROVE  CoordinatorInv'
<1>1. UNCHANGED <<cur, leaseLeader, orphaned, tm, cbDone, lost>> /\ cur \in Slots
  BY ZenonT(30) DEF LeaseAcquired, AcquireGivesUp, RenewEnds, process, goroutine, CoordinatorInv, LeaseTypeOK
<1>2. CASE LeaseAcquired
  <2>1. g'[cur] = "spawned" /\ \A s \in Slots \ {cur} : g'[s] = g[s]
    BY ZenonT(30), <1>1, <1>2 DEF LeaseAcquired, CoordinatorInv, LeaseTypeOK
  <2>2. LeaseTypeOK'
    BY ZenonT(30), <1>2 DEF LeaseAcquired, process, CoordinatorInv, LeaseTypeOK, RunPCs, GPCs
  <2>3. run = "acquiring" /\ run' = "renewing" /\ Only(cur)
    BY ZenonT(30), <1>1, <1>2, <2>1 DEF LeaseAcquired, Only
  <2>4. Coordinated(cur)'
    BY ZenonT(30), <1>1, <2>1, <2>3 DEF CoordinatorInv, Current, Coordinated
  <2>5. Current' /\ FlagInv'
    BY ZenonT(30), <1>1, <2>3 DEF CoordinatorInv, Current, FlagInv
  <2> QED
    BY ZenonT(30), <1>1, <2>2, <2>3, <2>4, <2>5, CurrentTerm
<1>3. CASE AcquireGivesUp \/ RenewEnds
  <2>1. run \in {"acquiring", "renewing"} /\ run' = "stopping" /\ UNCHANGED g
    BY ZenonT(30), <1>3 DEF AcquireGivesUp, RenewEnds, goroutine
  <2>2. LeaseTypeOK'
    BY ZenonT(30), <1>3 DEF AcquireGivesUp, RenewEnds, goroutine, process, CoordinatorInv, LeaseTypeOK, RunPCs
  <2>3. Only(cur) /\ Coordinated(cur)'
    BY ZenonT(30), <1>1, <2>1 DEF Only, CoordinatorInv, Coordinated
  <2>4. Current' /\ FlagInv'
    BY ZenonT(30), <1>1, <2>1 DEF CoordinatorInv, Current, FlagInv
  <2> QED
    BY ZenonT(30), <1>1, <2>2, <2>3, <2>4, CurrentTerm
<1> QED
  BY ZenonT(30), <1>2, <1>3

LEMMA StepStop ==
  ASSUME CoordinatorInv, StopTerm
  PROVE  CoordinatorInv'
<1> DEFINE m == [tm[cur] EXCEPT !.stopped = TRUE]
<1>1. /\ run = "stopping" /\ run' = "clear" /\ cur \in Slots
      /\ UNCHANGED <<cur, leaseLeader, orphaned, g, cbDone, lost>>
  BY ZenonT(30) DEF StopTerm, process, CoordinatorInv, LeaseTypeOK
<1>2. tm[cur] \in Terms /\ tm \in [Slots -> Terms]
  BY ZenonT(30), <1>1 DEF CoordinatorInv, LeaseTypeOK, Terms
<1>3. m \in Terms /\ m.stopped /\ m.acquired = tm[cur].acquired
  BY ZenonT(30), <1>2 DEF Terms
<1> HIDE DEF m
<1>4. tm' \in [Slots -> Terms] /\ tm'[cur] = m /\ \A s \in Slots \ {cur} : tm'[s] = tm[s]
  BY ZenonT(30), <1>1, <1>2, <1>3, FlagSet DEF StopTerm, m
<1>5. LeaseTypeOK'
  BY ZenonT(30), <1>4 DEF StopTerm, process, CoordinatorInv, LeaseTypeOK, RunPCs, Terms
<1>6. Only(cur) /\ Coordinated(cur)'
  BY ZenonT(30), <1>1, <1>3, <1>4 DEF Only, CoordinatorInv, Coordinated
<1>7. Current' /\ FlagInv'
  BY ZenonT(30), <1>1, <1>3, <1>4 DEF CoordinatorInv, Current, FlagInv
<1> QED
  BY ZenonT(30), <1>1, <1>5, <1>6, <1>7, CurrentTerm

LEMMA StepClear ==
  ASSUME CoordinatorInv, ClearLeader \/ ClearAgain
  PROVE  CoordinatorInv'
<1>1. UNCHANGED <<cur, orphaned, g, tm, cbDone, lost>> /\ leaseLeader' = FALSE /\ cur \in Slots
  BY ZenonT(30) DEF ClearLeader, ClearAgain, process, goroutine, CoordinatorInv, LeaseTypeOK
<1>2. Only(cur) /\ Coordinated(cur)'
  BY ZenonT(30), <1>1 DEF Only, CoordinatorInv, Coordinated
<1>3. LeaseTypeOK'
  BY ZenonT(30) DEF ClearLeader, ClearAgain, process, goroutine, CoordinatorInv, LeaseTypeOK, RunPCs
<1>4. CASE ClearLeader
  <2>1. CASE tm[cur].acquired
    <3>1. run = "clear" /\ run' = "drain"
      BY ZenonT(30), <1>4, <2>1 DEF ClearLeader
    <3> QED
      BY ZenonT(30), <1>1, <1>2, <1>3, <2>1, <3>1, CurrentTerm DEF CoordinatorInv, Current, FlagInv
  <2>2. CASE ~tm[cur].acquired
    <3>1. run = "clear" /\ run' = "settle"
      BY ZenonT(30), <1>4, <2>2 DEF ClearLeader
    <3>2. lost[cur] = 0
      BY Zenon, <3>1 DEF CoordinatorInv, Current
    <3>3. lost'[cur'] # 1
      BY <1>1, <3>2
    <3> QED
      BY ZenonT(30), <1>1, <1>2, <1>3, <2>2, <3>1, <3>3, CurrentTerm DEF CoordinatorInv, Current, FlagInv
  <2> QED
    BY ZenonT(30), <2>1, <2>2
<1>5. CASE ClearAgain
  <2>1. run = "drained" /\ run' = "onlost"
    BY ZenonT(30), <1>5 DEF ClearAgain
  <2> QED
    BY ZenonT(30), <1>1, <1>2, <1>3, <2>1, CurrentTerm DEF CoordinatorInv, Current, FlagInv
<1> QED
  BY ZenonT(30), <1>4, <1>5

LEMMA StepDrain ==
  ASSUME CoordinatorInv, LeaseDrained \/ LeaseDrainTimeout
  PROVE  CoordinatorInv'
<1>1. /\ UNCHANGED <<cur, leaseLeader, g, tm, lost>> /\ cur \in Slots
      /\ run = "drain" /\ run' = "drained"
  BY ZenonT(30) DEF LeaseDrained, LeaseDrainTimeout, process, goroutine, CoordinatorInv, LeaseTypeOK
<1>2. LeaseTypeOK'
  BY ZenonT(30) DEF LeaseDrained, LeaseDrainTimeout, process, goroutine, CoordinatorInv, LeaseTypeOK, RunPCs
<1>3. CASE LeaseDrained
  <2>1. /\ cbDone[cur] = "full" /\ cbDone'[cur] = "empty" /\ UNCHANGED orphaned
        /\ \A s \in Slots \ {cur} : cbDone'[s] = cbDone[s]
    BY ZenonT(30), <1>1, <1>3 DEF LeaseDrained, process, CoordinatorInv, LeaseTypeOK
  <2>2. g[cur] = "none"
    BY ZenonT(30), <1>1, <2>1 DEF CoordinatorInv, Coordinated
  <2>3. Only(cur) /\ Coordinated(cur)'
    BY ZenonT(30), <1>1, <2>1, <2>2 DEF Only, Coordinated
  <2>4. Current' /\ FlagInv'
    BY ZenonT(30), <1>1, <2>1, <2>2 DEF CoordinatorInv, Current, FlagInv
  <2> QED
    BY ZenonT(30), <1>1, <1>2, <2>3, <2>4, CurrentTerm
<1>4. CASE LeaseDrainTimeout
  <2>1. orphaned' = TRUE /\ UNCHANGED cbDone
    BY ZenonT(30), <1>4 DEF LeaseDrainTimeout, goroutine
  <2>2. Only(cur) /\ Coordinated(cur)'
    BY ZenonT(30), <1>1, <2>1 DEF Only, CoordinatorInv, Coordinated
  <2>3. Current' /\ FlagInv'
    BY ZenonT(30), <1>1, <2>1 DEF CoordinatorInv, Current, FlagInv
  <2> QED
    BY <1>1, <1>2, <2>2, <2>3, CurrentTerm
<1> QED
  BY <1>3, <1>4

LEMMA StepOnLost ==
  ASSUME CoordinatorInv, LeaseOnLost
  PROVE  CoordinatorInv'
<1>1. /\ UNCHANGED <<cur, leaseLeader, orphaned, g, tm, cbDone>> /\ cur \in Slots
      /\ run = "onlost" /\ run' = "settle" /\ lost[cur] = 0
  BY ZenonT(30) DEF LeaseOnLost, process, CoordinatorInv, LeaseTypeOK, Current
<1>2. lost'[cur] = 1 /\ \A s \in Slots \ {cur} : lost'[s] = lost[s]
  BY <1>1 DEF LeaseOnLost, CoordinatorInv, LeaseTypeOK
<1>3. LeaseTypeOK'
  BY <1>1 DEF LeaseOnLost, process, CoordinatorInv, LeaseTypeOK, RunPCs
<1>4. Only(cur) /\ Coordinated(cur)'
  BY ZenonT(30), <1>1, <1>2 DEF Only, CoordinatorInv, Coordinated
<1>5. Current' /\ FlagInv'
  BY ZenonT(30), <1>1, <1>2 DEF CoordinatorInv, Current, FlagInv
<1> QED
  BY ZenonT(30), <1>1, <1>3, <1>4, <1>5, CurrentTerm

LEMMA StepSettle ==
  ASSUME CoordinatorInv, SettleStarted
  PROVE  CoordinatorInv'
<1>1. /\ UNCHANGED <<cur, leaseLeader, orphaned, g, tm, lost>> /\ cur \in Slots
      /\ run = "settle" /\ run' = "idle"
  BY ZenonT(30) DEF SettleStarted, process, CoordinatorInv, LeaseTypeOK
<1>2. LeaseTypeOK' /\ (cbDone'[cur] = cbDone[cur] \/ cbDone'[cur] = "empty")
      /\ \A s \in Slots \ {cur} : cbDone'[s] = cbDone[s]
  BY ZenonT(30), <1>1 DEF SettleStarted, process, CoordinatorInv, LeaseTypeOK, RunPCs
<1>3. Only(cur) /\ Coordinated(cur)'
  BY ZenonT(30), <1>1, <1>2 DEF Only, CoordinatorInv, Coordinated
<1>4. Current' /\ FlagInv'
  BY ZenonT(30), <1>1 DEF CoordinatorInv, Current, Over, FlagInv
<1> QED
  BY ZenonT(30), <1>1, <1>2, <1>3, <1>4, CurrentTerm

-------------------------------------------------------------------------------
(* The goroutine of a term.                                                *)

\* A goroutine step that claims nothing keeps the invariant: of a term whose Run is
\* over, only such steps are possible.
LEMMA StepAside ==
  ASSUME CoordinatorInv, NEW t \in Slots, Goroutine(t), UNCHANGED leaseLeader, LeaseTypeOK', Only(t),
         g[t] # "none", tm'[t].acquired = tm[t].acquired, tm'[t].stopped = tm[t].stopped,
         Coordinated(t)'
  PROVE  CoordinatorInv'
<1>1. UNCHANGED <<run, cur, orphaned, lost>>
  BY ZenonT(30) DEF Goroutine, process
<1>2. CASE t # cur
  <2>1. Over(t)'
    BY ZenonT(30), <1>1, <1>2 DEF CoordinatorInv, Over
  <2>2. ~tm'[t].acquired
    BY ZenonT(30), <1>2 DEF CoordinatorInv
  <2> QED
    BY ZenonT(30), <1>1, <1>2, <2>1, <2>2, OlderTerm
<1>3. CASE t = cur
  <2>1. run # "acquiring"
    BY ZenonT(30), <1>3 DEF CoordinatorInv, Current
  <2>2. Current'
    BY ZenonT(30), <1>1, <1>3, <2>1 DEF CoordinatorInv, Current, Over
  <2>3. FlagInv'
    BY ZenonT(30), <1>1, <1>3 DEF CoordinatorInv, FlagInv
  <2> QED
    BY ZenonT(30), <1>1, <1>3, <2>2, <2>3, CurrentTerm
<1> QED
  BY ZenonT(30), <1>2, <1>3

LEMMA StepCheck ==
  ASSUME CoordinatorInv, NEW t \in Slots, CheckCtx(t) \/ OnAcquiredReturns(t) \/ SendDone(t)
  PROVE  CoordinatorInv'
<1>1. Goroutine(t) /\ UNCHANGED <<leaseLeader, tm>> /\ g[t] # "none"
  BY ZenonT(30) DEF CheckCtx, OnAcquiredReturns, SendDone
<1>2. /\ g'[t] \in {"skip", "checked", "exit", "none"}
      /\ \A s \in Slots \ {t} : g'[s] = g[s] /\ cbDone'[s] = cbDone[s]
      /\ cbDone'[t] = cbDone[t] \/ g'[t] = "none"
  BY ZenonT(30) DEF CheckCtx, OnAcquiredReturns, SendDone, GTo, CoordinatorInv, LeaseTypeOK
<1>3. g' \in [Slots -> GPCs] /\ cbDone' \in [Slots -> {"empty", "full"}]
  BY ZenonT(30) DEF CheckCtx, OnAcquiredReturns, SendDone, GTo, CoordinatorInv, LeaseTypeOK, GPCs
<1>4. LeaseTypeOK'
  BY ZenonT(30), <1>1, <1>3 DEF Goroutine, process, CoordinatorInv, LeaseTypeOK
<1>5. Only(t)
  BY ZenonT(30), <1>1, <1>2 DEF Only, Goroutine
<1>6. Coordinated(t)'
  BY ZenonT(30), <1>1, <1>2 DEF CoordinatorInv, Coordinated
<1> QED
  BY ZenonT(30), <1>1, <1>4, <1>5, <1>6, StepAside

\* markLaunched, and a claim that finds the term stopped.
LEMMA StepLaunched ==
  ASSUME CoordinatorInv, NEW t \in Slots, MarkLaunched(t) \/ (Claim(t) /\ tm[t].stopped)
  PROVE  CoordinatorInv'
<1> DEFINE m == [tm[t] EXCEPT !.launched = TRUE]
<1>1. /\ Goroutine(t) /\ UNCHANGED <<leaseLeader, cbDone>> /\ g[t] # "none"
      /\ tm' = [tm EXCEPT ![t] = m] /\ GTo(t, "exit")
  BY ZenonT(30) DEF MarkLaunched, Claim
<1>2. tm[t] \in Terms /\ tm \in [Slots -> Terms]
  BY ZenonT(30) DEF CoordinatorInv, LeaseTypeOK, Terms
<1>3. m \in Terms /\ m.acquired = tm[t].acquired /\ m.stopped = tm[t].stopped
  BY ZenonT(30), <1>2 DEF Terms
<1> HIDE DEF m
<1>4. tm' \in [Slots -> Terms] /\ tm'[t] = m /\ \A s \in Slots \ {t} : tm'[s] = tm[s]
  BY ZenonT(30), <1>1, <1>2, <1>3, FlagSet
<1>5. g' \in [Slots -> GPCs] /\ g'[t] = "exit" /\ \A s \in Slots \ {t} : g'[s] = g[s]
  BY ZenonT(30), <1>1 DEF GTo, CoordinatorInv, LeaseTypeOK, GPCs
<1>6. LeaseTypeOK'
  BY ZenonT(30), <1>1, <1>4, <1>5 DEF Goroutine, process, CoordinatorInv, LeaseTypeOK, Terms
<1>7. Only(t)
  BY ZenonT(30), <1>1, <1>4, <1>5 DEF Only, Goroutine
<1>8. Coordinated(t)'
  BY ZenonT(30), <1>1, <1>5 DEF CoordinatorInv, Coordinated
<1> QED
  BY ZenonT(30), <1>1, <1>3, <1>4, <1>6, <1>7, <1>8, StepAside

\* A claim that wins is one of the current Run, before its stop().
LEMMA StepClaim ==
  ASSUME CoordinatorInv, NEW t \in Slots, Claim(t), ~tm[t].stopped
  PROVE  CoordinatorInv'
<1> DEFINE m == [tm[t] EXCEPT !.launched = TRUE, !.acquired = TRUE]
<1>1. /\ Goroutine(t) /\ UNCHANGED <<leaseLeader, cbDone>> /\ g[t] = "checked"
      /\ tm' = [tm EXCEPT ![t] = m] /\ GTo(t, "claimed")
  BY ZenonT(30) DEF Claim
<1>2. tm[t] \in Terms /\ tm \in [Slots -> Terms]
  BY ZenonT(30) DEF CoordinatorInv, LeaseTypeOK, Terms
<1>3. m \in Terms /\ m.acquired /\ m.stopped = tm[t].stopped
  BY ZenonT(30), <1>2 DEF Terms
<1> HIDE DEF m
<1>4. tm' \in [Slots -> Terms] /\ tm'[t] = m /\ \A s \in Slots \ {t} : tm'[s] = tm[s]
  BY ZenonT(30), <1>1, <1>2, <1>3, FlagSet
<1>5. g' \in [Slots -> GPCs] /\ g'[t] = "claimed" /\ \A s \in Slots \ {t} : g'[s] = g[s]
  BY ZenonT(30), <1>1 DEF GTo, CoordinatorInv, LeaseTypeOK, GPCs
<1>6. t = cur /\ run \in {"renewing", "stopping"}
  BY ZenonT(30), <1>1 DEF CoordinatorInv, LeaseTypeOK, Over, Current, RunPCs
<1>7. LeaseTypeOK'
  BY ZenonT(30), <1>1, <1>4, <1>5 DEF Goroutine, process, CoordinatorInv, LeaseTypeOK, Terms
<1>8. Only(t) /\ UNCHANGED <<run, cur, orphaned, lost>>
  BY ZenonT(30), <1>1, <1>4, <1>5 DEF Only, Goroutine, process
<1>9. Coordinated(t)'
  BY ZenonT(30), <1>1, <1>3, <1>4, <1>5 DEF CoordinatorInv, Coordinated
<1>10. Current' /\ FlagInv'
  BY ZenonT(30), <1>1, <1>3, <1>4, <1>6, <1>8 DEF CoordinatorInv, Current, FlagInv
<1> QED
  BY ZenonT(30), <1>6, <1>7, <1>8, <1>9, <1>10, CurrentTerm

\* The flag goes up only for the current Run, before it has drained the term.
LEMMA StepOnAcquired ==
  ASSUME CoordinatorInv, NEW t \in Slots, OnAcquired(t)
  PROVE  CoordinatorInv'
<1>1. Goroutine(t) /\ UNCHANGED <<tm, cbDone>> /\ g[t] = "claimed" /\ leaseLeader' = TRUE
  BY ZenonT(30) DEF OnAcquired
<1>2. g' \in [Slots -> GPCs] /\ g'[t] = "running" /\ \A s \in Slots \ {t} : g'[s] = g[s]
  BY ZenonT(30) DEF OnAcquired, GTo, CoordinatorInv, LeaseTypeOK, GPCs
<1>3. tm[t].acquired /\ t = cur
  BY ZenonT(30), <1>1 DEF CoordinatorInv, Coordinated
<1>4. LeaseTypeOK'
  BY ZenonT(30), <1>1, <1>2 DEF Goroutine, process, CoordinatorInv, LeaseTypeOK
<1>5. Only(t) /\ UNCHANGED <<run, cur, orphaned, lost>>
  BY ZenonT(30), <1>1, <1>2 DEF Only, Goroutine, process
<1>6. Coordinated(t)'
  BY ZenonT(30), <1>1, <1>2, <1>3 DEF CoordinatorInv, Coordinated
<1>7. run = "acquiring" => FALSE
  BY ZenonT(30), <1>1, <1>3 DEF CoordinatorInv, Current
<1>8. Current'
  BY ZenonT(30), <1>1, <1>3, <1>5, <1>7 DEF CoordinatorInv, Current, Over
<1>9. FlagInv'
  BY ZenonT(30), <1>1, <1>3, <1>5 DEF CoordinatorInv, Current, FlagInv
<1> QED
  BY ZenonT(30), <1>3, <1>4, <1>5, <1>6, <1>8, <1>9, CurrentTerm

-------------------------------------------------------------------------------
(* The environment.                                                        *)

LEMMA StepOutside ==
  ASSUME CoordinatorInv, LeaseCancel \/ LeaseMoves \/ UNCHANGED leaseVars
  PROVE  CoordinatorInv'
<1>1. UNCHANGED <<run, cur, leaseLeader, orphaned, g, tm, cbDone, lost>> /\ cur \in Slots
  BY ZenonT(30) DEF LeaseCancel, LeaseMoves, process, goroutine, leaseVars, CoordinatorInv, LeaseTypeOK
<1>2. LeaseTypeOK'
  BY ZenonT(30) DEF LeaseCancel, LeaseMoves, process, goroutine, leaseVars, CoordinatorInv, LeaseTypeOK
<1>3. Only(cur) /\ Coordinated(cur)'
  BY ZenonT(30), <1>1 DEF Only, CoordinatorInv, Coordinated
<1>4. Current' /\ FlagInv'
  BY ZenonT(30), <1>1 DEF CoordinatorInv, Current, Over, FlagInv
<1> QED
  BY ZenonT(30), <1>1, <1>2, <1>3, <1>4, CurrentTerm

\* With every term new and no Run, whether at the start or in a replaced process.
LEMMA Fresh ==
  ASSUME LeaseTypeOK, run = "idle", ~leaseLeader, g = [t \in Slots |-> "none"],
         tm = [t \in Slots |-> NewTerm], lost = [t \in Slots |-> 0]
  PROVE  CoordinatorInv
<1>1. \A t \in Slots : g[t] = "none" /\ tm[t] = NewTerm /\ lost[t] = 0
  BY ZenonT(30)
<1>2. ~NewTerm.acquired /\ cur \in Slots
  BY ZenonT(30) DEF NewTerm, LeaseTypeOK
<1>3. \A t \in Slots : Coordinated(t) /\ Over(t)
  BY <1>1, <1>2 DEF Coordinated, Over
<1>4. Current
  BY ZenonT(30), <1>1, <1>2, <1>3 DEF Current
<1> QED
  BY ZenonT(30), <1>1, <1>3, <1>4 DEF CoordinatorInv, FlagInv

LEMMA StepReplace ==
  ASSUME CoordinatorInv, LeaseReplace
  PROVE  CoordinatorInv'
<1>1. /\ run' = "idle" /\ ~leaseLeader' /\ g' = [t \in Slots |-> "none"]
      /\ tm' = [t \in Slots |-> NewTerm] /\ lost' = [t \in Slots |-> 0]
  BY ZenonT(30) DEF LeaseReplace
<1>2. LeaseTypeOK'
  <2>1. NewTerm \in Terms
    BY ZenonT(30) DEF NewTerm, Terms
  <2>2. tm' \in [Slots -> Terms] /\ g' \in [Slots -> GPCs] /\ lost' \in [Slots -> 0..1]
    BY <1>1, <2>1 DEF GPCs
  <2>3. ctxDone' \in [Slots -> BOOLEAN] /\ cbDone' \in [Slots -> {"empty", "full"}]
    BY ZenonT(30) DEF LeaseReplace
  <2>4. leaseLeader' \in BOOLEAN /\ stopReq' \in BOOLEAN /\ orphaned' \in BOOLEAN
    BY ZenonT(30) DEF LeaseReplace
  <2> QED
    BY ZenonT(30), <1>1, <2>2, <2>3, <2>4 DEF LeaseReplace, CoordinatorInv, LeaseTypeOK, Terms
<1>3. \A t \in Slots : g'[t] = "none" /\ tm'[t] = NewTerm /\ lost'[t] = 0
  BY ZenonT(30), <1>1
<1>4. ~NewTerm.acquired /\ cur' \in Slots
  BY ZenonT(30), <1>2 DEF NewTerm, LeaseTypeOK
<1>5. \A t \in Slots : Coordinated(t)' /\ Over(t)'
  BY <1>3, <1>4 DEF Coordinated, Over
<1>6. Current'
  BY ZenonT(30), <1>1, <1>3, <1>4, <1>5 DEF Current
<1> QED
  BY ZenonT(30), <1>1, <1>2, <1>3, <1>5, <1>6 DEF CoordinatorInv, FlagInv

-------------------------------------------------------------------------------
(* The theorem.                                                            *)

LEMMA CoordinatorInvHolds == LeaseSpec => []CoordinatorInv
<1>1. LeaseInit => CoordinatorInv
  <2> SUFFICES ASSUME LeaseInit
               PROVE  CoordinatorInv
    BY ZenonT(30)
  <2>1. LeaseTypeOK
    <3>1. NewTerm \in Terms
      BY ZenonT(30) DEF NewTerm, Terms
    <3>2. tm \in [Slots -> Terms] /\ g \in [Slots -> GPCs] /\ lost \in [Slots -> 0..1]
      BY <3>1 DEF LeaseInit, GPCs
    <3>3. ctxDone \in [Slots -> BOOLEAN] /\ cbDone \in [Slots -> {"empty", "full"}]
      BY ZenonT(30) DEF LeaseInit
    <3> QED
      BY ZenonT(30), <3>2, <3>3 DEF LeaseInit, LeaseTypeOK, Terms, RunPCs
  <2> QED
    BY ZenonT(30), <2>1, Fresh DEF LeaseInit
<1>2. CoordinatorInv /\ [LeaseNext]_leaseVars => CoordinatorInv'
  <2> SUFFICES ASSUME CoordinatorInv, [LeaseNext]_leaseVars
               PROVE  CoordinatorInv'
    BY ZenonT(30)
  <2>1. ASSUME NEW t \in Slots, GStep(t) \/ OnAcquiredReturns(t)
        PROVE  CoordinatorInv'
    BY ZenonT(30), <2>1, StepCheck, StepLaunched, StepClaim, StepOnAcquired DEF GStep
  <2>2. CASE RunStep \/ RenewEnds
    BY ZenonT(30), <2>2, StepAcquire, StepStop, StepClear, StepDrain, StepOnLost, StepSettle DEF RunStep
  <2> QED
    BY ZenonT(30), <2>1, <2>2, StepRun, StepOutside, StepReplace DEF LeaseNext
<1> QED
  BY <1>1, <1>2, PTL DEF LeaseSpec

\* When Run returns, OnLost has run once for a term that was claimed and never
\* otherwise, no OnAcquired of it is running or still to come, and IsLeader is false;
\* and OnLost waited for OnAcquired, but for a drain that timed out.
THEOREM TermsBalance == LeaseSpec => []LeaderTermsBalance
<1>1. CoordinatorInv => LeaderTermsBalance
  <2> SUFFICES ASSUME CoordinatorInv
               PROVE  LeaderTermsBalance
    BY ZenonT(30)
  <2>1. \A t \in Slots : lost[t] = 1 => tm[t].acquired /\ (g[t] = "none" \/ orphaned)
    BY DEF CoordinatorInv, LeaseTypeOK, Current, Over, RunPCs
  <2>2. run = "idle" => \A t \in Slots : tm[t].acquired <=> lost[t] = 1
    BY ZenonT(30) DEF CoordinatorInv, Current, Over
  <2>3. CallbacksBalance
    BY ZenonT(30), <2>1, <2>2 DEF CallbacksBalance
  <2>4. NoLateOnAcquired
    BY ZenonT(30) DEF NoLateOnAcquired, CoordinatorInv, Coordinated, Current
  <2> QED
    BY ZenonT(30), <2>3, <2>4 DEF LeaderTermsBalance, NotLeaderAfterRun, CoordinatorInv, FlagInv
<1> QED
  BY <1>1, CoordinatorInvHolds, PTL

=============================================================================
