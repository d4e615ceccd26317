------------------------------ MODULE OutboxStore ------------------------------
(***************************************************************************)
(* The Postgres outbox store (infra/outbox/postgres): the table            *)
(* outbox_entries, and for each relay process the id -> token map its      *)
(* Store keeps to fence outcome updates.  Every SQL statement is one       *)
(* atomic step; the operators below say what a statement does to the rows  *)
(* and to the calling process's map, and the relay (OutboxRelay) decides   *)
(* when it is called and what its result leads to.                         *)
(*                                                                         *)
(* Entries are numbered in created_at order.  updated_at is kept as the    *)
(* row's age, which Tick advances; next_retry_at as the flag due.          *)
(***************************************************************************)
EXTENDS Naturals, FiniteSets

CONSTANTS
    Entries,        \* outbox ids, ordered by created_at
    Relays,         \* relay processes, each with a Store of its own
    Tokens,         \* claim tokens (gen_random_uuid)
    NoToken,        \* claim_token IS NULL, or no remembered token
    Routes,         \* WithClaimRoutes: the entries each relay's Store selects
    BatchSize,      \* limit of FetchPending
    StaleTicks      \* staleDuration, in ticks

ASSUME StoreAssumption ==
    /\ Entries \subseteq Nat
    /\ NoToken \notin Tokens
    /\ Routes \in [Relays -> SUBSET Entries]
    /\ BatchSize \in Nat \ {0}
    /\ StaleTicks \in Nat

ASSUME RelaysAssumption == IsFiniteSet(Relays)

VARIABLES
    row,            \* the table; "absent" before the insert commits
    remembered      \* claimTokens of each process's Store

storeVars == <<row, remembered>>

Status == {"absent", "pending", "processing", "published", "failed", "deleted"}

Row == [status : Status, attempts : Nat, token : Tokens \cup {NoToken},
        age : Nat, due : BOOLEAN]

StoreInit ==
    /\ row = [e \in Entries |-> [status |-> "absent", attempts |-> 0,
                                 token |-> NoToken, age |-> 0, due |-> TRUE]]
    /\ remembered = [r \in Relays |-> [e \in Entries |-> NoToken]]

\* Writer.Write joins the caller's transaction: the row appears, pending, when
\* that transaction commits, and not at all when it rolls back.
Insert(e) ==
    /\ row[e].status = "absent"
    /\ row' = [row EXCEPT ![e].status = "pending"]
    /\ UNCHANGED remembered

Eligible(r) == {e \in Routes[r] : row[e].status = "pending" /\ row[e].due}

\* ORDER BY created_at LIMIT BatchSize.  A row SKIP LOCKED passes over is held
\* by a statement that is ordered before this one.
Oldest(S, B) ==
    /\ B \subseteq S
    /\ \A x \in B, y \in S \ B : x < y
    /\ IF Cardinality(S) <= BatchSize THEN B = S ELSE Cardinality(B) = BatchSize

\* A token no row and no process holds for e, as a random UUID is.
Fresh(e, t) == t # row[e].token /\ \A r \in Relays : t # remembered[r][e]

Claimed(B, tok) ==
    [e \in Entries |-> IF e \in B
        THEN [row[e] EXCEPT !.status = "processing", !.age = 0, !.token = tok[e]]
        ELSE row[e]]

\* The claiming UPDATE of FetchPending, and rememberClaim for each row once the
\* result set has been read to its end.  When the read fails after the statement
\* committed (clean = FALSE) the rows are claimed and nobody remembers a token.
FetchPending(r, B, clean) ==
    /\ Oldest(Eligible(r), B)
    /\ \E tok \in [B -> Tokens] :
         /\ \A e \in B : Fresh(e, tok[e])
         /\ row' = Claimed(B, tok)
         /\ remembered' = [remembered EXCEPT ![r] =
              [e \in Entries |-> IF clean /\ e \in B THEN tok[e] ELSE @[e]]]

\* Fault models of the fence: the claim token is not compared; nothing but the
\* id is.
OwnsByStatus(r, e) == row[e].status = "processing"

OwnsById(r, e) == row[e].status \notin {"absent", "deleted"}

\* The fence of every outcome update: status = 'processing' AND claim_token = $tok.
Owns(r, e) ==
    /\ row[e].status = "processing"
    /\ remembered[r][e] # NoToken
    /\ remembered[r][e] = row[e].token

Forget(r, e) == remembered' = [remembered EXCEPT ![r][e] = NoToken]

MarkPublished(e) == [row[e] EXCEPT !.status = "published", !.age = 0]

MarkFailed(e) == [row[e] EXCEPT !.status = "failed", !.age = 0]

IncrementAttempts(e) ==
    [row[e] EXCEPT !.status = "pending", !.attempts = row[e].attempts + 1, !.age = 0,
                   !.due = FALSE, !.token = NoToken]

\* transition without a database error: one row updated, or ErrStaleState /
\* ErrNotFound when the fence matched none; the token is forgotten either way.
Transition(r, e, new) ==
    /\ row' = IF Owns(r, e) THEN [row EXCEPT ![e] = new] ELSE row
    /\ Forget(r, e)

\* transition whose Exec reports an error: the update may have committed, and
\* the remembered token stays.
TransitionError(r, e, new) ==
    /\ \/ Owns(r, e) /\ row' = [row EXCEPT ![e] = new]
       \/ UNCHANGED row
    /\ UNCHANGED remembered

Heartbeat(r, ids) ==
    /\ row' = [e \in Entries |-> IF e \in ids /\ Owns(r, e)
                                 THEN [row[e] EXCEPT !.age = 0] ELSE row[e]]
    /\ UNCHANGED remembered

\* What ResetPending does to the table.  Its statement compares the uuid columns
\* id and claim_token with values cast to text, an operator Postgres does not
\* have, so it is always rejected and no row changes.  It runs as the process
\* exits, with which the tokens it has forgotten would go anyway.
ResetPending(r, ids) == row' = row

\* Fault model of the sweep: updated_at is not compared.
ResetAnyProcessing(r) ==
    /\ row' = [e \in Entries |-> IF e \in Routes[r] /\ row[e].status = "processing"
         THEN [row[e] EXCEPT !.status = "pending", !.token = NoToken, !.age = 0]
         ELSE row[e]]
    /\ UNCHANGED remembered

ResetStaleProcessing(r) ==
    /\ row' = [e \in Entries |->
         IF e \in Routes[r] /\ row[e].status = "processing" /\ row[e].age > StaleTicks
         THEN [row[e] EXCEPT !.status = "pending", !.token = NoToken, !.age = 0]
         ELSE row[e]]
    /\ UNCHANGED remembered

\* DeletePublishedBefore and DeleteFailedBefore: the rows of D, terminal and past
\* their retention.
DeleteBefore(r, D) ==
    /\ D \subseteq {e \in Routes[r] : row[e].status \in {"published", "failed"}}
    /\ row' = [e \in Entries |-> IF e \in D THEN [row[e] EXCEPT !.status = "deleted"]
                                 ELSE row[e]]
    /\ UNCHANGED remembered

\* NOW() reaches next_retry_at.
BackoffElapses(e) ==
    /\ row[e].status = "pending" /\ ~row[e].due
    /\ row' = [row EXCEPT ![e].due = TRUE]
    /\ UNCHANGED remembered

\* One tick of NOW() - updated_at.  Only processing rows are compared with it,
\* and only against StaleTicks, where the count saturates.
Aged == [e \in Entries |->
    IF row[e].status = "processing" /\ row[e].age <= StaleTicks
    THEN [row[e] EXCEPT !.age = @ + 1] ELSE row[e]]
================================================================================
