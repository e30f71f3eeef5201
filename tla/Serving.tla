------------------------------ MODULE Serving ------------------------------
(***************************************************************************)
(* What the API serves from shared state: the two nonce stores             *)
(* (MemoryNonces, PostgresNonces), the notifications and the routes that   *)
(* mark them read (Notifications), and the member cache (MemberCache).     *)
(* They share no variable and no step, so a behaviour follows one of them, *)
(* chosen at the start, while the others stand still.                      *)
(***************************************************************************)
EXTENDS MemoryNonces

CONSTANTS
    Issuers, TableMaxTime,                   \* PostgresNonces, with the capacity of MemoryNonces
    TableMaxPerAddress,
    Accounts, Presented, Base, Recipient,    \* Notifications
    NoteNonces, Requests, MaxReindexes,
    Limits, CacheAddresses, Readers, TTL,    \* MemberCache
    MaxCommits, MaxFaults, Poller, Operator

\* A presented address stands for one ed25519 account at most, an account for
\* itself.  Redis refuses a SET with a time to live of zero.
ASSUME ServingAssumption ==
    /\ IsFiniteSet(Issuers) /\ Issuers # {} /\ TableMaxTime \in Nat /\ TableMaxPerAddress \in Nat
    /\ Base \in [Presented -> SUBSET Accounts]
    /\ \A p \in Presented : \A a, b \in Base[p] : a = b
    /\ \A a \in Accounts \cap Presented : Base[a] = {a}
    /\ DOMAIN Recipient \subseteq Nat \ {0} /\ \A e \in DOMAIN Recipient : Recipient[e] \in Accounts
    /\ TTL \in Nat \ {0} /\ MaxCommits \in Nat /\ MaxFaults \in Nat

VARIABLES
    subject,   \* the component this behaviour is about
    pgNow, nonceRows, pgAddress, pgExpiresAt, issuing, pgAccepted,
    rows, nextId, taken, late, live, issued, request, reindexing, saved, reindexes,
    signed, renumbered, missed,
    db, redis, reader, todo, scanned, commits, faults, told, excused

Postgres == INSTANCE PostgresNonces WITH
    now <- pgNow, rows <- nonceRows, address <- pgAddress, expiresAt <- pgExpiresAt,
    accepted <- pgAccepted, MaxTime <- TableMaxTime, MaxPerAddress <- TableMaxPerAddress

Notes == INSTANCE Notifications WITH Nonces <- NoteNonces

Cache == INSTANCE MemberCache WITH Addresses <- CacheAddresses

postgresVars == <<pgNow, nonceRows, pgAddress, pgExpiresAt, issuing, pgAccepted>>
notesVars == <<rows, nextId, taken, late, live, issued, request, reindexing, saved, reindexes,
               signed, renumbered, missed>>
cacheVars == <<db, redis, reader, todo, scanned, commits, faults, told, excused>>

ServingInit ==
    /\ subject \in {"memory", "postgres", "notes", "cache"}
    /\ Init /\ Postgres!Init /\ Notes!Init /\ Cache!Init

ServingNext ==
    /\ \/ subject = "memory" /\ Next /\ UNCHANGED <<postgresVars, notesVars, cacheVars>>
       \/ subject = "postgres" /\ Postgres!Next /\ UNCHANGED <<vars, notesVars, cacheVars>>
       \/ subject = "notes" /\ Notes!Next /\ UNCHANGED <<vars, postgresVars, cacheVars>>
       \/ subject = "cache" /\ Cache!Next /\ UNCHANGED <<vars, postgresVars, notesVars>>
    /\ UNCHANGED subject

ServingSpec == ServingInit /\ [][ServingNext]_<<vars, postgresVars, notesVars, cacheVars, subject>>

-----------------------------------------------------------------------------
\* The types of both nonce stores and of the member cache.
ServingTypeOK == TypeOK /\ Postgres!TypeOK /\ Cache!TypeOK

(***************************************************************************)
(* The table auth_nonces keeps a nonce store's promise (module NonceStore) *)
(* across instances: a nonce is consumed by its own address, once, and     *)
(* never after its expiry (auth.ts 319-334, 343-401).                      *)
(***************************************************************************)
TableKeepsPromise == Postgres!KeepsPromise

(***************************************************************************)
(* How far concurrent challenges can overshoot the caps: the nonces        *)
(* outstanding and the challenges in flight are together less than the cap *)
(* and the challenges there can be, in the whole table and for one address *)
(* (auth.ts 344-375).                                                      *)
(***************************************************************************)
OvershootBounded == Postgres!OvershootBounded

(***************************************************************************)
(* A notification is marked read only for an account whose key signed a    *)
(* request of its own, through late replays, muxed addresses and rebuilds, *)
(* as long as no rebuild comes between a request's ownership check and its *)
(* update (auth.ts 545-593, routes 841-893).                               *)
(***************************************************************************)
OnlySignersRead == Notes!OnlySignersRead

(***************************************************************************)
(* A notification that was read stays read, whatever its number becomes,   *)
(* as long as nothing was marked while a reindex was between reading the   *)
(* flags and emptying the table (reindex.ts 84-90, 166-173).               *)
(***************************************************************************)
ReadStays == Notes!ReadStays

(***************************************************************************)
(* Once the stream announced a change of member state, no list at any      *)
(* limit and no summary older than the announced version is in the cache   *)
(* (poller.ts 289-296, redis.ts 90-154), but for the entries a slow        *)
(* request wrote over the deletion, those whose deletion failed or died    *)
(* with its process, and the keys the event's invalidation does not name.  *)
(***************************************************************************)
ToldIsFresh == Cache!ToldIsFresh
=============================================================================
