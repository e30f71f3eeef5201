--------------------------- MODULE Notifications ---------------------------
(***************************************************************************)
(* The notifications table and the three parties that write it: the fold,  *)
(* which inserts a row per event and recipient (notify in                  *)
(* src/src/indexer/handlers.ts), the authenticated routes that mark rows   *)
(* read (src/src/api/routes/index.ts, src/src/auth.ts), and a reindex,     *)
(* which saves the read flags, empties the table, numbers it again from 1  *)
(* and restores the flags (src/src/indexer/reindex.ts).                    *)
(*                                                                         *)
(* A route authenticates, selects the row to check its owner and updates   *)
(* it by id, in three statements.  The reindex reads the flags before its  *)
(* TRUNCATE locks the table: from there to COMMIT nobody else sees or      *)
(* writes it, so the rest of it is one step.                               *)
(***************************************************************************)
EXTENDS Naturals, Sequences, FiniteSets

CONSTANTS
    Accounts,     \* ed25519 (G...) accounts
    Presented,    \* addresses as they appear in a header: accounts, muxed ones, others
    Base,         \* per presented address: the set of its ed25519 account, empty for others
    Recipient,    \* a sequence: per event, the account it notifies
    Nonces,
    Requests,     \* requests in flight at one time
    MaxReindexes  \* bound on reindexes

Events == DOMAIN Recipient

VARIABLES
    rows,       \* the table: a function from the ids in use to [event, address, read]
    nextId,     \* its serial sequence
    taken,      \* the worker took the events 1 .. taken
    late,       \* events taken whose folded_at is not set
    live,       \* per nonce: the addresses it is outstanding for, at most one
    issued,     \* nonces ever drawn
    request,    \* per request: its phase, the account it proved, the id it is about
    reindexing, \* a reindex has read the flags
    saved,      \* the flags it read
    reindexes

\* History.
VARIABLES
    signed,     \* the accounts whose key signed a request that was let in
    renumbered, \* a rebuild came between a request's ownership check and its update
    missed      \* a row was marked after a reindex read the flags

vars == <<rows, nextId, taken, late, live, issued, request, reindexing, saved, reindexes,
          signed, renumbered, missed>>
store == <<live, issued>>
indexer == <<taken, late>>
rebuild == <<reindexing, saved, reindexes>>

Idle == [phase |-> "idle", as |-> {}, id |-> 0]

Init ==
    /\ rows = [i \in {} |-> Idle] /\ nextId = 1
    /\ taken = 0 /\ late = {}
    /\ live = [n \in Nonces |-> {}] /\ issued = {}
    /\ request = [r \in Requests |-> Idle]
    /\ reindexing = FALSE /\ saved = {} /\ reindexes = 0
    /\ signed = {} /\ renumbered = FALSE /\ missed = FALSE

-----------------------------------------------------------------------------
\* The fold.

NoteOf(e) == [event |-> e, address |-> Recipient[e], read |-> FALSE]

Conflict(e) == \E i \in DOMAIN rows : rows[i].event = e

\* notify: the row takes the next number of the sequence; on a conflict nothing
\* is inserted and the number is spent all the same.
Insert(e) ==
    /\ rows' = IF Conflict(e) THEN rows
               ELSE [i \in DOMAIN rows \cup {nextId} |-> IF i = nextId THEN NoteOf(e) ELSE rows[i]]
    /\ nextId' = nextId + 1

\* The worker and the replay fold under the lock a reindex holds.
Fold ==
    /\ taken + 1 \in Events /\ ~reindexing
    /\ taken' = taken + 1
    /\ Insert(taken + 1)
    /\ UNCHANGED <<late, store, request, rebuild, signed, renumbered, missed>>

Quarantine ==
    /\ taken + 1 \in Events /\ ~reindexing
    /\ taken' = taken + 1 /\ late' = late \cup {taken + 1}
    /\ UNCHANGED <<rows, nextId, store, request, rebuild, signed, renumbered, missed>>

\* A replay, or the page again: the row's folded_at is what counts, and a reindex
\* does not set it.
Refold(e) ==
    /\ e \in late /\ ~reindexing
    /\ late' = late \ {e}
    /\ Insert(e)
    /\ UNCHANGED <<taken, store, request, rebuild, signed, renumbered, missed>>

-----------------------------------------------------------------------------
\* The reindex.

SaveReads ==
    /\ ~reindexing /\ reindexes < MaxReindexes
    /\ reindexing' = TRUE
    /\ saved' = {rows[i].event : i \in {j \in DOMAIN rows : rows[j].read}}
    /\ UNCHANGED <<rows, nextId, indexer, store, request, reindexes, signed, renumbered, missed>>

\* Faulty variant: the flags are not restored (issue #52).
Restored_never(e) == FALSE
Restored(e) == e \in saved

\* TRUNCATE ... RESTART IDENTITY, every event of the log in order, the flags.
RebuildTable ==
    /\ reindexing
    /\ rows' = [i \in 1 .. taken |-> [NoteOf(i) EXCEPT !.read = Restored(i)]]
    /\ nextId' = taken + 1
    /\ reindexing' = FALSE /\ saved' = {} /\ reindexes' = reindexes + 1
    /\ renumbered' = (renumbered \/ \E r \in Requests : request[r].phase = "owner")
    /\ UNCHANGED <<indexer, store, request, signed, missed>>

-----------------------------------------------------------------------------
\* Authentication.

\* GET /auth/challenge: an address of a family that can sign.
Challenge(p, n) ==
    /\ Base[p] # {}
    /\ n \notin issued
    /\ issued' = issued \cup {n}
    /\ live' = [live EXCEPT ![n] = {p}]
    /\ UNCHANGED <<rows, nextId, indexer, request, rebuild, signed, renumbered, missed>>

\* The key must be the one behind the presented address; contract accounts and
\* anything malformed are refused.
verifySignature(p, key) == key \in Base[p]

\* authenticateRequest: only a request with a good signature touches the nonce.
\* One that fails leaves no trace.
Admit(r, p, n, key, next) ==
    /\ request[r].phase = "idle"
    /\ verifySignature(p, key)
    /\ p \in live[n]
    /\ live' = [live EXCEPT ![n] = {}]
    /\ signed' = signed \cup {key}
    /\ request' = [request EXCEPT ![r] = next]
    /\ UNCHANGED <<rows, nextId, indexer, issued, rebuild, renumbered, missed>>

\* PATCH /notifications/:id/read
AuthenticateRead(r, p, n, key, id) ==
    Admit(r, p, n, key, [phase |-> "authenticated", as |-> Base[p], id |-> id])

\* PATCH /notifications/read-all?address=a: a must be the presented address
\* itself.  Any other is answered 403, its nonce spent.
AuthenticateAll(r, p, n, key, a) ==
    Admit(r, p, n, key, IF a = p THEN [phase |-> "all", as |-> {a}, id |-> 0] ELSE Idle)

-----------------------------------------------------------------------------
\* The routes.

\* Faulty variant: any row that exists may be marked.
Owns_any(r) == request[r].id \in DOMAIN rows
\* The ownership check; a row that is not there is 404, another's 403.
Owns(r) == request[r].id \in DOMAIN rows /\ rows[request[r].id].address \in request[r].as

Select(r) ==
    /\ request[r].phase = "authenticated"
    /\ request' = [request EXCEPT ![r] = IF Owns(r) THEN [@ EXCEPT !.phase = "owner"] ELSE Idle]
    /\ UNCHANGED <<rows, nextId, indexer, store, rebuild, signed, renumbered, missed>>

MarkRead(ids) ==
    /\ rows' = [i \in DOMAIN rows |-> IF i \in ids THEN [rows[i] EXCEPT !.read = TRUE] ELSE rows[i]]
    /\ missed' = (missed \/ (reindexing /\ \E i \in ids \cap DOMAIN rows : ~rows[i].read))

\* UPDATE ... WHERE id = $1
Update(r) ==
    /\ request[r].phase = "owner"
    /\ MarkRead({request[r].id})
    /\ request' = [request EXCEPT ![r] = Idle]
    /\ UNCHANGED <<nextId, indexer, store, rebuild, signed, renumbered>>

\* UPDATE ... WHERE address = $1 AND read = false
UpdateAll(r) ==
    /\ request[r].phase = "all"
    /\ MarkRead({i \in DOMAIN rows : rows[i].address \in request[r].as})
    /\ request' = [request EXCEPT ![r] = Idle]
    /\ UNCHANGED <<nextId, indexer, store, rebuild, signed, renumbered>>

Next ==
    \/ Fold \/ Quarantine \/ \E e \in late : Refold(e)
    \/ SaveReads \/ RebuildTable
    \/ \E p \in Presented, n \in Nonces :
         \/ Challenge(p, n)
         \/ \E r \in Requests, key \in Accounts :
              \/ \E id \in Events : AuthenticateRead(r, p, n, key, id)
              \/ \E a \in Accounts : AuthenticateAll(r, p, n, key, a)
    \/ \E r \in Requests : Select(r) \/ Update(r) \/ UpdateAll(r)

Spec == Init /\ [][Next]_vars

-----------------------------------------------------------------------------
ReadOf(t) == {t[i].event : i \in {j \in DOMAIN t : t[j].read}}

NotedIn(t) == {t[i].event : i \in DOMAIN t}

(***************************************************************************)
(* A notification is marked read only for an account whose key signed a    *)
(* request of its own, through late replays, muxed addresses and rebuilds, *)
(* as long as no rebuild comes between a request's ownership check and its *)
(* update (auth.ts 545-593, routes 841-893).                               *)
(***************************************************************************)
OnlySignersRead ==
    ~renumbered => \A i \in DOMAIN rows : rows[i].read => rows[i].address \in signed

(***************************************************************************)
(* A notification that was read stays read, whatever its number becomes,   *)
(* as long as nothing was marked while a reindex was between reading the   *)
(* flags and emptying the table (reindex.ts 84-90, 166-173).               *)
(***************************************************************************)
ReadStays == [][~missed => ReadOf(rows) \cap NotedIn(rows') \subseteq ReadOf(rows')]_vars
=============================================================================
