---------------------------- MODULE HistoryCache ----------------------------
(***************************************************************************)
(* The cache of GET /stats/history (src/api/history-cache.ts): a copy in   *)
(* each API process, and one in Redis that the processes share.  The       *)
(* indexer deletes the Redis copy from inside the transaction that changes *)
(* daily_loan_stats; the object it calls is its own, so no API process's   *)
(* copy is touched.  The history is a version number; 0 is the empty       *)
(* history of a database without loans.                                    *)
(***************************************************************************)
EXTENDS Naturals

CONSTANTS
    Apis,         \* API processes, with one request each at a time
    TTL,          \* HISTORY_CACHE_TTL_SECONDS, in ticks
    MaxCommits,   \* bound on the changes of daily_loan_stats
    MaxFaults     \* bound on failing Redis commands and crashes

VARIABLES
    db,         \* the committed history
    tx,         \* the indexer's transaction: "none", "changed" or "invalidated"
    rebuilt,    \* a reindex committed and has its invalidation to do
    redis, local,
    request,    \* GET /stats/history, per API process
    faults

vars == <<db, tx, rebuilt, redis, local, request, faults>>

Versions == 0..MaxCommits
Absent == [value |-> 0, left |-> 0]
Entries == [value : Versions, left : 1..TTL] \cup {Absent}
Idle == [step |-> "idle", since |-> 0, value |-> 0]
\* since is the history that was committed when the request began.
Lookups == [step : {"idle", "get", "query", "set", "share", "answered"},
             since : Versions, value : Versions]

TypeOK ==
    /\ db \in Versions /\ faults \in 0..MaxFaults /\ rebuilt \in BOOLEAN
    /\ tx \in {"none", "changed", "invalidated"}
    /\ redis \in Entries /\ local \in [Apis -> Entries]
    /\ request \in [Apis -> Lookups]

Init ==
    /\ db = 0 /\ faults = 0 /\ rebuilt = FALSE /\ tx = "none"
    /\ redis = Absent /\ local = [a \in Apis |-> Absent]
    /\ request = [a \in Apis |-> Idle]

-----------------------------------------------------------------------------
\* GET /stats/history.

Begin(a) ==
    /\ request[a].step = "idle"
    /\ request' = [request EXCEPT ![a] = [step |-> "get", since |-> db, value |-> 0]]
    /\ UNCHANGED <<db, tx, rebuilt, redis, local, faults>>

Answer(a, v) == request' = [request EXCEPT ![a].step = "answered", ![a].value = v]

\* get, once Redis has no copy or cannot be asked.
GetLocal(a) ==
    IF local[a] = Absent THEN request' = [request EXCEPT ![a].step = "query"]
    ELSE Answer(a, local[a].value)

Get(a) ==
    /\ request[a].step = "get"
    /\ IF redis = Absent THEN GetLocal(a) ELSE Answer(a, redis.value)
    /\ UNCHANGED <<db, tx, rebuilt, redis, local, faults>>

GetFails(a) ==
    /\ request[a].step = "get" /\ faults < MaxFaults
    /\ GetLocal(a)
    /\ faults' = faults + 1
    /\ UNCHANGED <<db, tx, rebuilt, redis, local>>

Query(a) ==
    /\ request[a].step = "query"
    /\ request' = [request EXCEPT ![a].step = "set", ![a].value = db]
    /\ UNCHANGED <<db, tx, rebuilt, redis, local, faults>>

\* Faulty variant: an empty history is cached like any other.
Cached_empty(v) == [value |-> v, left |-> TTL]
\* set keeps no copy of an empty history.
Cached(v) == IF v = 0 THEN Absent ELSE [value |-> v, left |-> TTL]

Set(a) ==
    /\ request[a].step = "set"
    /\ LET e == Cached(request[a].value)
       IN IF e = Absent THEN Answer(a, request[a].value) /\ UNCHANGED local
          ELSE /\ local' = [local EXCEPT ![a] = e]
               /\ request' = [request EXCEPT ![a].step = "share"]
    /\ UNCHANGED <<db, tx, rebuilt, redis, faults>>

Share(a) ==
    /\ request[a].step = "share"
    /\ redis' = Cached(request[a].value)
    /\ Answer(a, request[a].value)
    /\ UNCHANGED <<db, tx, rebuilt, local, faults>>

ShareFails(a) ==
    /\ request[a].step = "share" /\ faults < MaxFaults
    /\ Answer(a, request[a].value)
    /\ faults' = faults + 1
    /\ UNCHANGED <<db, tx, rebuilt, redis, local>>

Done(a) ==
    /\ request[a].step = "answered"
    /\ request' = [request EXCEPT ![a] = Idle]
    /\ UNCHANGED <<db, tx, rebuilt, redis, local, faults>>

\* Faulty variant: an entry once written is never dropped.
Aged_kept(e) == e
\* expiresAt and EX.
Aged(e) == IF e.left <= 1 THEN Absent ELSE [e EXCEPT !.left = e.left - 1]

Tick ==
    /\ redis # Absent \/ \E a \in Apis : local[a] # Absent
    /\ redis' = Aged(redis)
    /\ local' = [a \in Apis |-> Aged(local[a])]
    /\ UNCHANGED <<db, tx, rebuilt, request, faults>>

-----------------------------------------------------------------------------
\* The indexer and the reindex command.

\* incrementDailyLoanStats, uncommitted: no other connection sees it yet.
Increment ==
    /\ tx = "none" /\ ~rebuilt /\ db < MaxCommits
    /\ tx' = "changed"
    /\ UNCHANGED <<db, rebuilt, redis, local, request, faults>>

\* invalidate: the caller's own copy is empty, the Redis copy goes.
Invalidate ==
    /\ tx = "changed"
    /\ tx' = "invalidated"
    /\ redis' = Absent
    /\ UNCHANGED <<db, rebuilt, local, request, faults>>

InvalidateFails ==
    /\ tx = "changed" /\ faults < MaxFaults
    /\ tx' = "invalidated"
    /\ faults' = faults + 1
    /\ UNCHANGED <<db, rebuilt, redis, local, request>>

Commit ==
    /\ tx = "invalidated"
    /\ tx' = "none"
    /\ db' = db + 1
    /\ UNCHANGED <<rebuilt, redis, local, request, faults>>

\* A later event of the page fails, or the process exits.
Rollback ==
    /\ tx # "none" /\ faults < MaxFaults
    /\ tx' = "none"
    /\ faults' = faults + 1
    /\ UNCHANGED <<db, rebuilt, redis, local, request>>

\* The rebuild holds the lock the indexer folds under.  It invalidates with each
\* loan event before it commits, which a request may have undone by then, and
\* once more after.
Reindex ==
    /\ tx = "none" /\ ~rebuilt /\ db \in 1..(MaxCommits - 1)
    /\ db' = db + 1
    /\ rebuilt' = TRUE
    /\ redis' \in {redis, Absent}
    /\ UNCHANGED <<tx, local, request, faults>>

ReindexInvalidates ==
    /\ rebuilt
    /\ rebuilt' = FALSE
    /\ redis' = Absent
    /\ UNCHANGED <<db, tx, local, request, faults>>

ReindexDies ==
    /\ rebuilt /\ faults < MaxFaults
    /\ rebuilt' = FALSE
    /\ faults' = faults + 1
    /\ UNCHANGED <<db, tx, redis, local, request>>

RequestStep(a) == Get(a) \/ Query(a) \/ Set(a) \/ Share(a) \/ Done(a)
FolderStep == Increment \/ Invalidate \/ InvalidateFails \/ Commit \/ Rollback
                \/ Reindex \/ ReindexInvalidates \/ ReindexDies
Next ==
    \/ \E a \in Apis : Begin(a) \/ RequestStep(a) \/ GetFails(a) \/ ShareFails(a)
    \/ FolderStep
    \/ Tick

Spec == Init /\ [][Next]_vars

-----------------------------------------------------------------------------
(***************************************************************************)
(* A request that begins after the first loan was committed never answers  *)
(* an empty history, whatever other requests cached or were caching before *)
(* it (set skips an empty array).                                          *)
(***************************************************************************)
NeverEmptyAgain ==
    \A a \in Apis : request[a].step = "answered" /\ request[a].since > 0 => request[a].value > 0

(***************************************************************************)
(* Once the indexer is quiet no copy older than the database survives,     *)
(* neither in Redis nor in an API process, although nobody deletes the     *)
(* latter: the hour of expiresAt is what bounds it.                        *)
(***************************************************************************)
HistorySettles ==
    <>[](\A e \in {redis} \cup {local[a] : a \in Apis} : e # Absent => e.value = db)
=============================================================================
