----------------------------- MODULE StatsRoute -----------------------------
(***************************************************************************)
(* GET /stats: an in-process cache in front of one expensive query, behind *)
(* a gate that sheds instead of queueing (src/api/load-shedding.ts).  The  *)
(* figures are a version number.  The answer of a recomputation reads      *)
(* `liveStreams`, a name that is defined nowhere, so both the fresh and    *)
(* the stale answer throw, after the cache was written.                    *)
(***************************************************************************)
EXTENDS Naturals, FiniteSets

CONSTANTS
    Requests,
    Limit,        \* STATS_MAX_CONCURRENT, the gate's limit
    TTL,          \* STATS_CACHE_MS, in ticks
    MaxChanges    \* bound on the changes of the figures

VARIABLES
    db,           \* the figures in the database
    statsCache,   \* the last computed figures and the ticks they stay fresh
    active,       \* the gate's count
    request,      \* what each request is doing
    figures,      \* what a computing request read
    answer        \* what each request was last answered

vars == <<db, statsCache, active, request, figures, answer>>

Nothing == [value |-> MaxChanges + 1, left |-> 0]
Cached == [value : 0..MaxChanges, left : 0..TTL] \cup {Nothing}
Answers == {"none", "cached", "shed", "error"}

TypeOK ==
    /\ db \in 0..MaxChanges
    /\ statsCache \in Cached
    /\ active \in 0..Limit
    /\ request \in [Requests -> {"idle", "entered", "read"}]
    /\ figures \in [Requests -> 0..MaxChanges]
    /\ answer \in [Requests -> Answers]

Init ==
    /\ db = 0 /\ statsCache = Nothing /\ active = 0
    /\ request = [r \in Requests |-> "idle"]
    /\ figures = [r \in Requests |-> 0]
    /\ answer = [r \in Requests |-> "none"]

\* The indexer folds.
Change ==
    /\ db < MaxChanges
    /\ db' = db + 1
    /\ UNCHANGED <<statsCache, active, request, figures, answer>>

Tick ==
    /\ statsCache.left > 0
    /\ statsCache' = [statsCache EXCEPT !.left = @ - 1]
    /\ UNCHANGED <<db, active, request, figures, answer>>

Hit(r) ==
    /\ request[r] = "idle" /\ statsCache.left > 0
    /\ answer' = [answer EXCEPT ![r] = "cached"]
    /\ UNCHANGED <<db, statsCache, active, request, figures>>

\* Faulty variant: lets one more in.
tryAcquire_oneMore == active <= Limit
\* ConcurrencyGate.tryAcquire.
tryAcquire == active < Limit

Enter(r) ==
    /\ request[r] = "idle" /\ statsCache.left = 0 /\ tryAcquire
    /\ active' = active + 1
    /\ request' = [request EXCEPT ![r] = "entered"]
    /\ UNCHANGED <<db, statsCache, figures, answer>>

Shed(r) ==
    /\ request[r] = "idle" /\ statsCache.left = 0 /\ ~tryAcquire
    /\ answer' = [answer EXCEPT ![r] = "shed"]
    /\ UNCHANGED <<db, statsCache, active, request, figures>>

\* The statement of computeStats runs; its answer is still on the way.
Read(r) ==
    /\ request[r] = "entered"
    /\ request' = [request EXCEPT ![r] = "read"]
    /\ figures' = [figures EXCEPT ![r] = db]
    /\ UNCHANGED <<db, statsCache, active, answer>>

\* ConcurrencyGate.release.
Release == IF active > 0 THEN active - 1 ELSE active

\* What becomes of a request that leaves the gate: the catch finds a cached
\* value, reads liveStreams and throws; without one it rethrows.
LeaveGate(r) ==
    /\ active' = Release
    /\ request' = [request EXCEPT ![r] = "idle"]
    /\ answer' = [answer EXCEPT ![r] = "error"]

Computed(r) ==
    /\ request[r] = "read"
    /\ statsCache' = [value |-> figures[r], left |-> TTL]
    /\ LeaveGate(r)
    /\ UNCHANGED <<db, figures>>

\* The query fails or runs into statement_timeout.
ComputeFails(r) ==
    /\ request[r] \in {"entered", "read"}
    /\ LeaveGate(r)
    /\ UNCHANGED <<db, statsCache, figures>>

Compute(r) == Read(r) \/ Computed(r) \/ ComputeFails(r)
Next ==
    \/ Change \/ Tick
    \/ \E r \in Requests : Hit(r) \/ Enter(r) \/ Shed(r) \/ Compute(r)

Spec == Init /\ [][Next]_vars

-----------------------------------------------------------------------------
(***************************************************************************)
(* With the default of one recomputation at a time the cached figures      *)
(* never go back to older ones: no slow query overwrites a later result.   *)
(***************************************************************************)
CacheNeverGoesBack ==
    [][(Limit = 1 /\ statsCache # Nothing) => statsCache'.value >= statsCache.value]_vars
=============================================================================
