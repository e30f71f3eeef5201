------------------------------ MODULE Recovery ------------------------------
(***************************************************************************)
(* What must come right again by itself: the listener after a lost         *)
(* connection (StreamListener), the worker after a false reorg alarm       *)
(* (Reorg), and the caches after lost or late invalidations (MemberCache,  *)
(* HistoryCache) or slow queries (StatsRoute).  They share no variable and *)
(* no step, so a behaviour follows one of them, chosen at the start, while *)
(* the others stand still; fairness is asked of the component it follows.  *)
(***************************************************************************)
EXTENDS StreamListener

CONSTANTS
    Grace, StartLedger, Lookback, PageLimit,   \* Reorg
    ScanWindow, MaxLag, MaxHeight, MaxForks, MaxBacktracks,
    Limits, Addresses, Readers, TTL,           \* MemberCache
    MaxCommits, MaxFaults, Poller, Operator,
    Apis,                                      \* HistoryCache, with the bounds of MemberCache
    Limit, StatsTTL, MaxChanges                \* StatsRoute, with the requests of StreamListener

ASSUME RecoveryAssumption ==
    /\ Grace \in Nat /\ StartLedger \in 0..(MaxHeight + 1) /\ Lookback \in Nat
    /\ PageLimit \in Nat \ {0} /\ ScanWindow \in Nat \ {0} /\ MaxLag \in Nat
    /\ MaxHeight \in Nat \ {0} /\ MaxForks \in Nat /\ MaxBacktracks \in Nat
    /\ TTL \in Nat \ {0} /\ MaxCommits \in Nat /\ MaxFaults \in Nat
    /\ Limit \in Nat /\ StatsTTL \in Nat /\ MaxChanges \in Nat

VARIABLES
    subject,   \* the component this behaviour is about
    chain, forkedAt, log, cursor, halt, pc, at, loaded, page, settled, unchecked, undercut, backtracks,
    members, redis, reader, todo, scanned, commits, faults, told, excused,
    history, tx, rebuilt, shared, local, lookup, redisFaults,
    totals, statsCache, active, query, figures, answer

Alarm == INSTANCE Reorg

Cache == INSTANCE MemberCache WITH db <- members

History == INSTANCE HistoryCache WITH
    db <- history, redis <- shared, request <- lookup, faults <- redisFaults

Stats == INSTANCE StatsRoute WITH db <- totals, request <- query, TTL <- StatsTTL

alarmVars == <<chain, forkedAt, log, cursor, halt, pc, at, loaded, page, settled, unchecked, undercut,
               backtracks>>
cacheVars == <<members, redis, reader, todo, scanned, commits, faults, told, excused>>
historyVars == <<history, tx, rebuilt, shared, local, lookup, redisFaults>>
statsVars == <<totals, statsCache, active, query, figures, answer>>

RecoveryInit ==
    /\ subject \in {"listener", "alarm", "cache", "history", "stats"}
    /\ Init /\ Alarm!Init /\ Cache!Init /\ History!Init /\ Stats!Init

RecoveryNext ==
    /\ \/ subject = "listener" /\ Next /\ UNCHANGED <<alarmVars, cacheVars, historyVars, statsVars>>
       \/ subject = "alarm" /\ Alarm!Next /\ UNCHANGED <<vars, cacheVars, historyVars, statsVars>>
       \/ subject = "cache" /\ Cache!Next /\ UNCHANGED <<vars, alarmVars, historyVars, statsVars>>
       \/ subject = "history" /\ History!Next /\ UNCHANGED <<vars, alarmVars, cacheVars, statsVars>>
       \/ subject = "stats" /\ Stats!Next /\ UNCHANGED <<vars, alarmVars, cacheVars, historyVars>>
    /\ UNCHANGED subject

\* The listener: promises settle and timers fire; no request ever has to come.
\* The worker: its steps go on, its supervisor restarts it, and an operator
\* answers a halt.  The caches: time passes, and requests and folders that
\* began go on.
RecoveryFairness ==
    /\ WF_vars(subject = "listener" /\ ConnectStep) /\ WF_vars(subject = "listener" /\ ConnectOk)
    /\ WF_vars(subject = "listener" /\ EndSettled) /\ WF_vars(subject = "listener" /\ TimerFires)
    /\ WF_vars(subject = "listener" /\ ShutdownEnds)
    /\ WF_alarmVars(subject = "alarm" /\ Alarm!Poll)
    /\ WF_alarmVars(subject = "alarm" /\ Alarm!StartWorker)
    /\ WF_alarmVars(subject = "alarm" /\ Alarm!AnswerHalt)
    /\ WF_cacheVars(subject = "cache" /\ Cache!Tick)
    /\ \A r \in Readers : /\ WF_cacheVars(subject = "cache" /\ Cache!Fetch(r))
                         /\ WF_cacheVars(subject = "cache" /\ Cache!Set(r))
    /\ \A f \in {Poller, Operator} : WF_cacheVars(subject = "cache" /\ Cache!DoJob(f))
    /\ WF_historyVars(subject = "history" /\ History!Tick)
    /\ \A a \in Apis : WF_historyVars(subject = "history" /\ History!RequestStep(a))

RecoverySpec ==
    /\ RecoveryInit
    /\ [][RecoveryNext]_<<vars, alarmVars, cacheVars, historyVars, statsVars, subject>>
    /\ RecoveryFairness

-----------------------------------------------------------------------------
\* The types of the components of this run.
RecoveryTypeOK == TypeOK /\ Alarm!TypeOK /\ Cache!TypeOK /\ History!TypeOK /\ Stats!TypeOK

(***************************************************************************)
(* A false alarm ends: once the chain stands still and agrees with what    *)
(* was folded, the worker, cleared by the operator and restarted by its    *)
(* supervisor, reaches the tip, if no page began behind its token          *)
(* (poller.ts 94-111, 936-1042).                                           *)
(***************************************************************************)
FalseAlarmEnds == Alarm!FalseAlarmEnds

(***************************************************************************)
(* redis.ts, invalidateCache, "stale for up to the TTL, not wrong          *)
(* forever": once the indexer is quiet the cache ends up with nothing but  *)
(* what the database answers, however many deletions were lost or          *)
(* overtaken.                                                              *)
(***************************************************************************)
EventuallyFresh == Cache!EventuallyFresh

(***************************************************************************)
(* Once the indexer is quiet no copy of the history older than the         *)
(* database survives, neither in Redis nor in an API process, although     *)
(* nobody deletes the latter: the hour of expiresAt is what bounds it      *)
(* (history-cache.ts 50-79).                                               *)
(***************************************************************************)
HistorySettles == History!HistorySettles

(***************************************************************************)
(* A request that begins after the first loan was committed never answers  *)
(* an empty history, whatever other requests cached or were caching before *)
(* it (history-cache.ts, set: an empty array is not kept).                 *)
(***************************************************************************)
NeverEmptyAgain == History!NeverEmptyAgain

(***************************************************************************)
(* With the default of one recomputation at a time the cached figures of   *)
(* GET /stats never go back to older ones: no slow query overwrites a      *)
(* later result (routes 1564-1606, load-shedding.ts 12-46).                *)
(***************************************************************************)
CacheNeverGoesBack == Stats!CacheNeverGoesBack
=============================================================================
