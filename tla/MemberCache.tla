---------------------------- MODULE MemberCache ----------------------------
(***************************************************************************)
(* The read-through cache of GET /members and GET /members/:address/       *)
(* summary (src/cache/redis.ts) and the invalidations that the indexer,    *)
(* the replay command and the reindex command send after they commit.      *)
(*                                                                         *)
(* What the database answers for a key is a version number, raised by      *)
(* every committed event that changes it; version 0 of a summary is        *)
(* "member not found", which is cached like any other answer.  A Redis     *)
(* command is one step and may fail, which the callers swallow.            *)
(***************************************************************************)
EXTENDS Naturals, Sequences, FiniteSets

CONSTANTS
    Limits,       \* the ?limit= values in use, one list key each
    Addresses,
    Readers,      \* API requests under way
    Poller, Operator,  \* the processes that commit events
    TTL,          \* MEMBER_CACHE_TTL_SECONDS, in ticks
    MaxCommits,   \* bound on committed events and rebuilds
    MaxFaults     \* bound on failing Redis commands and crashed folders

VARIABLES
    db,         \* the version the database answers with, per key
    redis,      \* the cached entries
    reader,     \* getOrSetCache, per request
    todo,       \* what each folder has left to do after its commit
    scanned,    \* the list keys its SCAN found
    commits, faults

\* History.
VARIABLES
    told,       \* the newest version the stream announced, per key
    excused     \* keys whose entry is stale for a reason the code accepts

vars == <<db, redis, reader, todo, scanned, commits, faults, told, excused>>

Folders == {Poller, Operator}
membersListCacheKey(l) == <<"list", l>>
memberSummaryCacheKey(a) == <<"summary", a>>
ListKeys == {membersListCacheKey(l) : l \in Limits}
Keys == ListKeys \cup {memberSummaryCacheKey(a) : a \in Addresses}

Absent == [value |-> 0, left |-> 0]
Versions == 0..MaxCommits
Entries == [value : Versions, left : 1..TTL]
Idle == [step |-> "idle"]
Lookups == [step : {"miss"}, key : Keys] \cup [step : {"fetched"}, key : Keys, value : Versions]

\* Event symbols that change cached member state, by how they are treated: the
\* members-channel symbols with a `member` field, `exited`, which replay
\* forgets, `name_reg`, whose address is in `owner`, and the loan events that
\* update the borrower's row but belong to other channels.
Symbols == {"joined", "exited", "name_reg", "loan"}
MembersChannel == {"joined", "exited", "name_reg"}
Event == [symbol : Symbols, of : Addresses]
Changes(ev) == ListKeys \cup {memberSummaryCacheKey(ev.of)}

Scan == [op |-> "scan"]
DelList == [op |-> "delList"]
DelSummary(a) == [op |-> "delSummary", key |-> memberSummaryCacheKey(a)]
Notify(v) == [op |-> "notify", versions |-> v]
Ops == {"scan", "delList", "delSummary", "notify"}

TypeOK ==
    /\ db \in [Keys -> Versions] /\ told \in [Keys -> Versions]
    /\ redis \in [Keys -> Entries \cup {Absent}]
    /\ reader \in [Readers -> Lookups \cup {Idle}]
    /\ \A f \in Folders : \A i \in DOMAIN todo[f] : todo[f][i].op \in Ops
    /\ scanned \in [Folders -> SUBSET ListKeys]
    /\ excused \subseteq Keys
    /\ commits \in 0..MaxCommits /\ faults \in 0..MaxFaults

Init ==
    /\ db = [k \in Keys |-> 0] /\ told = [k \in Keys |-> 0]
    /\ redis = [k \in Keys |-> Absent]
    /\ reader = [r \in Readers |-> Idle]
    /\ todo = [f \in Folders |-> <<>>]
    /\ scanned = [f \in Folders |-> {}]
    /\ excused = {}
    /\ commits = 0 /\ faults = 0

-----------------------------------------------------------------------------
\* getOrSetCache.

\* Faulty variant: a hit renews the entry's time to live.
AfterHit_sliding(k) == redis' = [redis EXCEPT ![k].left = TTL]
\* A hit leaves the entry as it is.
AfterHit(k) == redis' = redis

Hit(r, k) ==
    /\ reader[r] = Idle /\ redis[k] # Absent
    /\ AfterHit(k)
    /\ UNCHANGED <<db, reader, todo, scanned, commits, faults, told, excused>>

\* A GET that fails falls through to the database and caches nothing, which
\* changes no state here.
Miss(r, k) ==
    /\ reader[r] = Idle /\ redis[k] = Absent
    /\ reader' = [reader EXCEPT ![r] = [step |-> "miss", key |-> k]]
    /\ UNCHANGED <<db, redis, todo, scanned, commits, faults, told, excused>>

Fetch(r) ==
    /\ reader[r].step = "miss"
    /\ reader' = [reader EXCEPT ![r] =
                     [step |-> "fetched", key |-> reader[r].key, value |-> db[reader[r].key]]]
    /\ UNCHANGED <<db, redis, todo, scanned, commits, faults, told, excused>>

Set(r) ==
    /\ reader[r].step = "fetched"
    /\ LET k == reader[r].key
           v == reader[r].value
       IN /\ redis' = [redis EXCEPT ![k] = [value |-> v, left |-> TTL]]
          /\ excused' = IF v < db[k] THEN excused \cup {k} ELSE excused \ {k}
    /\ reader' = [reader EXCEPT ![r] = Idle]
    /\ UNCHANGED <<db, todo, scanned, commits, faults, told>>

\* A SET that fails is logged; the caller has its value.
SetFails(r) ==
    /\ reader[r].step = "fetched" /\ faults < MaxFaults
    /\ reader' = [reader EXCEPT ![r] = Idle]
    /\ faults' = faults + 1
    /\ UNCHANGED <<db, redis, todo, scanned, commits, told, excused>>

\* Redis drops an entry at the end of its EX.
Aged(e) == IF e.left <= 1 THEN Absent ELSE [e EXCEPT !.left = e.left - 1]

Tick ==
    /\ \E k \in Keys : redis[k] # Absent
    /\ redis' = [k \in Keys |-> Aged(redis[k])]
    /\ excused' = {k \in excused : Aged(redis[k]) # Absent}
    /\ UNCHANGED <<db, reader, todo, scanned, commits, faults, told>>

-----------------------------------------------------------------------------
\* The folders: commit, then invalidate, then announce.

\* Faulty variant: announces the change before the caches are told.
AfterPage_notifyFirst(ev, v) ==
    IF ev.symbol \notin MembersChannel THEN <<Notify(v)>>
    ELSE <<Notify(v), Scan, DelList>>
            \o (IF ev.symbol = "name_reg" THEN <<>> ELSE <<DelSummary(ev.of)>>)
\* invalidateMemberCachesAfterCommit, then notifyStreamClientsAfterCommit.
AfterPage(ev, v) ==
    IF ev.symbol \notin MembersChannel THEN <<Notify(v)>>
    ELSE <<Scan, DelList>>
            \o (IF ev.symbol = "name_reg" THEN <<>> ELSE <<DelSummary(ev.of)>>)
            \o <<Notify(v)>>

\* replayFailedEvent: the list always, the summary for four symbols.
AfterReplay(ev, v) ==
    <<Scan, DelList>>
        \o (IF ev.symbol = "joined" THEN <<DelSummary(ev.of)>> ELSE <<>>)
        \o <<Notify(v)>>

\* reindexFromEventLog: the list only.
AfterReindex(v) == <<Scan, DelList, Notify(v)>>

\* The cached keys that the jobs a folder has left, js, will delete.
WillDelete(f, js) ==
    LET ops == {js[i] : i \in DOMAIN js}
    IN {k \in Keys : \/ k \in ListKeys /\ Scan \in ops
                     \/ DelList \in ops /\ k \in scanned[f]
                     \/ \E a \in Addresses : DelSummary(a) \in ops /\ k = memberSummaryCacheKey(a)}

\* A transaction of folder f commits and changes keys; jobs is what follows it.
Commit(f, keys, jobs) ==
    /\ todo[f] = <<>> /\ commits < MaxCommits
    /\ commits' = commits + 1
    /\ db' = [k \in Keys |-> IF k \in keys THEN db[k] + 1 ELSE db[k]]
    /\ todo' = [todo EXCEPT ![f] = jobs]
    /\ excused' = excused \cup {k \in keys \ WillDelete(f, jobs) : redis[k] # Absent}
    /\ UNCHANGED <<redis, reader, scanned, faults, told>>

\* The version each key has once its event is committed.
Raised(keys) == [k \in Keys |-> IF k \in keys THEN db[k] + 1 ELSE 0]

\* The contract lets only members leave or borrow.
Emitted(ev) == ev.symbol \in {"exited", "loan"} => db[memberSummaryCacheKey(ev.of)] > 0

FoldEvent(ev) == Emitted(ev) /\ Commit(Poller, Changes(ev), AfterPage(ev, Raised(Changes(ev))))
ReplayEvent(ev) == Emitted(ev) /\ Commit(Operator, Changes(ev), AfterReplay(ev, Raised(Changes(ev))))
Reindex == Commit(Operator, Keys, AfterReindex(Raised(Keys)))

\* MEMBERS_LIST_CACHE_KEY_PATTERN.
Matching == ListKeys

Delete(keys) ==
    /\ redis' = [k \in Keys |-> IF k \in keys THEN Absent ELSE redis[k]]
    /\ excused' = excused \ keys
    /\ UNCHANGED <<scanned, told>>

DoJob(f) ==
    /\ todo[f] # <<>>
    /\ todo' = [todo EXCEPT ![f] = Tail(@)]
    /\ LET job == Head(todo[f])
       IN \/ /\ job.op = "scan"
             /\ scanned' = [scanned EXCEPT ![f] = {k \in Matching : redis[k] # Absent}]
             /\ UNCHANGED <<redis, told, excused>>
          \/ job.op = "delList" /\ Delete(scanned[f])
          \/ job.op = "delSummary" /\ Delete({job.key})
          \/ /\ job.op = "notify"
             /\ told' = [k \in Keys |-> IF job.versions[k] > told[k] THEN job.versions[k] ELSE told[k]]
             /\ UNCHANGED <<redis, scanned, excused>>
    /\ UNCHANGED <<db, reader, commits, faults>>

\* The jobs one failing Redis command takes with it: a SCAN its DEL.
Skipped(js) == IF Head(js) = Scan THEN 2 ELSE 1

\* f loses the first n of the jobs it has left.
Lose(f, n) ==
    LET lost == SubSeq(todo[f], 1, n)
    IN /\ faults < MaxFaults /\ faults' = faults + 1
       /\ todo' = [todo EXCEPT ![f] = SubSeq(@, n + 1, Len(@))]
       /\ excused' = excused \cup {k \in WillDelete(f, lost) : redis[k] # Absent}
       /\ UNCHANGED <<db, redis, reader, scanned, commits, told>>

\* Redis is unreachable: invalidateCache and invalidateMembersListCache log it.
JobFails(f) == todo[f] # <<>> /\ Head(todo[f]).op # "notify" /\ Lose(f, Skipped(todo[f]))

\* The process exits between its commit and the end of its jobs.
Crash(f) == todo[f] # <<>> /\ Lose(f, Len(todo[f]))

Next ==
    \/ \E r \in Readers, k \in Keys : Hit(r, k) \/ Miss(r, k)
    \/ \E r \in Readers : Fetch(r) \/ Set(r) \/ SetFails(r)
    \/ Tick
    \/ \E ev \in Event : FoldEvent(ev) \/ ReplayEvent(ev)
    \/ Reindex
    \/ \E f \in Folders : DoJob(f) \/ JobFails(f) \/ Crash(f)

Spec == Init /\ [][Next]_vars

-----------------------------------------------------------------------------
Stale(k) == redis[k] # Absent /\ redis[k].value < db[k]

(***************************************************************************)
(* Once the stream announced a change of member state, no list at any      *)
(* limit and no summary older than the announced version is in the cache,  *)
(* so a browser that refetches on the announcement reads what it was told  *)
(* of.  Excused are the entries a slow request wrote over the deletion,    *)
(* those whose deletion failed or died with its process, and the keys the  *)
(* event's invalidation does not name.                                     *)
(***************************************************************************)
ToldIsFresh ==
    \A k \in Keys : redis[k] # Absent /\ redis[k].value < told[k] => k \in excused

(***************************************************************************)
(* "Stale for up to the TTL, not wrong forever" (invalidateCache): once    *)
(* the indexer is quiet the cache ends up with nothing but what the        *)
(* database answers, however many deletions were lost or overtaken.        *)
(***************************************************************************)
EventuallyFresh == <>[](\A k \in Keys : ~Stale(k))
=============================================================================
