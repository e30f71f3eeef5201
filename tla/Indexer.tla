------------------------------ MODULE Indexer ------------------------------
(***************************************************************************)
(* The indexer worker (src/indexer/poller.ts) and everything else that     *)
(* folds events or keeps the books on them: replay (src/indexer/replay.ts),*)
(* reindex (src/indexer/reindex.ts), the admin batch-resolve route, the    *)
(* failed_events retention sweep and the reset on a contract change.       *)
(*                                                                         *)
(* An event is a pair <<c, i>>: the i-th event contract c emitted.  What a *)
(* handler writes is abstracted to how often the event's effect is in the  *)
(* derived tables (derived[e]): a vote tally or a balance is right exactly *)
(* when every event is in it once.  A step of this module is what the code *)
(* does between two awaits that another session could observe: the raw     *)
(* insert, a transaction's reads, its commit, the failed_events upsert and *)
(* the cursor write are separate, and a process may die between any two.   *)
(*                                                                         *)
(* The chain is append-only here; forks and rewinds are out of this module.*)
(***************************************************************************)
EXTENDS Naturals, FiniteSets

CONSTANTS
    Contracts,              \* the deployments the worker may be configured with
    Length,                 \* how many events a contract emits at most
    PageLimit,              \* config.indexer.pageLimit
    Threshold,              \* config.indexer.quarantineAfterFailures
    ResetOnContractChange,  \* config.indexer.resetOnContractChange
    Workers,                \* worker processes (one, or two during a handoff)
    Operators,              \* processes that run replay or reindex
    Tools,                  \* what operators do: a subset of AllTools
    Poison,                 \* events the first release's handlers throw on
    MaxFaults,              \* bound on transient database and RPC errors
    MaxExits                \* bound on worker exits (crash or shutdown)

AllTools == {"replay", "reindex", "resolve", "repoint"}
Positions == 0..Length
Events == Contracts \X (1..Length)

ASSUME ConstantsAssumption ==
    /\ Contracts # {}
    /\ Length \in Nat
    /\ PageLimit \in Nat \ {0}
    /\ Threshold \in Nat \ {0}
    /\ ResetOnContractChange \in BOOLEAN
    /\ Workers \cap Operators = {}
    /\ Tools \subseteq AllTools
    /\ Poison \subseteq Events
    /\ MaxFaults \in Nat
    /\ MaxExits \in Nat

VARIABLES
    \* the chain and the release
    head,       \* head[c]: how many events contract c has emitted
    broken,     \* events the deployed handlers throw on
    config,     \* config.stellar.contractIds: the contracts to tail
    \* the database
    cursor,     \* indexer_cursor.paging_token, 0 when there is no row
    rows,       \* contracts with a row in indexer_cursor
    raw,        \* ids in the events table
    folded,     \* ids whose events.folded_at is set
    derived,    \* how often an event's effect is in the derived tables
    failed,     \* failed_events: no row, an open one, or a resolved one
    quarantine, \* quarantine_state, by contract
    lock,       \* sessions holding the advisory lock REINDEX_LOCK_KEY
    \* the worker processes and the operators' sessions
    step,       \* where a worker is in its loop and its fetchOnce call
    at,         \* the contract of the call
    pos,        \* the call's current token: the page starts behind it
    last,       \* the page's last event; equal to pos when the page is empty
    next,       \* per-event mode: the event in hand
    err,        \* the error the whole-page transaction ended with
    todo,       \* the events the open transaction found with folded_at NULL
    memory,     \* quarantineStates, by worker and contract
    loaded,     \* quarantineStatesLoaded, by worker
    session,    \* what an operator's process is running
    \* bounds
    faults,     \* transient errors so far
    exits,      \* worker exits so far
    \* history, no code reads it
    dismissed,  \* events an admin resolved without folding them
    lost,       \* events whose failed_events upsert failed: a log line only
    rebuilt     \* events a reindex applied while their folded_at was NULL

chainVars == <<head, broken, config>>
dbVars == <<cursor, rows, raw, folded, derived, failed, quarantine, lock>>
locals == <<at, pos, last, next, err, todo>>
processVars == <<step, locals, memory, loaded, session>>
boundVars == <<faults, exits>>
historyVars == <<dismissed, lost, rebuilt>>
vars == <<chainVars, dbVars, processVars, boundVars, historyVars>>

-----------------------------------------------------------------------------
(***************************************************************************)
(* Values.                                                                 *)
(***************************************************************************)

\* What a failed page reports: the handler's error on event i, the lock being
\* held, or a database error.  Two errors have equal messages iff these are equal.
HandlerError(i) == [kind |-> "handler", at |-> i]
LockError == [kind |-> "lock", at |-> 0]
DbError == [kind |-> "db", at |-> 0]
Errors == [kind : {"handler", "lock", "db"}, at : Positions]

\* QuarantineState: the page (its first and last event), the error, the count.
\* The count saturates at Threshold: the code only compares it with that.
QuarantineState == [first : 0..(Length + 1), last : Positions, err : Errors,
                    failures : 0..Threshold]
NoQuarantine == [first |-> 0, last |-> 0, err |-> DbError, failures |-> 0]

Steps == {"down", "idle", "fetch", "load", "page", "txn", "failed", "each",
          "fold", "record", "clear", "save"}
AnyContract == CHOOSE c \in Contracts : TRUE
\* An operator's process: idle, replaying one event, or rebuilding.
NoSession == [kind |-> "none", ev |-> {}]
ReplayOf(e) == [kind |-> "replay", ev |-> {e}]
Rebuild == [kind |-> "reindex", ev |-> {}]
Session == [kind : {"none", "replay", "reindex"}, ev : SUBSET Events]

TypeOK ==
    /\ head \in [Contracts -> Positions]
    /\ broken \subseteq Events
    /\ config \in SUBSET Contracts
    /\ cursor \in [Contracts -> Positions]
    /\ rows \subseteq Contracts
    /\ raw \subseteq Events
    /\ folded \subseteq Events
    /\ derived \in [Events -> Nat]
    /\ failed \in [Events -> {"none", "open", "resolved"}]
    /\ quarantine \in [Contracts -> QuarantineState]
    /\ lock \subseteq Workers \cup Operators
    /\ step \in [Workers -> Steps]
    /\ at \in [Workers -> Contracts]
    /\ pos \in [Workers -> Positions]
    /\ last \in [Workers -> Positions]
    /\ next \in [Workers -> 1..(Length + 1)]
    /\ err \in [Workers -> Errors]
    /\ todo \in [Workers -> SUBSET Events]
    /\ memory \in [Workers -> [Contracts -> QuarantineState]]
    /\ loaded \in [Workers -> SUBSET Contracts]
    /\ session \in [Operators -> Session]
    /\ faults \in Nat
    /\ exits \in Nat
    /\ dismissed \subseteq Events
    /\ lost \subseteq Events
    /\ rebuilt \subseteq Events

\* The events of contract c with index in a..b.
Span(c, a, b) == {<<c, i>> : i \in a..b}
Page(w) == Span(at[w], pos[w] + 1, last[w])
AtStep(w, s) == step[w] = s
Current(w) == <<at[w], next[w]>>

\* An environment fault: some statement or RPC call of this step fails.
Fault == faults < MaxFaults /\ faults' = faults + 1
NoFault == UNCHANGED faults

Moved(w, s) == step' = [step EXCEPT ![w] = s]
Goto(w, s) == Moved(w, s) /\ UNCHANGED locals
\* The call's locals go out of scope.
Drop(w) ==
    /\ at' = [at EXCEPT ![w] = AnyContract]
    /\ pos' = [pos EXCEPT ![w] = 0]
    /\ last' = [last EXCEPT ![w] = 0]
    /\ next' = [next EXCEPT ![w] = 1]
    /\ err' = [err EXCEPT ![w] = DbError]
    /\ todo' = [todo EXCEPT ![w] = {}]
\* fetchOnce returns or throws: runIndexer polls again after its delay or backoff.
EndPoll(w) == Moved(w, "idle") /\ Drop(w)
\* The event in hand is dealt with, on to the next one of the page.
Advance(w) ==
    /\ Moved(w, "each")
    /\ next' = [next EXCEPT ![w] = @ + 1]
    /\ UNCHANGED <<at, pos, last, err, todo>>
\* The per-event loop starts at the page's first event.
EnterPerEvent(w) ==
    /\ Moved(w, "each")
    /\ next' = [next EXCEPT ![w] = pos[w] + 1]
    /\ todo' = [todo EXCEPT ![w] = {}]
    /\ UNCHANGED <<at, pos, last, err>>
\* The drain loop requests the page behind this one.
ContinueDrain(w) ==
    /\ Moved(w, "fetch")
    /\ pos' = [pos EXCEPT ![w] = last[w]]
    /\ last' = [last EXCEPT ![w] = 0]
    /\ next' = [next EXCEPT ![w] = 1]
    /\ err' = [err EXCEPT ![w] = DbError]
    /\ todo' = [todo EXCEPT ![w] = {}]
    /\ UNCHANGED at
\* The whole-page transaction threw e.
Raise(w, e) ==
    /\ Moved(w, "failed")
    /\ err' = [err EXCEPT ![w] = e]
    /\ UNCHANGED <<at, pos, last, next, todo>>

LockFree == lock = {}
\* Faulty variant: the lock is taken without asking whether it is free.
AcquireUnasked(s) == lock' = lock \cup {s}
\* pg_try_advisory_lock answering true, and pg_advisory_unlock.
Acquire(s) == LockFree /\ lock' = lock \cup {s}
Release(s) == lock' = lock \ {s}

-----------------------------------------------------------------------------
(***************************************************************************)
(* The chain, releases and configuration.                                  *)
(***************************************************************************)

\* Contract c emits its next event.
Emit(c) ==
    /\ head[c] < Length
    /\ head' = [head EXCEPT ![c] = @ + 1]
    /\ UNCHANGED <<broken, config, dbVars, processVars, boundVars, historyVars>>

AllStopped ==
    /\ \A w \in Workers : AtStep(w, "down")
    /\ \A o \in Operators : session[o] = NoSession

\* A release with repaired handlers replaces every process's code.
ShipFix ==
    /\ AllStopped
    /\ broken # {}
    /\ broken' = {}
    /\ UNCHANGED <<head, config, dbVars, processVars, boundVars, historyVars>>

\* CONTRACT_ID(S) is changed while the worker is stopped.
Repoint ==
    /\ "repoint" \in Tools
    /\ AllStopped
    /\ config' \in (SUBSET Contracts) \ {{}, config}
    /\ UNCHANGED <<head, broken, dbVars, processVars, boundVars, historyVars>>

-----------------------------------------------------------------------------
(***************************************************************************)
(* The worker: runIndexer, fetchOnce and the drain loop.                   *)
(***************************************************************************)

\* ensureCursorContract: rows of contracts that are no longer configured.
StaleRows == rows \ config

\* runIndexer's start-up when the cursor rows match the configuration.
Start(w) ==
    /\ AtStep(w, "down")
    /\ StaleRows = {}
    /\ EndPoll(w)
    /\ UNCHANGED <<chainVars, dbVars, memory, loaded, session, boundVars, historyVars>>

\* Faulty variant: a reset that also truncates the raw log but keeps the cursor.
ResetKeepsCursor(w) ==
    /\ AtStep(w, "down")
    /\ StaleRows # {} /\ ResetOnContractChange /\ LockFree
    /\ derived' = [e \in Events |-> 0]
    /\ raw' = {}
    /\ EndPoll(w)
    /\ UNCHANGED <<chainVars, cursor, rows, folded, failed, quarantine, lock, memory,
                   loaded, session, boundVars, historyVars>>

\* Start-up through resetForContractChange: one transaction truncates the
\* derived tables, zeroes dao_totals and deletes every cursor row.  The raw log
\* and its folded_at column stay.  Without the flag, or with the lock held, the
\* start throws and the process is still down.
StartWithReset(w) ==
    /\ AtStep(w, "down")
    /\ StaleRows # {}
    /\ ResetOnContractChange
    /\ LockFree
    /\ derived' = [e \in Events |-> 0]
    /\ rows' = {}
    /\ cursor' = [c \in Contracts |-> 0]
    /\ EndPoll(w)
    /\ UNCHANGED <<chainVars, raw, folded, failed, quarantine, lock, memory, loaded,
                   session, boundVars, historyVars>>

\* The process ends at any point: a crash, or SIGTERM between two pages (or, past
\* the ten seconds of worker.ts, anywhere).  Its open transaction rolls back, its
\* session lock goes with the connection, its in-memory quarantine state is gone.
Exit(w) ==
    /\ ~AtStep(w, "down")
    /\ exits < MaxExits
    /\ exits' = exits + 1
    /\ Moved(w, "down")
    /\ Drop(w)
    /\ memory' = [memory EXCEPT ![w] = [c \in Contracts |-> NoQuarantine]]
    /\ loaded' = [loaded EXCEPT ![w] = {}]
    /\ Release(w)
    /\ UNCHANGED <<chainVars, cursor, rows, raw, folded, derived, failed, quarantine,
                   session, faults, historyVars>>

\* fetchOnce(contractId) reads the cursor; no row means a cold start.
LoadCursor(w, c) ==
    /\ AtStep(w, "idle")
    /\ c \in config
    /\ Moved(w, "fetch")
    /\ at' = [at EXCEPT ![w] = c]
    /\ pos' = [pos EXCEPT ![w] = cursor[c]]
    /\ UNCHANGED <<last, next, err, todo>>
    /\ UNCHANGED <<chainVars, dbVars, memory, loaded, session, boundVars, historyVars>>

\* Faulty variant: a page is taken to be full whatever the chain holds.
FetchFullPage(w) ==
    /\ AtStep(w, "fetch")
    /\ last' = [last EXCEPT ![w] = pos[w] + PageLimit]
    /\ Moved(w, "load")
    /\ UNCHANGED <<at, pos, next, err, todo>>
    /\ UNCHANGED <<chainVars, dbVars, memory, loaded, session, boundVars, historyVars>>

\* server.getEvents from the current token: at most PageLimit events, fewer at
\* the tail of the chain.
FetchPage(w) ==
    /\ AtStep(w, "fetch")
    /\ LET limit == pos[w] + PageLimit
           tip == head[at[w]]
       IN last' = [last EXCEPT ![w] = IF limit < tip THEN limit ELSE tip]
    /\ Moved(w, IF at[w] \in loaded[w] THEN "page" ELSE "load")
    /\ UNCHANGED <<at, pos, next, err, todo>>
    /\ UNCHANGED <<chainVars, dbVars, memory, loaded, session, boundVars, historyVars>>

\* getEvents rejects; fetchOnce lets it through.
FetchFails(w) ==
    /\ AtStep(w, "fetch")
    /\ Fault
    /\ EndPoll(w)
    /\ UNCHANGED <<chainVars, dbVars, memory, loaded, session, exits, historyVars>>

\* First use of a contract in this process: loadQuarantineState, which answers
\* null when its SELECT fails, and counts as loaded all the same.
LoadQuarantineState(w) ==
    /\ AtStep(w, "load")
    /\ LET c == at[w]
       IN /\ \/ memory' = [memory EXCEPT ![w][c] = quarantine[c]] /\ NoFault
             \/ memory' = [memory EXCEPT ![w][c] = NoQuarantine] /\ Fault
          /\ loaded' = [loaded EXCEPT ![w] = @ \cup {c}]
    /\ Goto(w, "page")
    /\ UNCHANGED <<chainVars, dbVars, session, exits, historyVars>>

-----------------------------------------------------------------------------
(***************************************************************************)
(* ingestPage: the whole page in one transaction, under the advisory lock. *)
(***************************************************************************)

\* An empty page returns before the lock is tried.
SkipEmptyPage(w) ==
    /\ AtStep(w, "page")
    /\ last[w] <= pos[w]
    /\ Goto(w, "clear")
    /\ UNCHANGED <<chainVars, dbVars, memory, loaded, session, boundVars, historyVars>>

\* Faulty variant: every event of the page is folded, whatever folded_at says.
BeginPageRefolding(w) ==
    /\ AtStep(w, "page")
    /\ pos[w] < last[w]
    /\ Acquire(w)
    /\ Moved(w, "txn")
    /\ todo' = [todo EXCEPT ![w] = Page(w)]
    /\ UNCHANGED <<at, pos, last, next, err>>
    /\ UNCHANGED <<chainVars, cursor, rows, raw, folded, derived, failed, quarantine,
                   memory, loaded, session, boundVars, historyVars>>

\* Lock, BEGIN, and insertRawEvent's answers: which rows have folded_at NULL.
BeginPage(w) ==
    /\ AtStep(w, "page")
    /\ pos[w] < last[w]
    /\ Acquire(w)
    /\ Moved(w, "txn")
    /\ todo' = [todo EXCEPT ![w] = Page(w) \ folded]
    /\ UNCHANGED <<at, pos, last, next, err>>
    /\ UNCHANGED <<chainVars, cursor, rows, raw, folded, derived, failed, quarantine,
                   memory, loaded, session, boundVars, historyVars>>

\* Faulty variant: a page that met the lock is treated like an empty one.
PageLockedSkips(w) ==
    /\ AtStep(w, "page")
    /\ pos[w] < last[w]
    /\ ~LockFree
    /\ Goto(w, "clear")
    /\ UNCHANGED <<chainVars, dbVars, memory, loaded, session, boundVars, historyVars>>

\* The lock is held: ingestPage throws, and the page counts as failed.
PageLocked(w) ==
    /\ AtStep(w, "page")
    /\ pos[w] < last[w]
    /\ ~LockFree
    /\ Raise(w, LockError)
    /\ UNCHANGED <<chainVars, dbVars, memory, loaded, session, boundVars, historyVars>>

\* applyEvent and markFolded on every event that needs it, COMMIT, unlock.  When the
\* connection dies before the COMMIT is acknowledged the page has been folded and
\* counts as failed all the same.
CommitPage(w) ==
    /\ AtStep(w, "txn")
    /\ todo[w] \cap broken = {}
    /\ raw' = raw \cup Page(w)
    /\ folded' = folded \cup todo[w]
    /\ derived' = [e \in Events |-> IF e \in todo[w] THEN derived[e] + 1 ELSE derived[e]]
    /\ Release(w)
    /\ \/ Goto(w, "clear") /\ NoFault
       \/ Raise(w, DbError) /\ Fault
    /\ UNCHANGED <<chainVars, cursor, rows, failed, quarantine, memory, loaded, session,
                   exits, historyVars>>

\* The first event whose handler throws decides the page's error; a database
\* error can come before it.  ROLLBACK, unlock.
RollbackPage(w) ==
    /\ AtStep(w, "txn")
    /\ \/ /\ \E i \in 1..Length :
               /\ <<at[w], i>> \in todo[w] \cap broken
               /\ \A j \in 1..(i - 1) : <<at[w], j>> \notin todo[w] \cap broken
               /\ Raise(w, HandlerError(i))
          /\ NoFault
       \/ /\ Raise(w, DbError)
          /\ Fault
    /\ Release(w)
    /\ UNCHANGED <<chainVars, cursor, rows, raw, folded, derived, failed, quarantine,
                   memory, loaded, session, exits, historyVars>>

-----------------------------------------------------------------------------
(***************************************************************************)
(* ingestPageWithQuarantine: counting failures, then one event at a time.  *)
(***************************************************************************)

\* persistQuarantineState is best effort: a failing write is logged only.  (The
\* second write on escalation stores the same state, and adds the alert's time.)
Persist(c, state) ==
    \/ quarantine' = [quarantine EXCEPT ![c] = state] /\ NoFault
    \/ UNCHANGED quarantine /\ Fault

\* Faulty variant: every failure starts the count again.
AfterFailureForgets(w) ==
    [first |-> pos[w] + 1, last |-> last[w], err |-> err[w], failures |-> 1]

\* The state after one more failure of the page: the same page with the same
\* error counts up, anything else starts again at 1.
AfterFailure(w) ==
    LET state == memory[w][at[w]]
        same == /\ state.failures > 0
                /\ state.first = pos[w] + 1 /\ state.last = last[w]
                /\ state.err = err[w]
        count == IF same THEN state.failures + 1 ELSE 1
    IN [first |-> pos[w] + 1, last |-> last[w], err |-> err[w],
        failures |-> IF count < Threshold THEN count ELSE Threshold]

\* Below the threshold the error goes on to runIndexer's backoff; at it the page
\* is taken one event per transaction.
CountFailure(w) ==
    /\ AtStep(w, "failed")
    /\ memory' = [memory EXCEPT ![w][at[w]] = AfterFailure(w)]
    /\ Persist(at[w], AfterFailure(w))
    /\ IF AfterFailure(w).failures < Threshold
       THEN EndPoll(w)
       ELSE EnterPerEvent(w)
    /\ UNCHANGED <<chainVars, cursor, rows, raw, folded, derived, failed, lock, loaded,
                   session, exits, historyVars>>

\* Faulty variant: the raw insert is part of the fold's transaction.
BeginEventInTransaction(w) ==
    /\ AtStep(w, "each")
    /\ next[w] <= last[w]
    /\ Current(w) \notin folded
    /\ Goto(w, "fold")
    /\ Acquire(w)
    /\ UNCHANGED <<chainVars, cursor, rows, raw, folded, derived, failed, quarantine,
                   memory, loaded, session, boundVars, historyVars>>

\* ingestEventQuarantined: lock, then the raw insert, which commits by itself.
\* An event folded earlier is left alone and the lock returned.
BeginEvent(w) ==
    /\ AtStep(w, "each")
    /\ next[w] <= last[w]
    /\ LockFree
    /\ raw' = raw \cup {Current(w)}
    /\ IF Current(w) \in folded
       THEN Advance(w) /\ UNCHANGED lock
       ELSE Goto(w, "fold") /\ Acquire(w)
    /\ UNCHANGED <<chainVars, cursor, rows, folded, derived, failed, quarantine,
                   memory, loaded, session, boundVars, historyVars>>

\* Faulty variant: an event that meets the lock is passed over.
EventRefusedSkips(w) ==
    /\ AtStep(w, "each")
    /\ next[w] <= last[w]
    /\ ~LockFree
    /\ Advance(w)
    /\ UNCHANGED <<chainVars, dbVars, memory, loaded, session, boundVars, historyVars>>

\* The lock is held, or the raw insert fails: the error leaves the loop, and the
\* events after this one wait for the next poll.
EventRefused(w) ==
    /\ AtStep(w, "each")
    /\ next[w] <= last[w]
    /\ \/ ~LockFree /\ NoFault
       \/ Fault
    /\ EndPoll(w)
    /\ UNCHANGED <<chainVars, dbVars, memory, loaded, session, exits, historyVars>>

\* applyEvent, markFolded, COMMIT, unlock.  When the acknowledgement is lost with
\* the connection, the catch block's ROLLBACK throws and leaves the loop.
CommitEvent(w) ==
    LET e == Current(w)
    IN /\ AtStep(w, "fold")
       /\ e \notin broken
       /\ folded' = folded \cup {e}
       /\ derived' = [derived EXCEPT ![e] = @ + 1]
       /\ Release(w)
       /\ \/ Advance(w) /\ NoFault
          \/ EndPoll(w) /\ Fault
       /\ UNCHANGED <<chainVars, cursor, rows, raw, failed, quarantine, memory, loaded,
                      session, exits, historyVars>>

\* The handler throws, or the database does: ROLLBACK, then the bookkeeping,
\* still under the lock.
RollbackEvent(w) ==
    /\ AtStep(w, "fold")
    /\ \/ Current(w) \in broken /\ NoFault
       \/ Fault
    /\ Goto(w, "record")
    /\ UNCHANGED <<chainVars, dbVars, memory, loaded, session, exits, historyVars>>

\* The connection is gone, so the ROLLBACK throws too and leaves the loop.
ConnectionLost(w) ==
    /\ AtStep(w, "fold")
    /\ Fault
    /\ EndPoll(w)
    /\ Release(w)
    /\ UNCHANGED <<chainVars, cursor, rows, raw, folded, derived, failed, quarantine,
                   memory, loaded, session, exits, historyVars>>

\* recordQuarantinedEvent: an open row, reopening one that was resolved.  When
\* the upsert fails the error is logged and the loop goes on.
RecordEvent(w) ==
    /\ AtStep(w, "record")
    /\ \/ /\ failed' = [failed EXCEPT ![Current(w)] = "open"]
          /\ NoFault
          /\ UNCHANGED lost
       \/ /\ lost' = lost \cup {Current(w)}
          /\ Fault
          /\ UNCHANGED failed
    /\ Release(w)
    /\ Advance(w)
    /\ UNCHANGED <<chainVars, cursor, rows, raw, folded, derived, quarantine, memory,
                   loaded, session, exits, dismissed, rebuilt>>

\* The page is through, on either path: forget the failure count.
ClearQuarantine(w) ==
    /\ \/ AtStep(w, "clear")
       \/ AtStep(w, "each") /\ next[w] > last[w]
    /\ memory' = [memory EXCEPT ![w][at[w]] = NoQuarantine]
    /\ Persist(at[w], NoQuarantine)
    /\ Goto(w, "save")
    /\ UNCHANGED <<chainVars, cursor, rows, raw, folded, derived, failed, lock, loaded,
                   session, exits, historyVars>>

\* saveCursor to the page's last event, outside any lock.  After a full page the
\* drain goes on unless a cap or the abort signal stops it.
SaveCursor(w) ==
    /\ AtStep(w, "save")
    /\ cursor' = [cursor EXCEPT ![at[w]] = last[w]]
    /\ rows' = rows \cup {at[w]}
    /\ \/ EndPoll(w)
       \/ /\ last[w] >= pos[w] + PageLimit
          /\ ContinueDrain(w)
    /\ UNCHANGED <<chainVars, raw, folded, derived, failed, quarantine, lock, memory,
                   loaded, session, boundVars, historyVars>>

\* An empty page that moved nothing touches updated_at only.
TouchCursor(w) ==
    /\ AtStep(w, "save")
    /\ last[w] = pos[w]
    /\ at[w] \in rows
    /\ EndPoll(w)
    /\ UNCHANGED <<chainVars, dbVars, memory, loaded, session, boundVars, historyVars>>

\* The cursor write, or getLedgerHash before it, fails after the fold committed; the
\* page will come again.
SaveCursorFails(w) ==
    /\ AtStep(w, "save")
    /\ Fault
    /\ EndPoll(w)
    /\ UNCHANGED <<chainVars, dbVars, memory, loaded, session, exits, historyVars>>

-----------------------------------------------------------------------------
(***************************************************************************)
(* Operators: replay, reindex, batch-resolve and the retention sweep.      *)
(***************************************************************************)

\* replayFailedEvent up to its reads.  Nothing open for e, no raw row, or the
\* lock held: it returns or throws and changes nothing.  An event folded in the
\* meantime only has its row resolved.
BeginReplay(o, e) ==
    /\ "replay" \in Tools
    /\ session[o] = NoSession
    /\ LockFree
    /\ failed[e] = "open"
    /\ e \in raw
    /\ IF e \in folded
       THEN failed' = [failed EXCEPT ![e] = "resolved"] /\ UNCHANGED <<lock, session>>
       ELSE /\ Acquire(o)
            /\ session' = [session EXCEPT ![o] = ReplayOf(e)]
            /\ UNCHANGED failed
    /\ UNCHANGED <<chainVars, cursor, rows, raw, folded, derived, quarantine, step, locals, memory,
                   loaded, boundVars, historyVars>>

EndSession(o) == session' = [session EXCEPT ![o] = NoSession] /\ Release(o)

\* applyEvent, markFolded and the row's resolution in one transaction.
CommitReplay(o) ==
    /\ session[o].kind = "replay"
    /\ \E e \in session[o].ev :
          /\ e \notin broken
          /\ folded' = folded \cup {e}
          /\ derived' = [derived EXCEPT ![e] = @ + 1]
          /\ failed' = [failed EXCEPT ![e] = IF @ = "open" THEN "resolved" ELSE @]
    /\ EndSession(o)
    /\ UNCHANGED <<chainVars, cursor, rows, raw, quarantine, step, locals, memory, loaded,
                   boundVars, historyVars>>

\* reindexFromEventLog takes the lock and opens its transaction.
BeginReindex(o) ==
    /\ "reindex" \in Tools
    /\ session[o] = NoSession
    /\ Acquire(o)
    /\ session' = [session EXCEPT ![o] = Rebuild]
    /\ UNCHANGED <<chainVars, cursor, rows, raw, folded, derived, failed, quarantine, step, locals,
                   memory, loaded, boundVars, historyVars>>

\* Faulty variants: a rebuild that applies only what is not folded yet, and one
\* that forgets to truncate.
CommitReindexUnfolded(o) ==
    /\ session[o].kind = "reindex"
    /\ raw \cap broken = {}
    /\ derived' = [e \in Events |-> IF e \in raw \ folded THEN 1 ELSE 0]
    /\ failed' = [e \in Events |-> IF failed[e] = "open" THEN "resolved" ELSE failed[e]]
    /\ rebuilt' = rebuilt \cup (raw \ folded)
    /\ EndSession(o)
    /\ UNCHANGED <<chainVars, cursor, rows, raw, folded, quarantine, step, locals, memory, loaded,
                   boundVars, dismissed, lost>>
CommitReindexOnTop(o) ==
    /\ session[o].kind = "reindex"
    /\ raw \cap broken = {}
    /\ derived' = [e \in Events |-> IF e \in raw THEN derived[e] + 1 ELSE derived[e]]
    /\ failed' = [e \in Events |-> IF failed[e] = "open" THEN "resolved" ELSE failed[e]]
    /\ rebuilt' = rebuilt \cup (raw \ folded)
    /\ EndSession(o)
    /\ UNCHANGED <<chainVars, cursor, rows, raw, folded, quarantine, step, locals, memory, loaded,
                   boundVars, dismissed, lost>>

\* Truncate, apply every raw event once, resolve every open row.  folded_at and
\* the cursor rows are not written.
CommitReindex(o) ==
    /\ session[o].kind = "reindex"
    /\ raw \cap broken = {}
    /\ derived' = [e \in Events |-> IF e \in raw THEN 1 ELSE 0]
    /\ failed' = [e \in Events |-> IF failed[e] = "open" THEN "resolved" ELSE failed[e]]
    /\ rebuilt' = rebuilt \cup (raw \ folded)
    /\ EndSession(o)
    /\ UNCHANGED <<chainVars, cursor, rows, raw, folded, quarantine, step, locals, memory, loaded,
                   boundVars, dismissed, lost>>

\* The handler throws, the database does, or the process dies: ROLLBACK.
AbortSession(o) ==
    /\ session[o] # NoSession
    /\ LET applied == IF session[o].kind = "replay" THEN session[o].ev ELSE raw
       IN \/ applied \cap broken # {} /\ NoFault
          \/ Fault
    /\ EndSession(o)
    /\ UNCHANGED <<chainVars, cursor, rows, raw, folded, derived, failed, quarantine, step, locals,
                   memory, loaded, exits, historyVars>>

\* POST /admin/failed-events/batch-resolve: no lock, no fold.
BatchResolve(ids) ==
    /\ "resolve" \in Tools
    /\ \E e \in ids : failed[e] = "open"
    /\ failed' = [e \in Events |-> IF e \in ids /\ failed[e] = "open" THEN "resolved"
                                   ELSE failed[e]]
    /\ dismissed' = dismissed \cup {e \in ids : failed[e] = "open"}
    /\ UNCHANGED <<chainVars, cursor, rows, raw, folded, derived, quarantine, lock,
                   processVars, boundVars, lost, rebuilt>>

\* delete_expired_failed_events: resolved rows past their retention.
CleanupExpired(ids) ==
    /\ \E e \in ids : failed[e] = "resolved"
    /\ failed' = [e \in Events |-> IF e \in ids /\ failed[e] = "resolved" THEN "none"
                                   ELSE failed[e]]
    /\ UNCHANGED <<chainVars, cursor, rows, raw, folded, derived, quarantine, lock,
                   processVars, boundVars, historyVars>>

-----------------------------------------------------------------------------
Init ==
    /\ head = [c \in Contracts |-> 0]
    /\ broken = Poison
    /\ config = Contracts
    /\ cursor = [c \in Contracts |-> 0]
    /\ rows = {}
    /\ raw = {}
    /\ folded = {}
    /\ derived = [e \in Events |-> 0]
    /\ failed = [e \in Events |-> "none"]
    /\ quarantine = [c \in Contracts |-> NoQuarantine]
    /\ lock = {}
    /\ step = [w \in Workers |-> "down"]
    /\ at = [w \in Workers |-> AnyContract]
    /\ pos = [w \in Workers |-> 0]
    /\ last = [w \in Workers |-> 0]
    /\ next = [w \in Workers |-> 1]
    /\ err = [w \in Workers |-> DbError]
    /\ todo = [w \in Workers |-> {}]
    /\ memory = [w \in Workers |-> [c \in Contracts |-> NoQuarantine]]
    /\ loaded = [w \in Workers |-> {}]
    /\ session = [o \in Operators |-> NoSession]
    /\ faults = 0
    /\ exits = 0
    /\ dismissed = {}
    /\ lost = {}
    /\ rebuilt = {}

\* What runs inside the worker process once it is up.
PollStep(w) ==
    \/ \E c \in Contracts : LoadCursor(w, c)
    \/ FetchPage(w) \/ FetchFails(w) \/ LoadQuarantineState(w)
    \/ SkipEmptyPage(w) \/ BeginPage(w) \/ PageLocked(w) \/ CommitPage(w) \/ RollbackPage(w)
    \/ CountFailure(w) \/ BeginEvent(w) \/ EventRefused(w) \/ CommitEvent(w)
    \/ RollbackEvent(w) \/ ConnectionLost(w) \/ RecordEvent(w) \/ ClearQuarantine(w)
    \/ SaveCursor(w) \/ TouchCursor(w) \/ SaveCursorFails(w)

WorkerStep(w) == Start(w) \/ StartWithReset(w) \/ Exit(w) \/ PollStep(w)

OperatorStep(o) ==
    \/ \E e \in Events : BeginReplay(o, e)
    \/ CommitReplay(o) \/ BeginReindex(o) \/ CommitReindex(o) \/ AbortSession(o)

Next ==
    \/ \E c \in Contracts : Emit(c)
    \/ ShipFix
    \/ Repoint
    \/ \E w \in Workers : WorkerStep(w)
    \/ \E o \in Operators : OperatorStep(o)
    \/ \E ids \in SUBSET Events : BatchResolve(ids) \/ CleanupExpired(ids)

Spec == Init /\ [][Next]_vars

\* A running worker keeps taking steps, a supervisor restarts one that exited, and
\* runIndexer's loop over contractIds comes round to every contract: polls of
\* the others do not put one off forever.
FairSpec ==
    /\ Spec
    /\ \A w \in Workers : WF_vars(Start(w)) /\ WF_vars(PollStep(w))
    /\ \A w \in Workers, c \in Contracts : SF_vars(LoadCursor(w, c))

-----------------------------------------------------------------------------
(***************************************************************************)
(* Properties.                                                             *)
(***************************************************************************)

Behind(c) == Span(c, 1, cursor[c])

\* What became of an event is known: its effect is in the derived tables, an open
\* failed_events row names it, an admin dismissed it, or the log says it was lost.
Accounted(e) ==
    \/ derived[e] > 0
    \/ failed[e] = "open"
    \/ e \in dismissed
    \/ e \in lost

\* An event the cursor has passed is never requested again, so it must have been
\* folded or put on the books before saveCursor: however the page failed, whoever
\* crashed, and whatever replay, reindex and the admin routes did since.
NoSilentLoss == \A c \in Contracts : \A e \in Behind(c) : Accounted(e)

\* The raw log is complete up to the cursor, so that a reindex can rebuild from it
\* what was ever passed (the log is "authoritative", reindex.ts).
LogCoversCursor == \A c \in Contracts : Behind(c) \subseteq raw

\* folded_at set means the effect is in the derived tables: markFolded rides in the
\* fold's own transaction, and nothing takes the effect out again.
FoldedIsApplied == \A e \in folded : derived[e] > 0

\* Re-delivered pages, retries, crashes, replays and a second worker never count an
\* event twice.  The one way to have it twice is a reindex that applied it while
\* its folded_at was NULL.
NoDoubleFold == \A e \in Events : derived[e] > 1 => e \in rebuilt

\* The needsFold answers a transaction read still hold when it commits, and a
\* replay's event is still unfolded: the advisory lock serializes every folder.
NeedsFoldIsFresh ==
    /\ \A w \in Workers : AtStep(w, "txn") => todo[w] = Page(w) \ folded
    /\ \A w \in Workers : AtStep(w, "fold") => Current(w) \notin folded
    /\ \A o \in Operators : session[o].ev \cap folded = {}

\* The inconsistency replayFailedEvent throws on cannot arise: an open row always
\* names an event whose raw row was committed.
OpenRowsHaveRawEvents == \A e \in Events : failed[e] = "open" => e \in raw

\* When a reindex commits, every event the cursor has passed is in the derived
\* tables exactly once, the quarantined, dismissed and lost ones included.
ReindexRepairs ==
    [][\A o \in Operators : CommitReindex(o) =>
          \A c \in Contracts : \A e \in Behind(c) : derived'[e] = 1]_vars

\* Every cursor reaches the end of its contract's events for good: an event whose
\* handler always throws, a lost cursor write or a restart delays it, no more.
CursorCatchesUp == \A c \in Contracts : <>[](cursor[c] = head[c])

\* An event whose own handler is sound gets folded even when it shares its page with
\* one that throws every time ("the rest of the page isn't held hostage").  A
\* transient error in per-event mode may quarantine it; the escape says so.
NotHeldHostage ==
    \A e \in Events \ Poison : (e[2] <= head[e[1]]) ~> (derived[e] > 0 \/ faults > 0)

\* The comment at insertRawEvent's use in ingestPage: "Fold only on first sight of an
\* event id.  A re-delivered page then can't re-apply increments".
AtMostOnce == \A e \in Events : derived[e] <= 1

=============================================================================
