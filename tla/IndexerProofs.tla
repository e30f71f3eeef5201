--------------------------- MODULE IndexerProofs ----------------------------
(***************************************************************************)
(* The theorems about Indexer.tla.  First type correctness and the mutual  *)
(* exclusion of everything that folds events.  Then the ledger: the raw    *)
(* log, the fold count and the books on failed events stay complete behind *)
(* every cursor, for every number of contracts, events, workers and        *)
(* operators and every pattern of faults.                                  *)
(***************************************************************************)
EXTENDS Indexer, TLAPS

\* The constant values the worker's locals and the tables start from have their
\* types.
LEMMA ValueTypes ==
    /\ AnyContract \in Contracts
    /\ DbError \in Errors
    /\ LockError \in Errors
    /\ \A i \in 1..Length : HandlerError(i) \in Errors
    /\ NoQuarantine \in QuarantineState
    /\ NoSession \in Session
    /\ 0 \in Positions
    /\ 1 \in 1..(Length + 1)
<1>1. AnyContract \in Contracts
  BY ConstantsAssumption DEF AnyContract
<1>2. DbError \in Errors /\ LockError \in Errors /\ \A i \in 1..Length : HandlerError(i) \in Errors
  BY ConstantsAssumption DEF DbError, LockError, HandlerError, Errors, Positions
<1>3. NoQuarantine \in QuarantineState
  BY <1>2, ConstantsAssumption DEF NoQuarantine, QuarantineState, Positions
<1> QED
  BY <1>1, <1>2, <1>3, ConstantsAssumption DEF NoSession, Session, Positions

\* Where a call's tokens may stand: the cursor, the page's start and its last event
\* never pass the chain's head, and the event in hand lies in the page (the page is
\* what getEvents answered behind the cursor, poller.ts fetchOnce).
RangeInv ==
    /\ \A c \in Contracts : cursor[c] <= head[c]
    /\ \A w \in Workers :
        /\ pos[w] <= head[at[w]]
        /\ step[w] \in {"load", "page", "txn", "failed", "each", "fold", "record", "clear", "save"}
           => pos[w] <= last[w] /\ last[w] <= head[at[w]]
        /\ step[w] \in {"each", "fold", "record"} => pos[w] < next[w] /\ next[w] <= last[w] + 1
        /\ step[w] \in {"fold", "record"} => next[w] <= last[w]

\* The event ingestEventQuarantined has in hand is an event of its page.
LEMMA CurrentInEvents ==
    ASSUME TypeOK, RangeInv, NEW w \in Workers,
           step[w] \in {"fold", "record"} \/ (AtStep(w, "each") /\ next[w] <= last[w])
    PROVE  Current(w) \in Events
  BY ConstantsAssumption DEF TypeOK, RangeInv, Current, Events, Positions, AtStep

\* persistQuarantineState writes a quarantine state or nothing.
LEMMA PersistType ==
    ASSUME NEW c \in Contracts, NEW q \in QuarantineState,
           quarantine \in [Contracts -> QuarantineState], Persist(c, q)
    PROVE  quarantine' \in [Contracts -> QuarantineState]
  BY DEF Persist

\* An operator's process starts or ends a replay or a reindex.
LEMMA SessionType ==
    ASSUME NEW o \in Operators, NEW s \in Session,
           session \in [Operators -> Session], session' = [session EXCEPT ![o] = s]
    PROVE  session' \in [Operators -> Session]
  OBVIOUS

\* Every step of the worker, the operators and the chain preserves the types.
LEMMA TypeNext == TypeOK /\ RangeInv /\ [Next]_vars => TypeOK'
<1> SUFFICES ASSUME TypeOK, RangeInv, [Next]_vars PROVE TypeOK'
  OBVIOUS
<1> USE ConstantsAssumption, ValueTypes DEF TypeOK, chainVars, dbVars, processVars, locals,
        boundVars, historyVars, AtStep, Moved, Goto, Drop, EndPoll, Advance, Raise, Fault, NoFault,
        Acquire, Release
<1>1. CASE UNCHANGED vars
  BY <1>1 DEF vars
<1>2. ASSUME NEW c \in Contracts, Emit(c) PROVE TypeOK'
  BY <1>2 DEF Emit, Positions
<1>3. ASSUME NEW w \in Workers, BeginPage(w) PROVE TypeOK'
  BY <1>3 DEF BeginPage, Page, Span, Events, Positions, Steps
<1>4. ASSUME NEW w \in Workers, SaveCursor(w) PROVE TypeOK'
  <2>1. CASE EndPoll(w)
    BY <1>4, <2>1 DEF SaveCursor, Steps
  <2>2. CASE ContinueDrain(w)
    BY <1>4, <2>2 DEF SaveCursor, ContinueDrain, Steps
  <2> QED
    BY <1>4, <2>1, <2>2 DEF SaveCursor
<1>5. ASSUME NEW w \in Workers, CountFailure(w) PROVE TypeOK'
  <2>1. AfterFailure(w) \in QuarantineState
    BY DEF AfterFailure, QuarantineState, Positions
  <2>2. quarantine' \in [Contracts -> QuarantineState]
    BY <1>5, <2>1 DEF CountFailure, Persist
  <2>3. memory' \in [Workers -> [Contracts -> QuarantineState]]
    BY <1>5, <2>1 DEF CountFailure
  <2>4. faults' \in Nat
    BY <1>5 DEF CountFailure, Persist
  <2>5. CASE EndPoll(w)
    BY <1>5, <2>2, <2>3, <2>4, <2>5 DEF CountFailure, Steps
  <2>6. CASE EnterPerEvent(w)
    <3>1. pos[w] + 1 \in 1..(Length + 1)
      BY DEF Positions
    <3> QED
      BY <1>5, <2>2, <2>3, <2>4, <2>6, <3>1 DEF CountFailure, EnterPerEvent, Steps
  <2> QED
    BY <1>5, <2>5, <2>6 DEF CountFailure
<1>6. ASSUME NEW w \in Workers, CommitPage(w) PROVE TypeOK'
  <2>1. /\ raw' \subseteq Events
        /\ folded' \subseteq Events
        /\ derived' \in [Events -> Nat]
        /\ faults' \in Nat
    BY <1>6 DEF CommitPage, Span, Page, Events, Positions
  <2>2. CASE Goto(w, "clear")
    BY <1>6, <2>1, <2>2 DEF CommitPage, Steps
  <2>3. CASE Raise(w, DbError)
    BY <1>6, <2>1, <2>3 DEF CommitPage, Steps
  <2> QED
    BY <1>6, <2>2, <2>3 DEF CommitPage
<1>7. ASSUME NEW w \in Workers, Start(w) PROVE TypeOK'
  BY <1>7 DEF Start, Steps
<1>8. ASSUME NEW w \in Workers, StartWithReset(w) PROVE TypeOK'
  BY <1>8 DEF StartWithReset, Steps
<1>9. ASSUME NEW w \in Workers, Exit(w) PROVE TypeOK'
  BY <1>9 DEF Exit, Steps
<1>10. ASSUME NEW w \in Workers, FetchPage(w) PROVE TypeOK'
  BY <1>10 DEF FetchPage, Steps, Positions
<1>11. ASSUME NEW w \in Workers, FetchFails(w) PROVE TypeOK'
  BY <1>11 DEF FetchFails, Steps
<1>12. ASSUME NEW w \in Workers, SkipEmptyPage(w) PROVE TypeOK'
  BY <1>12 DEF SkipEmptyPage, Steps
<1>13. ASSUME NEW w \in Workers, PageLocked(w) PROVE TypeOK'
  BY <1>13 DEF PageLocked, Steps
<1>14. ASSUME NEW w \in Workers, EventRefused(w) PROVE TypeOK'
  BY <1>14 DEF EventRefused, Steps
<1>15. ASSUME NEW w \in Workers, RollbackEvent(w) PROVE TypeOK'
  BY <1>15 DEF RollbackEvent, Steps
<1>16. ASSUME NEW w \in Workers, ConnectionLost(w) PROVE TypeOK'
  BY <1>16 DEF ConnectionLost, Steps
<1>17. ASSUME NEW w \in Workers, TouchCursor(w) PROVE TypeOK'
  BY <1>17 DEF TouchCursor, Steps
<1>18. ASSUME NEW w \in Workers, SaveCursorFails(w) PROVE TypeOK'
  BY <1>18 DEF SaveCursorFails, Steps
<1>19. ASSUME NEW w \in Workers, NEW c \in Contracts, LoadCursor(w, c) PROVE TypeOK'
  BY <1>19 DEF LoadCursor, Steps
<1>20. ASSUME NEW w \in Workers, LoadQuarantineState(w) PROVE TypeOK'
  <2>1. faults' \in Nat
    BY <1>20 DEF LoadQuarantineState
  <2>3. PICK q \in QuarantineState : memory' = [memory EXCEPT ![w][at[w]] = q]
    BY <1>20 DEF LoadQuarantineState
  <2>4. memory' \in [Workers -> [Contracts -> QuarantineState]]
    BY <2>3
  <2>2. loaded' \in [Workers -> SUBSET Contracts]
    BY <1>20 DEF LoadQuarantineState
  <2> QED
    BY <1>20, <2>1, <2>2, <2>4 DEF LoadQuarantineState, Steps
<1>21. ASSUME NEW w \in Workers, RollbackPage(w) PROVE TypeOK'
  <2>1. PICK e \in Errors : Raise(w, e)
    BY <1>21 DEF RollbackPage
  <2>2. faults' \in Nat
    BY <1>21 DEF RollbackPage
  <2> QED
    BY <1>21, <2>1, <2>2 DEF RollbackPage, Steps
<1>22. ASSUME NEW w \in Workers, BeginEvent(w) PROVE TypeOK'
  <2>1. Current(w) \in Events
    BY <1>22, CurrentInEvents DEF BeginEvent
  <2>2. next[w] + 1 \in 1..(Length + 1)
    BY <1>22 DEF BeginEvent, Positions
  <2>3. CASE Current(w) \in folded
    <3>1. Advance(w) /\ UNCHANGED lock /\ raw' = raw \cup {Current(w)}
      BY <1>22, <2>3 DEF BeginEvent
    <3> QED
      BY <1>22, <2>1, <2>2, <3>1 DEF BeginEvent, Steps
  <2>4. CASE Current(w) \notin folded
    BY <1>22, <2>1, <2>4 DEF BeginEvent, Steps
  <2> QED
    BY <2>3, <2>4
<1>23. ASSUME NEW w \in Workers, CommitEvent(w) PROVE TypeOK'
  <2>1. Current(w) \in Events
    BY <1>23, CurrentInEvents DEF CommitEvent
  <2>2. next[w] + 1 \in 1..(Length + 1)
    BY <1>23 DEF CommitEvent, RangeInv, Positions
  <2>3. CASE Advance(w)
    BY <1>23, <2>1, <2>2, <2>3 DEF CommitEvent, Steps
  <2>4. CASE EndPoll(w)
    BY <1>23, <2>1, <2>4 DEF CommitEvent, Steps
  <2> QED
    BY <1>23, <2>3, <2>4 DEF CommitEvent
<1>24. ASSUME NEW w \in Workers, RecordEvent(w) PROVE TypeOK'
  <2>1. Current(w) \in Events
    BY <1>24, CurrentInEvents DEF RecordEvent
  <2>2. next[w] + 1 \in 1..(Length + 1)
    BY <1>24 DEF RecordEvent, RangeInv, Positions
  <2>3. failed' \in [Events -> {"none", "open", "resolved"}] /\ lost' \subseteq Events /\ faults' \in Nat
    BY <1>24, <2>1 DEF RecordEvent
  <2> QED
    BY <1>24, <2>2, <2>3 DEF RecordEvent, Steps
<1>25. ASSUME NEW w \in Workers, ClearQuarantine(w) PROVE TypeOK'
  <2>1. memory' \in [Workers -> [Contracts -> QuarantineState]]
    BY <1>25 DEF ClearQuarantine
  <2>2. quarantine' \in [Contracts -> QuarantineState]
    <3>1. Persist(at[w], NoQuarantine) /\ at[w] \in Contracts
      BY <1>25 DEF ClearQuarantine
    <3> QED
      BY <3>1, PersistType
  <2>3. faults' \in Nat
    BY <1>25 DEF ClearQuarantine, Persist
  <2> QED
    BY <1>25, <2>1, <2>2, <2>3 DEF ClearQuarantine, Steps
<1>26. ASSUME NEW o \in Operators, NEW e \in Events, BeginReplay(o, e) PROVE TypeOK'
  <2>1. ReplayOf(e) \in Session
    BY DEF Session, ReplayOf
  <2>2. CASE e \in folded
    BY <1>26, <2>2 DEF BeginReplay
  <2>3. CASE e \notin folded
    <3>1. session' = [session EXCEPT ![o] = ReplayOf(e)] /\ UNCHANGED failed
      BY <1>26, <2>3 DEF BeginReplay
    <3>3. session' \in [Operators -> Session]
      BY <2>1, <3>1, SessionType
    <3>2. lock' \subseteq Workers \cup Operators
      BY <1>26, <2>3 DEF BeginReplay
    <3> QED
      BY <1>26, <3>1, <3>2, <3>3 DEF BeginReplay
  <2> QED
    BY <2>2, <2>3
<1>27. ASSUME NEW o \in Operators, CommitReplay(o) PROVE TypeOK'
  BY <1>27 DEF CommitReplay, EndSession, Session
<1>28. ASSUME NEW o \in Operators, BeginReindex(o) PROVE TypeOK'
  BY <1>28 DEF BeginReindex, Session, Rebuild
<1>29. ASSUME NEW o \in Operators, CommitReindex(o) PROVE TypeOK'
  BY <1>29 DEF CommitReindex, EndSession
<1>30. ASSUME NEW o \in Operators, AbortSession(o) PROVE TypeOK'
  BY <1>30 DEF AbortSession, EndSession
<1>31. ASSUME NEW ids \in SUBSET Events, BatchResolve(ids) PROVE TypeOK'
  BY <1>31 DEF BatchResolve
<1>32. ASSUME NEW ids \in SUBSET Events, CleanupExpired(ids) PROVE TypeOK'
  BY <1>32 DEF CleanupExpired
<1>33. CASE ShipFix
  BY <1>33 DEF ShipFix
<1>34. CASE Repoint
  BY <1>34 DEF Repoint
<1> QED
  BY <1>1, <1>2, <1>3, <1>4, <1>5, <1>6, <1>7, <1>8, <1>9, <1>10, <1>11, <1>12, <1>13,
     <1>14, <1>15, <1>16, <1>17, <1>18, <1>19, <1>20, <1>21, <1>22, <1>23, <1>24, <1>25,
     <1>26, <1>27, <1>28, <1>29, <1>30, <1>31, <1>32, <1>33, <1>34 DEF Next, WorkerStep,
     PollStep, OperatorStep

\* Paging: no step moves a token past the head or the event in hand out of its page.
LEMMA RangeNext ==
    TypeOK /\ RangeInv /\ [Next]_vars
    => RangeInv'
<1> SUFFICES ASSUME TypeOK, RangeInv, [Next]_vars
             PROVE  RangeInv'
  OBVIOUS
<1> USE ConstantsAssumption, ValueTypes DEF TypeOK, RangeInv, chainVars, dbVars, processVars,
        locals, boundVars, historyVars, AtStep, Moved, Goto, Drop, EndPoll, Advance, Raise
<1>1. CASE UNCHANGED vars
  BY <1>1 DEF vars
<1>2. ASSUME NEW c \in Contracts, Emit(c) PROVE RangeInv'
  BY <1>2 DEF Emit, Positions
<1>3. ASSUME NEW w \in Workers, Start(w) PROVE RangeInv'
  BY <1>3 DEF Start, Positions
<1>4. ASSUME NEW w \in Workers, StartWithReset(w) PROVE RangeInv'
  BY <1>4 DEF StartWithReset, Positions
<1>5. ASSUME NEW w \in Workers, Exit(w) PROVE RangeInv'
  BY <1>5 DEF Exit, Positions
<1>6. ASSUME NEW w \in Workers, FetchPage(w) PROVE RangeInv'
  BY <1>6 DEF FetchPage, Positions
<1>7. ASSUME NEW w \in Workers, FetchFails(w) PROVE RangeInv'
  BY <1>7 DEF FetchFails, Positions
<1>8. ASSUME NEW w \in Workers, LoadQuarantineState(w) PROVE RangeInv'
  BY <1>8 DEF LoadQuarantineState, Positions
<1>9. ASSUME NEW w \in Workers, SkipEmptyPage(w) PROVE RangeInv'
  BY <1>9 DEF SkipEmptyPage, Positions
<1>10. ASSUME NEW w \in Workers, BeginPage(w) PROVE RangeInv'
  BY <1>10 DEF BeginPage, Positions
<1>11. ASSUME NEW w \in Workers, PageLocked(w) PROVE RangeInv'
  BY <1>11 DEF PageLocked, Positions
<1>12. ASSUME NEW w \in Workers, CommitPage(w) PROVE RangeInv'
  BY <1>12 DEF CommitPage, Positions
<1>13. ASSUME NEW w \in Workers, RollbackPage(w) PROVE RangeInv'
  BY <1>13 DEF RollbackPage, Positions
<1>14. ASSUME NEW w \in Workers, CountFailure(w) PROVE RangeInv'
  <2>1. CASE EndPoll(w)
    BY <1>14, <2>1 DEF CountFailure, Positions
  <2>2. CASE EnterPerEvent(w)
    BY <1>14, <2>2 DEF CountFailure, EnterPerEvent, Positions
  <2> QED
    BY <1>14, <2>1, <2>2 DEF CountFailure
<1>15. ASSUME NEW w \in Workers, BeginEvent(w) PROVE RangeInv'
  BY <1>15 DEF BeginEvent, Positions
<1>16. ASSUME NEW w \in Workers, EventRefused(w) PROVE RangeInv'
  BY <1>16 DEF EventRefused, Positions
<1>17. ASSUME NEW w \in Workers, CommitEvent(w) PROVE RangeInv'
  BY <1>17 DEF CommitEvent, Positions
<1>18. ASSUME NEW w \in Workers, RollbackEvent(w) PROVE RangeInv'
  BY <1>18 DEF RollbackEvent, Positions
<1>19. ASSUME NEW w \in Workers, ConnectionLost(w) PROVE RangeInv'
  BY <1>19 DEF ConnectionLost, Positions
<1>20. ASSUME NEW w \in Workers, RecordEvent(w) PROVE RangeInv'
  BY <1>20 DEF RecordEvent, Positions
<1>21. ASSUME NEW w \in Workers, ClearQuarantine(w) PROVE RangeInv'
  BY <1>21 DEF ClearQuarantine, Positions
<1>22. ASSUME NEW w \in Workers, SaveCursor(w) PROVE RangeInv'
  <2>1. CASE EndPoll(w)
    BY <1>22, <2>1 DEF SaveCursor, Positions
  <2>2. CASE ContinueDrain(w)
    BY <1>22, <2>2 DEF SaveCursor, ContinueDrain, Positions
  <2> QED
    BY <1>22, <2>1, <2>2 DEF SaveCursor
<1>23. ASSUME NEW w \in Workers, TouchCursor(w) PROVE RangeInv'
  BY <1>23 DEF TouchCursor, Positions
<1>24. ASSUME NEW w \in Workers, SaveCursorFails(w) PROVE RangeInv'
  BY <1>24 DEF SaveCursorFails, Positions
<1>25. ASSUME NEW w \in Workers, NEW c \in Contracts, LoadCursor(w, c) PROVE RangeInv'
  BY <1>25 DEF LoadCursor, Positions
<1>26. ASSUME NEW o \in Operators, NEW e \in Events, BeginReplay(o, e) PROVE RangeInv'
  BY <1>26 DEF BeginReplay
<1>27. ASSUME NEW o \in Operators, CommitReplay(o) PROVE RangeInv'
  BY <1>27 DEF CommitReplay, EndSession
<1>28. ASSUME NEW o \in Operators, BeginReindex(o) PROVE RangeInv'
  BY <1>28 DEF BeginReindex
<1>29. ASSUME NEW o \in Operators, CommitReindex(o) PROVE RangeInv'
  BY <1>29 DEF CommitReindex, EndSession
<1>30. ASSUME NEW o \in Operators, AbortSession(o) PROVE RangeInv'
  BY <1>30 DEF AbortSession, EndSession
<1>31. ASSUME NEW ids \in SUBSET Events, BatchResolve(ids) PROVE RangeInv'
  BY <1>31 DEF BatchResolve
<1>32. ASSUME NEW ids \in SUBSET Events, CleanupExpired(ids) PROVE RangeInv'
  BY <1>32 DEF CleanupExpired
<1>33. CASE ShipFix
  BY <1>33 DEF ShipFix
<1>34. CASE Repoint
  BY <1>34 DEF Repoint
<1> QED
  BY <1>1, <1>2, <1>3, <1>4, <1>5, <1>6, <1>7, <1>8, <1>9, <1>10, <1>11, <1>12,
     <1>13, <1>14, <1>15, <1>16, <1>17, <1>18, <1>19, <1>20, <1>21, <1>22, <1>23,
     <1>24, <1>25, <1>26, <1>27, <1>28, <1>29, <1>30, <1>31, <1>32, <1>33, <1>34
  DEF Next, WorkerStep, PollStep, OperatorStep

-----------------------------------------------------------------------------
\* Whoever is between BEGIN and COMMIT of a fold, or recording a failed one, holds
\* the advisory lock, and at most one session does.
LockInv ==
    /\ \A s, t \in lock : s = t
    /\ \A w \in Workers : step[w] \in {"txn", "fold", "record"} => w \in lock
    /\ \A o \in Operators : session[o].kind # "none" => o \in lock

\* The fold decisions are fresh, and an idle operator has no event in hand.
FreshInv ==
    /\ NeedsFoldIsFresh
    /\ \A o \in Operators : session[o].kind = "none" => session[o].ev = {}

\* Mutual exclusion of pg_try_advisory_lock(REINDEX_LOCK_KEY).
LEMMA LockNext ==
    TypeOK /\ LockInv /\ [Next]_vars
    => LockInv'
<1> SUFFICES ASSUME TypeOK, LockInv, [Next]_vars
             PROVE  LockInv'
  OBVIOUS
<1> USE ConstantsAssumption DEF TypeOK, LockInv, chainVars, dbVars, processVars,
        locals, boundVars, historyVars, AtStep, Moved, Goto, EndPoll, Advance, Raise, LockFree,
        Acquire, Release
<1>1. CASE UNCHANGED vars
  BY <1>1 DEF vars
<1>2. ASSUME NEW c \in Contracts, Emit(c) PROVE LockInv'
  BY <1>2 DEF Emit
<1>3. ASSUME NEW w \in Workers, Start(w) PROVE LockInv'
  BY <1>3 DEF Start
<1>4. ASSUME NEW w \in Workers, StartWithReset(w) PROVE LockInv'
  BY <1>4 DEF StartWithReset
<1>5. ASSUME NEW w \in Workers, Exit(w) PROVE LockInv'
  BY <1>5 DEF Exit
<1>6. ASSUME NEW w \in Workers, FetchPage(w) PROVE LockInv'
  BY <1>6 DEF FetchPage
<1>7. ASSUME NEW w \in Workers, FetchFails(w) PROVE LockInv'
  BY <1>7 DEF FetchFails
<1>8. ASSUME NEW w \in Workers, LoadQuarantineState(w) PROVE LockInv'
  BY <1>8 DEF LoadQuarantineState
<1>9. ASSUME NEW w \in Workers, SkipEmptyPage(w) PROVE LockInv'
  BY <1>9 DEF SkipEmptyPage
<1>10. ASSUME NEW w \in Workers, BeginPage(w) PROVE LockInv'
  BY <1>10 DEF BeginPage
<1>11. ASSUME NEW w \in Workers, PageLocked(w) PROVE LockInv'
  BY <1>11 DEF PageLocked
<1>12. ASSUME NEW w \in Workers, CommitPage(w) PROVE LockInv'
  BY <1>12 DEF CommitPage
<1>13. ASSUME NEW w \in Workers, RollbackPage(w) PROVE LockInv'
  <2>1. PICK x : Raise(w, x)
    BY <1>13 DEF RollbackPage
  <2> QED
    BY <1>13, <2>1 DEF RollbackPage
<1>14. ASSUME NEW w \in Workers, CountFailure(w) PROVE LockInv'
  BY <1>14 DEF CountFailure, EnterPerEvent
<1>15. ASSUME NEW w \in Workers, BeginEvent(w) PROVE LockInv'
  BY <1>15 DEF BeginEvent
<1>16. ASSUME NEW w \in Workers, EventRefused(w) PROVE LockInv'
  BY <1>16 DEF EventRefused
<1>17. ASSUME NEW w \in Workers, CommitEvent(w) PROVE LockInv'
  BY <1>17 DEF CommitEvent
<1>18. ASSUME NEW w \in Workers, RollbackEvent(w) PROVE LockInv'
  BY <1>18 DEF RollbackEvent
<1>19. ASSUME NEW w \in Workers, ConnectionLost(w) PROVE LockInv'
  BY <1>19 DEF ConnectionLost
<1>20. ASSUME NEW w \in Workers, RecordEvent(w) PROVE LockInv'
  BY <1>20 DEF RecordEvent
<1>21. ASSUME NEW w \in Workers, ClearQuarantine(w) PROVE LockInv'
  BY <1>21 DEF ClearQuarantine
<1>22. ASSUME NEW w \in Workers, SaveCursor(w) PROVE LockInv'
  BY <1>22 DEF SaveCursor, ContinueDrain
<1>23. ASSUME NEW w \in Workers, TouchCursor(w) PROVE LockInv'
  BY <1>23 DEF TouchCursor
<1>24. ASSUME NEW w \in Workers, SaveCursorFails(w) PROVE LockInv'
  BY <1>24 DEF SaveCursorFails
<1>25. ASSUME NEW w \in Workers, NEW c \in Contracts, LoadCursor(w, c) PROVE LockInv'
  BY <1>25 DEF LoadCursor
<1>26. ASSUME NEW o \in Operators, NEW e \in Events, BeginReplay(o, e) PROVE LockInv'
  BY <1>26 DEF BeginReplay, NoSession, ReplayOf
<1>27. ASSUME NEW o \in Operators, CommitReplay(o) PROVE LockInv'
  BY <1>27 DEF CommitReplay, EndSession, NoSession
<1>28. ASSUME NEW o \in Operators, BeginReindex(o) PROVE LockInv'
  BY <1>28 DEF BeginReindex, NoSession, Rebuild
<1>29. ASSUME NEW o \in Operators, CommitReindex(o) PROVE LockInv'
  BY <1>29 DEF CommitReindex, EndSession, NoSession
<1>30. ASSUME NEW o \in Operators, AbortSession(o) PROVE LockInv'
  BY <1>30 DEF AbortSession, EndSession, NoSession
<1>31. ASSUME NEW ids \in SUBSET Events, BatchResolve(ids) PROVE LockInv'
  BY <1>31 DEF BatchResolve
<1>32. ASSUME NEW ids \in SUBSET Events, CleanupExpired(ids) PROVE LockInv'
  BY <1>32 DEF CleanupExpired
<1>33. CASE ShipFix
  BY <1>33 DEF ShipFix
<1>34. CASE Repoint
  BY <1>34 DEF Repoint
<1> QED
  BY <1>1, <1>2, <1>3, <1>4, <1>5, <1>6, <1>7, <1>8, <1>9, <1>10, <1>11, <1>12,
     <1>13, <1>14, <1>15, <1>16, <1>17, <1>18, <1>19, <1>20, <1>21, <1>22, <1>23,
     <1>24, <1>25, <1>26, <1>27, <1>28, <1>29, <1>30, <1>31, <1>32, <1>33, <1>34
  DEF Next, WorkerStep, PollStep, OperatorStep

\* While a worker holds the lock nobody else is inside a fold.
LEMMA WorkerAlone ==
    ASSUME LockInv, FreshInv, NEW w \in Workers, w \in lock
    PROVE  /\ \A v \in Workers : v # w => step[v] \notin {"txn", "fold", "record"}
           /\ \A o \in Operators : session[o].kind = "none" /\ session[o].ev = {}
  BY ConstantsAssumption DEF LockInv, FreshInv

\* While replay or reindex holds the lock nobody else is inside a fold.
LEMMA OperatorAlone ==
    ASSUME LockInv, FreshInv, NEW o \in Operators, o \in lock
    PROVE  /\ \A w \in Workers : step[w] \notin {"txn", "fold", "record"}
           /\ \A p \in Operators : p # o => session[p].kind = "none" /\ session[p].ev = {}
  BY ConstantsAssumption DEF LockInv, FreshInv

\* While the lock is free nobody is inside a fold.
LEMMA NobodyInside ==
    ASSUME LockInv, FreshInv, LockFree
    PROVE  /\ \A w \in Workers : step[w] \notin {"txn", "fold", "record"}
           /\ \A p \in Operators : session[p].kind = "none" /\ session[p].ev = {}
  BY DEF LockInv, FreshInv, LockFree

\* No step makes a needsFold answer stale: folded_at is only written under the
\* lock the reader holds.
LEMMA FreshNext ==
    TypeOK /\ LockInv /\ FreshInv /\ [Next]_vars
    => FreshInv'
<1> SUFFICES ASSUME TypeOK, LockInv, FreshInv, [Next]_vars
             PROVE  FreshInv'
  OBVIOUS
<1> USE ConstantsAssumption DEF TypeOK, LockInv, FreshInv, NeedsFoldIsFresh, chainVars,
   dbVars, processVars,
        locals, boundVars, historyVars, AtStep, Moved, Goto, EndPoll, Advance, Raise, LockFree,
        Acquire, Release, Drop, Page, Current
<1>1. CASE UNCHANGED vars
  BY <1>1 DEF vars
<1>2. ASSUME NEW c \in Contracts, Emit(c) PROVE FreshInv'
  BY <1>2 DEF Emit
<1>3. ASSUME NEW w \in Workers, Start(w) PROVE FreshInv'
  BY <1>3 DEF Start
<1>4. ASSUME NEW w \in Workers, StartWithReset(w) PROVE FreshInv'
  BY <1>4 DEF StartWithReset
<1>5. ASSUME NEW w \in Workers, Exit(w) PROVE FreshInv'
  BY <1>5 DEF Exit
<1>6. ASSUME NEW w \in Workers, FetchPage(w) PROVE FreshInv'
  BY <1>6 DEF FetchPage
<1>7. ASSUME NEW w \in Workers, FetchFails(w) PROVE FreshInv'
  BY <1>7 DEF FetchFails
<1>8. ASSUME NEW w \in Workers, LoadQuarantineState(w) PROVE FreshInv'
  BY <1>8 DEF LoadQuarantineState
<1>9. ASSUME NEW w \in Workers, SkipEmptyPage(w) PROVE FreshInv'
  BY <1>9 DEF SkipEmptyPage
<1>10. ASSUME NEW w \in Workers, BeginPage(w) PROVE FreshInv'
  BY <1>10 DEF BeginPage
<1>11. ASSUME NEW w \in Workers, PageLocked(w) PROVE FreshInv'
  BY <1>11 DEF PageLocked
<1>12. ASSUME NEW w \in Workers, CommitPage(w) PROVE FreshInv'
  <2>1. \A v \in Workers : step'[v] \notin {"txn", "fold"}
    BY <1>12, WorkerAlone DEF CommitPage
  <2>2. \A o \in Operators : session'[o].kind = "none" /\ session'[o].ev = {}
    BY <1>12, WorkerAlone DEF CommitPage
  <2> QED
    BY <2>1, <2>2
<1>13. ASSUME NEW w \in Workers, RollbackPage(w) PROVE FreshInv'
  <2>1. PICK x : Raise(w, x)
    BY <1>13 DEF RollbackPage
  <2> QED
    BY <1>13, <2>1 DEF RollbackPage
<1>14. ASSUME NEW w \in Workers, CountFailure(w) PROVE FreshInv'
  <2>1. step'[w] \notin {"txn", "fold"} /\ \A v \in Workers : v # w => step'[v] = step[v]
    BY <1>14 DEF CountFailure, EnterPerEvent
  <2>2. \A v \in Workers : v # w => /\ at'[v] = at[v] /\ pos'[v] = pos[v] /\ last'[v] = last[v]
                                   /\ next'[v] = next[v] /\ todo'[v] = todo[v]
    BY <1>14 DEF CountFailure, EnterPerEvent
  <2> QED
    BY <1>14, <2>1, <2>2 DEF CountFailure
<1>15. ASSUME NEW w \in Workers, BeginEvent(w) PROVE FreshInv'
  <2>1. \A v \in Workers : v # w => step'[v] \notin {"txn", "fold"}
    BY <1>15, NobodyInside DEF BeginEvent
  <2>2. \A o \in Operators : session'[o].kind = "none" /\ session'[o].ev = {}
    BY <1>15, NobodyInside DEF BeginEvent
  <2>3. step'[w] # "txn" /\ (step'[w] = "fold" => Current(w) \notin folded /\ UNCHANGED locals)
    BY <1>15 DEF BeginEvent
  <2> QED
    BY <1>15, <2>1, <2>2, <2>3 DEF BeginEvent
<1>16. ASSUME NEW w \in Workers, EventRefused(w) PROVE FreshInv'
  BY <1>16 DEF EventRefused
<1>17. ASSUME NEW w \in Workers, CommitEvent(w) PROVE FreshInv'
  <2>1. \A v \in Workers : step'[v] \notin {"txn", "fold"}
    <3>1. w \in lock /\ \A v \in Workers : v # w => step[v] \notin {"txn", "fold"}
      BY <1>17, WorkerAlone DEF CommitEvent
    <3>2. step'[w] \notin {"txn", "fold"} /\ \A v \in Workers : v # w => step'[v] = step[v]
      BY <1>17 DEF CommitEvent
    <3> QED
      BY <3>1, <3>2
  <2>2. \A o \in Operators : session'[o].kind = "none" /\ session'[o].ev = {}
    BY <1>17, WorkerAlone DEF CommitEvent
  <2> QED
    BY <2>1, <2>2
<1>18. ASSUME NEW w \in Workers, RollbackEvent(w) PROVE FreshInv'
  BY <1>18 DEF RollbackEvent
<1>19. ASSUME NEW w \in Workers, ConnectionLost(w) PROVE FreshInv'
  BY <1>19 DEF ConnectionLost
<1>20. ASSUME NEW w \in Workers, RecordEvent(w) PROVE FreshInv'
  BY <1>20 DEF RecordEvent
<1>21. ASSUME NEW w \in Workers, ClearQuarantine(w) PROVE FreshInv'
  BY <1>21 DEF ClearQuarantine
<1>22. ASSUME NEW w \in Workers, SaveCursor(w) PROVE FreshInv'
  <2>1. step'[w] \notin {"txn", "fold"} /\ \A v \in Workers : v # w => step'[v] = step[v]
    BY <1>22 DEF SaveCursor, ContinueDrain
  <2>2. \A v \in Workers : v # w => /\ at'[v] = at[v] /\ pos'[v] = pos[v] /\ last'[v] = last[v]
                                   /\ next'[v] = next[v] /\ todo'[v] = todo[v]
    BY <1>22 DEF SaveCursor, ContinueDrain
  <2> QED
    BY <1>22, <2>1, <2>2 DEF SaveCursor
<1>23. ASSUME NEW w \in Workers, TouchCursor(w) PROVE FreshInv'
  BY <1>23 DEF TouchCursor
<1>24. ASSUME NEW w \in Workers, SaveCursorFails(w) PROVE FreshInv'
  BY <1>24 DEF SaveCursorFails
<1>25. ASSUME NEW w \in Workers, NEW c \in Contracts, LoadCursor(w, c) PROVE FreshInv'
  BY <1>25 DEF LoadCursor
<1>26. ASSUME NEW o \in Operators, NEW e \in Events, BeginReplay(o, e) PROVE FreshInv'
  <2>1. \A w \in Workers : step'[w] \notin {"txn", "fold"}
    BY <1>26, NobodyInside DEF BeginReplay
  <2>2. \A p \in Operators : p # o => session'[p].kind = "none" /\ session'[p].ev = {}
    BY <1>26, NobodyInside DEF BeginReplay
  <2>3. CASE e \in folded
    <3>1. session'[o].kind = "none" /\ session'[o].ev = {}
      BY <1>26, <2>3, NobodyInside DEF BeginReplay
    <3> QED
      BY <2>1, <2>2, <3>1
  <2>4. CASE e \notin folded
    <3>1. session'[o] = ReplayOf(e) /\ folded' = folded
      BY <1>26, <2>4 DEF BeginReplay
    <3>2. session'[o].kind # "none" /\ session'[o].ev \cap folded' = {}
      BY <2>4, <3>1 DEF ReplayOf
    <3> QED
      BY <2>1, <2>2, <3>2
  <2> QED
    BY <2>3, <2>4
<1>27. ASSUME NEW o \in Operators, CommitReplay(o) PROVE FreshInv'
  <2>1. o \in lock
    BY <1>27 DEF CommitReplay
  <2>2. \A w \in Workers : step'[w] \notin {"txn", "fold"}
    BY <1>27, <2>1, OperatorAlone DEF CommitReplay
  <2>3. session' = [session EXCEPT ![o] = NoSession]
    BY <1>27 DEF CommitReplay, EndSession
  <2>4. \A p \in Operators : session'[p].kind = "none" /\ session'[p].ev = {}
    BY <2>1, <2>3, OperatorAlone DEF NoSession
  <2> QED
    BY <2>2, <2>4
<1>28. ASSUME NEW o \in Operators, BeginReindex(o) PROVE FreshInv'
  BY <1>28 DEF BeginReindex, NoSession, Rebuild
<1>29. ASSUME NEW o \in Operators, CommitReindex(o) PROVE FreshInv'
  BY <1>29 DEF CommitReindex, EndSession, NoSession
<1>30. ASSUME NEW o \in Operators, AbortSession(o) PROVE FreshInv'
  BY <1>30 DEF AbortSession, EndSession, NoSession
<1>31. ASSUME NEW ids \in SUBSET Events, BatchResolve(ids) PROVE FreshInv'
  BY <1>31 DEF BatchResolve
<1>32. ASSUME NEW ids \in SUBSET Events, CleanupExpired(ids) PROVE FreshInv'
  BY <1>32 DEF CleanupExpired
<1>33. CASE ShipFix
  BY <1>33 DEF ShipFix
<1>34. CASE Repoint
  BY <1>34 DEF Repoint
<1> QED
  BY <1>1, <1>2, <1>3, <1>4, <1>5, <1>6, <1>7, <1>8, <1>9, <1>10, <1>11, <1>12,
     <1>13, <1>14, <1>15, <1>16, <1>17, <1>18, <1>19, <1>20, <1>21, <1>22, <1>23,
     <1>24, <1>25, <1>26, <1>27, <1>28, <1>29, <1>30, <1>31, <1>32, <1>33, <1>34
  DEF Next, WorkerStep, PollStep, OperatorStep

-----------------------------------------------------------------------------
\* A fresh database and a stopped worker satisfy the types and the paging bounds.
LEMMA TypeInit == Init => TypeOK /\ RangeInv
<1> SUFFICES ASSUME Init PROVE TypeOK /\ RangeInv
  OBVIOUS
<1>1. TypeOK
  BY ConstantsAssumption, ValueTypes DEF Init, TypeOK, Steps, Positions, Events
<1>2. RangeInv
  BY ConstantsAssumption, ValueTypes DEF Init, RangeInv, Positions
<1> QED
  BY <1>1, <1>2

\* Initially nobody holds the lock and nothing is being folded.
LEMMA LockInit == Init => LockInv /\ FreshInv
<1> SUFFICES ASSUME Init PROVE LockInv /\ FreshInv
  OBVIOUS
<1>1. \A o \in Operators : session[o].kind = "none" /\ session[o].ev = {}
  BY DEF Init, NoSession
<1> QED
  BY <1>1 DEF Init, LockInv, FreshInv, NeedsFoldIsFresh, AtStep

\* Type correctness of the indexer: every table, cursor and local of the worker
\* (poller.ts, replay.ts, reindex.ts) keeps its type, for any number of contracts,
\* workers, operators and events.
THEOREM TypeCorrect == Spec => []TypeOK
<1>1. TypeOK /\ RangeInv /\ [Next]_vars => (TypeOK /\ RangeInv)'
  BY TypeNext, RangeNext
<1> QED
  BY <1>1, TypeInit, PTL DEF Spec

\* The needsFold answers that ingestPage, ingestEventQuarantined and
\* replayFailedEvent read are still true when their transactions commit, however
\* many workers and operators run: the advisory lock serializes all of them.
THEOREM FoldDecisionsAreFresh == Spec => []NeedsFoldIsFresh
<1> DEFINE I == TypeOK /\ RangeInv /\ LockInv /\ FreshInv
<1>1. Init => I
  BY TypeInit, LockInit
<1>2. I /\ [Next]_vars => I'
  BY TypeNext, RangeNext, LockNext, FreshNext
<1>3. I => NeedsFoldIsFresh
  BY DEF FreshInv
<1> QED
  BY <1>1, <1>2, <1>3, PTL DEF Spec

-----------------------------------------------------------------------------
\* The ledger.

\* How far into contract at[w] the call of worker w has dealt with: what its next
\* saveCursor may claim.
Handled(w) ==
    IF step[w] \in {"clear", "save"} THEN last[w]
    ELSE IF step[w] \in {"each", "fold", "record"} THEN next[w] - 1
    ELSE pos[w]

\* Nothing is folded, applied or on the books without its row in the raw log.
RawInv ==
    /\ folded \subseteq raw
    /\ \A e \in Events : derived[e] > 0 \/ failed[e] = "open" => e \in raw
    /\ \A w \in Workers : step[w] \in {"fold", "record"} => Current(w) \in raw
    /\ \A o \in Operators : session[o].ev \subseteq raw

\* The raw log of contract c has no hole up to n.
LoggedTo(c, n) == \A i \in 1..Length : i <= n => <<c, i>> \in raw

\* The log has no hole up to a cursor, nor up to where a running call has got: a
\* worker that lags behind may write an old cursor, never one past a hole.
LogInv ==
    /\ \A c \in Contracts : LoggedTo(c, cursor[c])
    /\ \A w \in Workers : LoggedTo(at[w], Handled(w))

\* insertRawEvent comes before every fold and every failed_events row, and raw rows
\* are never deleted.
LEMMA RawNext ==
    TypeOK /\ RangeInv /\ FreshInv /\ RawInv /\ [Next]_vars
    => RawInv'
<1> SUFFICES ASSUME TypeOK, RangeInv, FreshInv, RawInv, [Next]_vars
             PROVE  RawInv'
  OBVIOUS
<1> USE ConstantsAssumption DEF TypeOK, RawInv, chainVars, dbVars, processVars,
        locals, boundVars, historyVars, AtStep, Moved, Goto, EndPoll, Advance, Raise, LockFree,
        Acquire, Release
<1>1. CASE UNCHANGED vars
  BY <1>1 DEF vars, Current
<1>2. ASSUME NEW c \in Contracts, Emit(c) PROVE RawInv'
  BY <1>2 DEF Emit, Current
<1>3. ASSUME NEW w \in Workers, Start(w) PROVE RawInv'
  BY <1>3 DEF Start, Current, Drop
<1>4. ASSUME NEW w \in Workers, StartWithReset(w) PROVE RawInv'
  BY <1>4 DEF StartWithReset, Current, Drop
<1>5. ASSUME NEW w \in Workers, Exit(w) PROVE RawInv'
  BY <1>5 DEF Exit, Current, Drop
<1>6. ASSUME NEW w \in Workers, FetchPage(w) PROVE RawInv'
  BY <1>6 DEF FetchPage, Current
<1>7. ASSUME NEW w \in Workers, FetchFails(w) PROVE RawInv'
  BY <1>7 DEF FetchFails, Current, Drop
<1>8. ASSUME NEW w \in Workers, LoadQuarantineState(w) PROVE RawInv'
  BY <1>8 DEF LoadQuarantineState, Current
<1>9. ASSUME NEW w \in Workers, SkipEmptyPage(w) PROVE RawInv'
  BY <1>9 DEF SkipEmptyPage, Current
<1>10. ASSUME NEW w \in Workers, BeginPage(w) PROVE RawInv'
  BY <1>10 DEF BeginPage, Current
<1>11. ASSUME NEW w \in Workers, PageLocked(w) PROVE RawInv'
  BY <1>11 DEF PageLocked, Current
<1>12. ASSUME NEW w \in Workers, CommitPage(w) PROVE RawInv'
  <2>1. todo[w] \subseteq Page(w)
    BY <1>12 DEF CommitPage, FreshInv, NeedsFoldIsFresh
  <2>2. \A v \in Workers : /\ step'[v] = step[v] \/ step'[v] \in {"clear", "failed"}
                           /\ Current(v)' = Current(v)
    BY <1>12 DEF CommitPage, Current
  <2> QED
    BY <1>12, <2>1, <2>2 DEF CommitPage
<1>13. ASSUME NEW w \in Workers, RollbackPage(w) PROVE RawInv'
  <2>1. PICK x : Raise(w, x)
    BY <1>13 DEF RollbackPage
  <2> QED
    BY <1>13, <2>1 DEF RollbackPage, Current
<1>14. ASSUME NEW w \in Workers, CountFailure(w) PROVE RawInv'
  <2>1. \A v \in Workers : v # w => step'[v] = step[v] /\ Current(v)' = Current(v)
    BY <1>14 DEF CountFailure, EnterPerEvent, Drop, Current
  <2>2. step'[w] \notin {"fold", "record"}
    BY <1>14 DEF CountFailure, EnterPerEvent
  <2> QED
    BY <1>14, <2>1, <2>2 DEF CountFailure
<1>15. ASSUME NEW w \in Workers, BeginEvent(w) PROVE RawInv'
  <2>1. Current(w) \in Events /\ raw' = raw \cup {Current(w)}
    BY <1>15, CurrentInEvents DEF BeginEvent
  <2>2. UNCHANGED <<derived, failed, session, folded>>
    BY <1>15 DEF BeginEvent
  <2>3. \A v \in Workers : v # w => step'[v] = step[v] /\ Current(v)' = Current(v)
    BY <1>15 DEF BeginEvent, Current
  <2>4. step'[w] \notin {"fold", "record"} \/ Current(w)' = Current(w)
    BY <1>15 DEF BeginEvent, Current
  <2> QED
    BY <2>1, <2>2, <2>3, <2>4
<1>16. ASSUME NEW w \in Workers, EventRefused(w) PROVE RawInv'
  BY <1>16 DEF EventRefused, Current, Drop
<1>17. ASSUME NEW w \in Workers, CommitEvent(w) PROVE RawInv'
  <2>1. Current(w) \in Events /\ Current(w) \in raw
    BY <1>17, CurrentInEvents DEF CommitEvent
  <2>2. \A v \in Workers : v # w => step'[v] = step[v] /\ Current(v)' = Current(v)
    BY <1>17 DEF CommitEvent, Current, Drop
  <2>3. step'[w] \in {"each", "idle"}
    BY <1>17 DEF CommitEvent
  <2>4. /\ folded' = folded \cup {Current(w)}
        /\ derived' = [derived EXCEPT ![Current(w)] = derived[Current(w)] + 1]
        /\ UNCHANGED <<raw, failed, session>>
    BY <1>17 DEF CommitEvent
  <2> QED
    BY <2>1, <2>2, <2>3, <2>4
<1>18. ASSUME NEW w \in Workers, RollbackEvent(w) PROVE RawInv'
  BY <1>18 DEF RollbackEvent, Current
<1>19. ASSUME NEW w \in Workers, ConnectionLost(w) PROVE RawInv'
  BY <1>19 DEF ConnectionLost, Current, Drop
<1>20. ASSUME NEW w \in Workers, RecordEvent(w) PROVE RawInv'
  <2>1. Current(w) \in Events /\ Current(w) \in raw
    BY <1>20, CurrentInEvents DEF RecordEvent
  <2>2. \A v \in Workers : v # w => step'[v] = step[v] /\ Current(v)' = Current(v)
    BY <1>20 DEF RecordEvent, Current
  <2>3. step'[w] = "each"
    BY <1>20 DEF RecordEvent
  <2> QED
    BY <1>20, <2>1, <2>2, <2>3 DEF RecordEvent
<1>21. ASSUME NEW w \in Workers, ClearQuarantine(w) PROVE RawInv'
  BY <1>21 DEF ClearQuarantine, Current
<1>22. ASSUME NEW w \in Workers, SaveCursor(w) PROVE RawInv'
  <2>1. \A v \in Workers : v # w => step'[v] = step[v] /\ Current(v)' = Current(v)
    BY <1>22 DEF SaveCursor, ContinueDrain, Drop, Current
  <2>2. step'[w] \notin {"fold", "record"}
    BY <1>22 DEF SaveCursor, ContinueDrain
  <2> QED
    BY <1>22, <2>1, <2>2 DEF SaveCursor
<1>23. ASSUME NEW w \in Workers, TouchCursor(w) PROVE RawInv'
  BY <1>23 DEF TouchCursor, Current, Drop
<1>24. ASSUME NEW w \in Workers, SaveCursorFails(w) PROVE RawInv'
  BY <1>24 DEF SaveCursorFails, Current, Drop
<1>25. ASSUME NEW w \in Workers, NEW c \in Contracts, LoadCursor(w, c) PROVE RawInv'
  BY <1>25 DEF LoadCursor, Current
<1>26. ASSUME NEW o \in Operators, NEW e \in Events, BeginReplay(o, e) PROVE RawInv'
  <2>1. UNCHANGED <<raw, folded, derived, step, locals>>
    BY <1>26 DEF BeginReplay
  <2>2. \A f \in Events : failed'[f] = "open" => failed[f] = "open"
    BY <1>26 DEF BeginReplay
  <2>3. \A p \in Operators : session'[p].ev \subseteq raw
    <3>1. CASE e \in folded
      BY <1>26, <3>1 DEF BeginReplay
    <3>2. CASE e \notin folded
      <4>1. session' = [session EXCEPT ![o] = ReplayOf(e)] /\ e \in raw
        BY <1>26, <3>2 DEF BeginReplay
      <4>2. ReplayOf(e).ev \subseteq raw
        BY <4>1 DEF ReplayOf
      <4> QED
        BY <4>1, <4>2
    <3> QED
      BY <3>1, <3>2
  <2> QED
    BY <2>1, <2>2, <2>3 DEF Current
<1>27. ASSUME NEW o \in Operators, CommitReplay(o) PROVE RawInv'
  BY <1>27 DEF CommitReplay, EndSession, NoSession, Current
<1>28. ASSUME NEW o \in Operators, BeginReindex(o) PROVE RawInv'
  BY <1>28 DEF BeginReindex, NoSession, Rebuild, Current
<1>29. ASSUME NEW o \in Operators, CommitReindex(o) PROVE RawInv'
  BY <1>29 DEF CommitReindex, EndSession, NoSession, Current
<1>30. ASSUME NEW o \in Operators, AbortSession(o) PROVE RawInv'
  BY <1>30 DEF AbortSession, EndSession, NoSession, Current
<1>31. ASSUME NEW ids \in SUBSET Events, BatchResolve(ids) PROVE RawInv'
  BY <1>31 DEF BatchResolve, Current
<1>32. ASSUME NEW ids \in SUBSET Events, CleanupExpired(ids) PROVE RawInv'
  BY <1>32 DEF CleanupExpired, Current
<1>33. CASE ShipFix
  BY <1>33 DEF ShipFix, Current
<1>34. CASE Repoint
  BY <1>34 DEF Repoint, Current
<1> QED
  BY <1>1, <1>2, <1>3, <1>4, <1>5, <1>6, <1>7, <1>8, <1>9, <1>10, <1>11, <1>12,
     <1>13, <1>14, <1>15, <1>16, <1>17, <1>18, <1>19, <1>20, <1>21, <1>22, <1>23,
     <1>24, <1>25, <1>26, <1>27, <1>28, <1>29, <1>30, <1>31, <1>32, <1>33, <1>34
  DEF Next, WorkerStep, PollStep, OperatorStep

\* One more event in the log extends the stretch without holes by one.
LEMMA LoggedOneMore ==
    ASSUME NEW c \in Contracts, NEW n \in Nat, NEW m \in {n - 1, n}, LoggedTo(c, n - 1),
           raw \subseteq raw', <<c, n>> \in raw'
    PROVE  \A i \in 1..Length : i <= m => <<c, i>> \in raw'
  BY ConstantsAssumption DEF LoggedTo

\* A step that keeps the raw rows concerns only the cursors and its own worker.
LEMMA LogKept ==
    ASSUME LogInv, NEW w \in Workers, raw \subseteq raw',
           \A v \in Workers : v # w => Handled(v)' = Handled(v) /\ at'[v] = at[v],
           LoggedTo(at[w], Handled(w))', \A c \in Contracts : LoggedTo(c, cursor[c])'
    PROVE  LogInv'
  BY DEF LogInv, LoggedTo

\* No step of any process opens a hole in the raw log below a cursor.
LEMMA LogNext ==
    TypeOK /\ RangeInv /\ RawInv /\ LogInv /\ [Next]_vars
    => LogInv'
<1> SUFFICES ASSUME TypeOK, RangeInv, RawInv, LogInv, [Next]_vars
             PROVE  LogInv'
  OBVIOUS
<1> USE ConstantsAssumption DEF TypeOK, LogInv, chainVars, dbVars, processVars,
        locals, boundVars, historyVars, AtStep, Moved, Goto, EndPoll, Advance, Raise, LockFree,
        Acquire, Release
<1>1. CASE UNCHANGED vars
  BY <1>1 DEF vars, Handled, LoggedTo
<1>2. ASSUME NEW c \in Contracts, Emit(c) PROVE LogInv'
  BY <1>2 DEF Emit, Handled, LoggedTo, Positions
<1>3. ASSUME NEW w \in Workers, Start(w) PROVE LogInv'
  BY <1>3 DEF Start, Handled, LoggedTo, Drop, Positions
<1>4. ASSUME NEW w \in Workers, StartWithReset(w) PROVE LogInv'
  BY <1>4 DEF StartWithReset, Handled, LoggedTo, Drop, Positions
<1>5. ASSUME NEW w \in Workers, Exit(w) PROVE LogInv'
  BY <1>5 DEF Exit, Handled, LoggedTo, Drop, Positions
<1>6. ASSUME NEW w \in Workers, FetchPage(w) PROVE LogInv'
  BY <1>6 DEF FetchPage, Handled, LoggedTo, Positions
<1>7. ASSUME NEW w \in Workers, FetchFails(w) PROVE LogInv'
  BY <1>7 DEF FetchFails, Handled, LoggedTo, Drop, Positions
<1>8. ASSUME NEW w \in Workers, LoadQuarantineState(w) PROVE LogInv'
  BY <1>8 DEF LoadQuarantineState, Handled, LoggedTo, Positions
<1>9. ASSUME NEW w \in Workers, SkipEmptyPage(w) PROVE LogInv'
  BY <1>9 DEF SkipEmptyPage, Handled, LoggedTo, Positions
<1>10. ASSUME NEW w \in Workers, BeginPage(w) PROVE LogInv'
  BY <1>10 DEF BeginPage, Handled, LoggedTo, Positions
<1>11. ASSUME NEW w \in Workers, PageLocked(w) PROVE LogInv'
  BY <1>11 DEF PageLocked, Handled, LoggedTo, Positions
<1>12. ASSUME NEW w \in Workers, CommitPage(w) PROVE LogInv'
  <2>1. \A v \in Workers : v # w => Handled(v)' = Handled(v) /\ at'[v] = at[v]
    BY <1>12 DEF CommitPage, Drop, Handled
  <2>2. Handled(w)' \in {last[w], pos[w]} /\ at'[w] = at[w] /\ Handled(w) = pos[w]
    BY <1>12 DEF CommitPage, Handled
  <2>3. raw' = raw \cup Page(w) /\ cursor' = cursor
    BY <1>12 DEF CommitPage
  <2>4. \A i \in 1..Length : pos[w] < i /\ i <= last[w] => <<at[w], i>> \in Page(w)
    BY DEF Page, Span, Positions
  <2>5. \A c \in Contracts : LoggedTo(c, cursor[c])'
    BY <2>2, <2>3, <2>4 DEF LoggedTo
  <2>6. LoggedTo(at[w], Handled(w))'
    BY <2>2, <2>3, <2>4 DEF LoggedTo, Positions
  <2>7. raw \subseteq raw'
    BY <2>2, <2>3, <2>4
  <2> QED
    BY <2>1, <2>5, <2>6, <2>7, LogKept
<1>13. ASSUME NEW w \in Workers, RollbackPage(w) PROVE LogInv'
  <2>1. PICK x : Raise(w, x)
    BY <1>13 DEF RollbackPage
  <2> QED
    BY <1>13, <2>1 DEF RollbackPage, Handled, LoggedTo, Positions
<1>14. ASSUME NEW w \in Workers, CountFailure(w) PROVE LogInv'
  <2>1. \A v \in Workers : v # w => Handled(v)' = Handled(v) /\ at'[v] = at[v]
    BY <1>14 DEF CountFailure, EnterPerEvent, Drop, Handled
  <2>2. Handled(w) = pos[w]
    BY <1>14 DEF CountFailure, Handled
  <2>3. Handled(w)' = 0 \/ (at'[w] = at[w] /\ Handled(w)' = pos[w])
    <3>1. CASE EndPoll(w)
      BY <3>1 DEF Drop, Handled
    <3>2. CASE EnterPerEvent(w)
      BY <3>2 DEF EnterPerEvent, Handled, Positions
    <3> QED
      BY <1>14, <3>1, <3>2 DEF CountFailure
  <2>4. UNCHANGED <<raw, cursor>>
    BY <1>14 DEF CountFailure
  <2>5. \A c \in Contracts : LoggedTo(c, cursor[c])'
    BY <2>2, <2>3, <2>4 DEF LoggedTo
  <2>6. LoggedTo(at[w], Handled(w))'
    BY <2>2, <2>3, <2>4 DEF LoggedTo, Positions
  <2>7. raw \subseteq raw'
    BY <2>2, <2>3, <2>4
  <2> QED
    BY <2>1, <2>5, <2>6, <2>7, LogKept
<1>15. ASSUME NEW w \in Workers, BeginEvent(w) PROVE LogInv'
  <2>1. \A v \in Workers : v # w => Handled(v)' = Handled(v) /\ at'[v] = at[v]
    BY <1>15 DEF BeginEvent, Drop, Handled
  <2>2. at'[w] = at[w] /\ Handled(w) = next[w] - 1
    BY <1>15 DEF BeginEvent, Handled
  <2>3. next[w] \in Nat /\ LoggedTo(at[w], next[w] - 1)
    BY <2>2
  <2>4. Handled(w)' \in {next[w] - 1, next[w]}
    BY <1>15, next[w] \in Nat DEF BeginEvent, Handled
  <2>5. raw' = raw \cup {<<at[w], next[w]>>} /\ cursor' = cursor
    BY <1>15 DEF BeginEvent, Current
  <2>6. \A c \in Contracts : LoggedTo(c, cursor[c])'
    BY <2>2, <2>3, <2>4, <2>5 DEF LoggedTo
  <2>7. LoggedTo(at[w], Handled(w))'
    <3>1. raw \subseteq raw' /\ <<at[w], next[w]>> \in raw' /\ at[w] \in Contracts
      BY <2>5
    <3>2. \A i \in 1..Length : i <= Handled(w)' => <<at[w], i>> \in raw'
      BY ONLY <2>3, <2>4, <3>1, LoggedOneMore
    <3> QED
      BY <2>2, <3>2 DEF LoggedTo
  <2>8. raw \subseteq raw'
    BY <2>2, <2>3, <2>4, <2>5
  <2> QED
    BY <2>1, <2>6, <2>7, <2>8, LogKept
<1>16. ASSUME NEW w \in Workers, EventRefused(w) PROVE LogInv'
  BY <1>16 DEF EventRefused, Handled, LoggedTo, Drop, Positions
<1>17. ASSUME NEW w \in Workers, CommitEvent(w) PROVE LogInv'
  <2>1. \A v \in Workers : v # w => Handled(v)' = Handled(v) /\ at'[v] = at[v]
    BY <1>17 DEF CommitEvent, Drop, Handled
  <2>2. (at'[w] = at[w] /\ Handled(w)' = next[w]) \/ Handled(w)' = 0
    BY <1>17 DEF CommitEvent, Handled, Drop
  <2>3. Handled(w) = next[w] - 1
    BY <1>17 DEF CommitEvent, Handled
  <2>4. next[w] \in Nat /\ LoggedTo(at[w], next[w] - 1)
    BY <2>3
  <2>5. <<at[w], next[w]>> \in raw /\ UNCHANGED <<raw, cursor>>
    BY <1>17 DEF CommitEvent, Current, RawInv
  <2>6. \A c \in Contracts : LoggedTo(c, cursor[c])'
    BY <2>5 DEF LoggedTo
  <2>7. LoggedTo(at[w], Handled(w))'
    <3>1. \A i \in 1..Length : i <= next[w] => <<at[w], i>> \in raw'
      BY ONLY <2>4, <2>5, at[w] \in Contracts, LoggedOneMore
    <3> QED
      BY <2>2, <3>1 DEF LoggedTo
  <2> QED
    BY <2>1, <2>5, <2>6, <2>7, LogKept
<1>18. ASSUME NEW w \in Workers, RollbackEvent(w) PROVE LogInv'
  BY <1>18 DEF RollbackEvent, Handled, LoggedTo, Positions
<1>19. ASSUME NEW w \in Workers, ConnectionLost(w) PROVE LogInv'
  BY <1>19 DEF ConnectionLost, Handled, LoggedTo, Drop, Positions
<1>20. ASSUME NEW w \in Workers, RecordEvent(w) PROVE LogInv'
  <2>1. \A v \in Workers : v # w => Handled(v)' = Handled(v) /\ at'[v] = at[v]
    BY <1>20 DEF RecordEvent, Drop, Handled
  <2>2. at'[w] = at[w] /\ Handled(w)' = next[w] /\ Handled(w) = next[w] - 1
    BY <1>20 DEF RecordEvent, Handled
  <2>3. next[w] \in Nat /\ LoggedTo(at[w], next[w] - 1)
    BY <2>2
  <2>4. <<at[w], next[w]>> \in raw /\ UNCHANGED <<raw, cursor>>
    BY <1>20 DEF RecordEvent, Current, RawInv
  <2>5. \A c \in Contracts : LoggedTo(c, cursor[c])'
    BY <2>2, <2>3, <2>4 DEF LoggedTo
  <2>6. LoggedTo(at[w], Handled(w))'
    BY <2>2, <2>3, <2>4, at[w] \in Contracts, raw \subseteq raw', LoggedOneMore DEF LoggedTo
  <2>7. raw \subseteq raw'
    BY <2>2, <2>3, <2>4
  <2> QED
    BY <2>1, <2>5, <2>6, <2>7, LogKept
<1>21. ASSUME NEW w \in Workers, ClearQuarantine(w) PROVE LogInv'
  <2>1. \A v \in Workers : v # w => Handled(v)' = Handled(v) /\ at'[v] = at[v]
    BY <1>21 DEF ClearQuarantine, Drop, Handled
  <2>2. at'[w] = at[w] /\ Handled(w)' = last[w] /\ Handled(w) >= last[w] /\ Handled(w) \in Nat
    BY <1>21 DEF ClearQuarantine, Handled, RangeInv, Positions
  <2>3. UNCHANGED <<raw, cursor>>
    BY <1>21 DEF ClearQuarantine
  <2>4. \A c \in Contracts : LoggedTo(c, cursor[c])'
    BY <2>2, <2>3 DEF LoggedTo
  <2>5. LoggedTo(at[w], Handled(w))'
    BY <2>2, <2>3 DEF LoggedTo, Positions
  <2>6. raw \subseteq raw'
    BY <2>2, <2>3
  <2> QED
    BY <2>1, <2>4, <2>5, <2>6, LogKept
<1>22. ASSUME NEW w \in Workers, SaveCursor(w) PROVE LogInv'
  <2>1. \A v \in Workers : v # w => Handled(v)' = Handled(v) /\ at'[v] = at[v]
    BY <1>22 DEF SaveCursor, ContinueDrain, Drop, Handled
  <2>2. Handled(w) = last[w] /\ cursor' = [cursor EXCEPT ![at[w]] = last[w]] /\ raw' = raw
    BY <1>22 DEF SaveCursor, Handled
  <2>3. Handled(w)' = 0 \/ (at'[w] = at[w] /\ Handled(w)' = last[w])
    BY <1>22 DEF SaveCursor, ContinueDrain, Drop, Handled
  <2>4. \A c \in Contracts : LoggedTo(c, cursor[c])'
    BY <2>2, <2>3 DEF LoggedTo
  <2>5. LoggedTo(at[w], Handled(w))'
    BY <2>2, <2>3 DEF LoggedTo, Positions
  <2>6. raw \subseteq raw'
    BY <2>2, <2>3
  <2> QED
    BY <2>1, <2>4, <2>5, <2>6, LogKept
<1>23. ASSUME NEW w \in Workers, TouchCursor(w) PROVE LogInv'
  BY <1>23 DEF TouchCursor, Handled, LoggedTo, Drop, Positions
<1>24. ASSUME NEW w \in Workers, SaveCursorFails(w) PROVE LogInv'
  BY <1>24 DEF SaveCursorFails, Handled, LoggedTo, Drop, Positions
<1>25. ASSUME NEW w \in Workers, NEW c \in Contracts, LoadCursor(w, c) PROVE LogInv'
  <2>1. \A v \in Workers : v # w => Handled(v)' = Handled(v) /\ at'[v] = at[v]
    BY <1>25 DEF LoadCursor, Handled
  <2>2. at'[w] = c /\ Handled(w)' = cursor[c] /\ UNCHANGED <<raw, cursor>>
    BY <1>25 DEF LoadCursor, Handled
  <2>3. LoggedTo(at[w], Handled(w))'
    BY <2>2 DEF LoggedTo
  <2>4. \A d \in Contracts : LoggedTo(d, cursor[d])'
    BY <2>2 DEF LoggedTo
  <2> QED
    BY <2>1, <2>2, <2>3, <2>4, LogKept
<1>26. ASSUME NEW o \in Operators, NEW e \in Events, BeginReplay(o, e) PROVE LogInv'
  BY <1>26 DEF BeginReplay, NoSession, ReplayOf, Handled, LoggedTo
<1>27. ASSUME NEW o \in Operators, CommitReplay(o) PROVE LogInv'
  BY <1>27 DEF CommitReplay, EndSession, NoSession, Handled, LoggedTo
<1>28. ASSUME NEW o \in Operators, BeginReindex(o) PROVE LogInv'
  BY <1>28 DEF BeginReindex, NoSession, Rebuild, Handled, LoggedTo
<1>29. ASSUME NEW o \in Operators, CommitReindex(o) PROVE LogInv'
  BY <1>29 DEF CommitReindex, EndSession, NoSession, Handled, LoggedTo
<1>30. ASSUME NEW o \in Operators, AbortSession(o) PROVE LogInv'
  BY <1>30 DEF AbortSession, EndSession, NoSession, Handled, LoggedTo
<1>31. ASSUME NEW ids \in SUBSET Events, BatchResolve(ids) PROVE LogInv'
  BY <1>31 DEF BatchResolve, Handled, LoggedTo
<1>32. ASSUME NEW ids \in SUBSET Events, CleanupExpired(ids) PROVE LogInv'
  BY <1>32 DEF CleanupExpired, Handled, LoggedTo
<1>33. CASE ShipFix
  BY <1>33 DEF ShipFix, Handled, LoggedTo
<1>34. CASE Repoint
  BY <1>34 DEF Repoint, Handled, LoggedTo
<1> QED
  BY <1>1, <1>2, <1>3, <1>4, <1>5, <1>6, <1>7, <1>8, <1>9, <1>10, <1>11, <1>12,
     <1>13, <1>14, <1>15, <1>16, <1>17, <1>18, <1>19, <1>20, <1>21, <1>22, <1>23,
     <1>24, <1>25, <1>26, <1>27, <1>28, <1>29, <1>30, <1>31, <1>32, <1>33, <1>34
  DEF Next, WorkerStep, PollStep, OperatorStep

-----------------------------------------------------------------------------
\* An effect without folded_at, or a second one, comes from a reindex.
OnceInv ==
    \A e \in Events :
        /\ derived[e] > 1 => e \in rebuilt
        /\ derived[e] > 0 /\ e \notin folded => e \in rebuilt

\* No step applies an event that has its effect already, a reindex's aside: the
\* folds go by folded_at, read fresh under the lock.
LEMMA OnceNext ==
    TypeOK /\ RangeInv /\ FreshInv /\ OnceInv /\ [Next]_vars
    => OnceInv'
<1> SUFFICES ASSUME TypeOK, RangeInv, FreshInv, OnceInv, [Next]_vars
             PROVE  OnceInv'
  OBVIOUS
<1> USE ConstantsAssumption DEF TypeOK, OnceInv, chainVars, dbVars, processVars,
        locals, boundVars, historyVars, AtStep, Moved, Goto, EndPoll, Advance, Raise, LockFree,
        Acquire, Release
<1>1. CASE UNCHANGED vars
  BY <1>1 DEF vars
<1>2. ASSUME NEW c \in Contracts, Emit(c) PROVE OnceInv'
  BY <1>2 DEF Emit
<1>3. ASSUME NEW w \in Workers, Start(w) PROVE OnceInv'
  BY <1>3 DEF Start
<1>4. ASSUME NEW w \in Workers, StartWithReset(w) PROVE OnceInv'
  BY <1>4 DEF StartWithReset
<1>5. ASSUME NEW w \in Workers, Exit(w) PROVE OnceInv'
  BY <1>5 DEF Exit
<1>6. ASSUME NEW w \in Workers, FetchPage(w) PROVE OnceInv'
  BY <1>6 DEF FetchPage
<1>7. ASSUME NEW w \in Workers, FetchFails(w) PROVE OnceInv'
  BY <1>7 DEF FetchFails
<1>8. ASSUME NEW w \in Workers, LoadQuarantineState(w) PROVE OnceInv'
  BY <1>8 DEF LoadQuarantineState
<1>9. ASSUME NEW w \in Workers, SkipEmptyPage(w) PROVE OnceInv'
  BY <1>9 DEF SkipEmptyPage
<1>10. ASSUME NEW w \in Workers, BeginPage(w) PROVE OnceInv'
  BY <1>10 DEF BeginPage
<1>11. ASSUME NEW w \in Workers, PageLocked(w) PROVE OnceInv'
  BY <1>11 DEF PageLocked
<1>12. ASSUME NEW w \in Workers, CommitPage(w) PROVE OnceInv'
  <2>1. todo[w] \cap folded = {}
    BY <1>12 DEF CommitPage, FreshInv, NeedsFoldIsFresh
  <2> QED
    BY <1>12, <2>1 DEF CommitPage
<1>13. ASSUME NEW w \in Workers, RollbackPage(w) PROVE OnceInv'
  BY <1>13 DEF RollbackPage
<1>14. ASSUME NEW w \in Workers, CountFailure(w) PROVE OnceInv'
  BY <1>14 DEF CountFailure, EnterPerEvent
<1>15. ASSUME NEW w \in Workers, BeginEvent(w) PROVE OnceInv'
  BY <1>15 DEF BeginEvent
<1>16. ASSUME NEW w \in Workers, EventRefused(w) PROVE OnceInv'
  BY <1>16 DEF EventRefused
<1>17. ASSUME NEW w \in Workers, CommitEvent(w) PROVE OnceInv'
  <2>1. Current(w) \notin folded
    BY <1>17 DEF CommitEvent, FreshInv, NeedsFoldIsFresh
  <2> QED
    BY <1>17, <2>1 DEF CommitEvent
<1>18. ASSUME NEW w \in Workers, RollbackEvent(w) PROVE OnceInv'
  BY <1>18 DEF RollbackEvent
<1>19. ASSUME NEW w \in Workers, ConnectionLost(w) PROVE OnceInv'
  BY <1>19 DEF ConnectionLost
<1>20. ASSUME NEW w \in Workers, RecordEvent(w) PROVE OnceInv'
  BY <1>20 DEF RecordEvent
<1>21. ASSUME NEW w \in Workers, ClearQuarantine(w) PROVE OnceInv'
  BY <1>21 DEF ClearQuarantine
<1>22. ASSUME NEW w \in Workers, SaveCursor(w) PROVE OnceInv'
  BY <1>22 DEF SaveCursor, ContinueDrain
<1>23. ASSUME NEW w \in Workers, TouchCursor(w) PROVE OnceInv'
  BY <1>23 DEF TouchCursor
<1>24. ASSUME NEW w \in Workers, SaveCursorFails(w) PROVE OnceInv'
  BY <1>24 DEF SaveCursorFails
<1>25. ASSUME NEW w \in Workers, NEW c \in Contracts, LoadCursor(w, c) PROVE OnceInv'
  BY <1>25 DEF LoadCursor
<1>26. ASSUME NEW o \in Operators, NEW e \in Events, BeginReplay(o, e) PROVE OnceInv'
  BY <1>26 DEF BeginReplay
<1>27. ASSUME NEW o \in Operators, CommitReplay(o) PROVE OnceInv'
  <2>1. session[o].ev \cap folded = {}
    BY DEF FreshInv, NeedsFoldIsFresh
  <2> QED
    BY <1>27, <2>1 DEF CommitReplay
<1>28. ASSUME NEW o \in Operators, BeginReindex(o) PROVE OnceInv'
  BY <1>28 DEF BeginReindex
<1>29. ASSUME NEW o \in Operators, CommitReindex(o) PROVE OnceInv'
  BY <1>29 DEF CommitReindex, EndSession
<1>30. ASSUME NEW o \in Operators, AbortSession(o) PROVE OnceInv'
  BY <1>30 DEF AbortSession, EndSession
<1>31. ASSUME NEW ids \in SUBSET Events, BatchResolve(ids) PROVE OnceInv'
  BY <1>31 DEF BatchResolve
<1>32. ASSUME NEW ids \in SUBSET Events, CleanupExpired(ids) PROVE OnceInv'
  BY <1>32 DEF CleanupExpired
<1>33. CASE ShipFix
  BY <1>33 DEF ShipFix
<1>34. CASE Repoint
  BY <1>34 DEF Repoint
<1> QED
  BY <1>1, <1>2, <1>3, <1>4, <1>5, <1>6, <1>7, <1>8, <1>9, <1>10, <1>11, <1>12,
     <1>13, <1>14, <1>15, <1>16, <1>17, <1>18, <1>19, <1>20, <1>21, <1>22, <1>23,
     <1>24, <1>25, <1>26, <1>27, <1>28, <1>29, <1>30, <1>31, <1>32, <1>33, <1>34
  DEF Next, WorkerStep, PollStep, OperatorStep

\* Without a reset nothing takes the effect of a folded event out for good: reindex
\* truncates, and applies the whole log again in the same transaction.
LEMMA AppliedNext ==
    ~ResetOnContractChange /\ TypeOK /\ RangeInv /\ RawInv /\ FoldedIsApplied /\ [Next]_vars
    => FoldedIsApplied'
<1> SUFFICES ASSUME ~ResetOnContractChange, TypeOK, RangeInv, RawInv, FoldedIsApplied, [Next]_vars
             PROVE  FoldedIsApplied'
  OBVIOUS
<1> USE ConstantsAssumption DEF TypeOK, FoldedIsApplied, chainVars, dbVars, processVars,
        locals, boundVars, historyVars, AtStep, Moved, Goto, EndPoll, Advance, Raise, LockFree,
        Acquire, Release
<1>1. CASE UNCHANGED vars
  BY <1>1 DEF vars
<1>2. ASSUME NEW c \in Contracts, Emit(c) PROVE FoldedIsApplied'
  BY <1>2 DEF Emit
<1>3. ASSUME NEW w \in Workers, Start(w) PROVE FoldedIsApplied'
  BY <1>3 DEF Start
<1>4. ASSUME NEW w \in Workers, StartWithReset(w) PROVE FoldedIsApplied'
  BY <1>4 DEF StartWithReset
<1>5. ASSUME NEW w \in Workers, Exit(w) PROVE FoldedIsApplied'
  BY <1>5 DEF Exit
<1>6. ASSUME NEW w \in Workers, FetchPage(w) PROVE FoldedIsApplied'
  BY <1>6 DEF FetchPage
<1>7. ASSUME NEW w \in Workers, FetchFails(w) PROVE FoldedIsApplied'
  BY <1>7 DEF FetchFails
<1>8. ASSUME NEW w \in Workers, LoadQuarantineState(w) PROVE FoldedIsApplied'
  BY <1>8 DEF LoadQuarantineState
<1>9. ASSUME NEW w \in Workers, SkipEmptyPage(w) PROVE FoldedIsApplied'
  BY <1>9 DEF SkipEmptyPage
<1>10. ASSUME NEW w \in Workers, BeginPage(w) PROVE FoldedIsApplied'
  BY <1>10 DEF BeginPage
<1>11. ASSUME NEW w \in Workers, PageLocked(w) PROVE FoldedIsApplied'
  BY <1>11 DEF PageLocked
<1>12. ASSUME NEW w \in Workers, CommitPage(w) PROVE FoldedIsApplied'
  BY <1>12 DEF CommitPage
<1>13. ASSUME NEW w \in Workers, RollbackPage(w) PROVE FoldedIsApplied'
  BY <1>13 DEF RollbackPage
<1>14. ASSUME NEW w \in Workers, CountFailure(w) PROVE FoldedIsApplied'
  BY <1>14 DEF CountFailure, EnterPerEvent
<1>15. ASSUME NEW w \in Workers, BeginEvent(w) PROVE FoldedIsApplied'
  BY <1>15 DEF BeginEvent
<1>16. ASSUME NEW w \in Workers, EventRefused(w) PROVE FoldedIsApplied'
  BY <1>16 DEF EventRefused
<1>17. ASSUME NEW w \in Workers, CommitEvent(w) PROVE FoldedIsApplied'
  <2>1. Current(w) \in Events
    BY <1>17, CurrentInEvents DEF CommitEvent
  <2> QED
    BY <1>17, <2>1 DEF CommitEvent
<1>18. ASSUME NEW w \in Workers, RollbackEvent(w) PROVE FoldedIsApplied'
  BY <1>18 DEF RollbackEvent
<1>19. ASSUME NEW w \in Workers, ConnectionLost(w) PROVE FoldedIsApplied'
  BY <1>19 DEF ConnectionLost
<1>20. ASSUME NEW w \in Workers, RecordEvent(w) PROVE FoldedIsApplied'
  BY <1>20 DEF RecordEvent
<1>21. ASSUME NEW w \in Workers, ClearQuarantine(w) PROVE FoldedIsApplied'
  BY <1>21 DEF ClearQuarantine
<1>22. ASSUME NEW w \in Workers, SaveCursor(w) PROVE FoldedIsApplied'
  BY <1>22 DEF SaveCursor, ContinueDrain
<1>23. ASSUME NEW w \in Workers, TouchCursor(w) PROVE FoldedIsApplied'
  BY <1>23 DEF TouchCursor
<1>24. ASSUME NEW w \in Workers, SaveCursorFails(w) PROVE FoldedIsApplied'
  BY <1>24 DEF SaveCursorFails
<1>25. ASSUME NEW w \in Workers, NEW c \in Contracts, LoadCursor(w, c) PROVE FoldedIsApplied'
  BY <1>25 DEF LoadCursor
<1>26. ASSUME NEW o \in Operators, NEW e \in Events, BeginReplay(o, e) PROVE FoldedIsApplied'
  BY <1>26 DEF BeginReplay
<1>27. ASSUME NEW o \in Operators, CommitReplay(o) PROVE FoldedIsApplied'
  <2>1. PICK e \in session[o].ev : /\ folded' = folded \cup {e}
                                 /\ derived' = [derived EXCEPT ![e] = derived[e] + 1]
    BY <1>27 DEF CommitReplay
  <2>2. e \in Events
    BY <2>1 DEF RawInv
  <2> QED
    BY <2>1, <2>2
<1>28. ASSUME NEW o \in Operators, BeginReindex(o) PROVE FoldedIsApplied'
  BY <1>28 DEF BeginReindex
<1>29. ASSUME NEW o \in Operators, CommitReindex(o) PROVE FoldedIsApplied'
  BY <1>29 DEF CommitReindex, EndSession, RawInv
<1>30. ASSUME NEW o \in Operators, AbortSession(o) PROVE FoldedIsApplied'
  BY <1>30 DEF AbortSession, EndSession
<1>31. ASSUME NEW ids \in SUBSET Events, BatchResolve(ids) PROVE FoldedIsApplied'
  BY <1>31 DEF BatchResolve
<1>32. ASSUME NEW ids \in SUBSET Events, CleanupExpired(ids) PROVE FoldedIsApplied'
  BY <1>32 DEF CleanupExpired
<1>33. CASE ShipFix
  BY <1>33 DEF ShipFix
<1>34. CASE Repoint
  BY <1>34 DEF Repoint
<1> QED
  BY <1>1, <1>2, <1>3, <1>4, <1>5, <1>6, <1>7, <1>8, <1>9, <1>10, <1>11, <1>12,
     <1>13, <1>14, <1>15, <1>16, <1>17, <1>18, <1>19, <1>20, <1>21, <1>22, <1>23,
     <1>24, <1>25, <1>26, <1>27, <1>28, <1>29, <1>30, <1>31, <1>32, <1>33, <1>34
  DEF Next, WorkerStep, PollStep, OperatorStep

-----------------------------------------------------------------------------
\* Every event of contract c up to n is accounted for.
OnBooksTo(c, n) == \A i \in 1..Length : i <= n => Accounted(<<c, i>>)

\* The books have no hole up to a cursor, nor up to where a running call has got.
BooksInv ==
    /\ \A c \in Contracts : OnBooksTo(c, cursor[c])
    /\ \A w \in Workers : OnBooksTo(at[w], Handled(w))

\* A step that takes no event off the books.
StaysAccounted == \A e \in Events : Accounted(e) => Accounted(e)'

\* Once accounted for, an event stays so: replay and reindex close a failed_events
\* row only with the fold, batch-resolve leaves the admin's decision, the sweep
\* deletes resolved rows only.
LEMMA AccountedNext ==
    ~ResetOnContractChange /\ TypeOK /\ RangeInv /\ RawInv /\ FoldedIsApplied /\ [Next]_vars
    => StaysAccounted
<1> SUFFICES ASSUME ~ResetOnContractChange, TypeOK, RangeInv, RawInv, FoldedIsApplied, [Next]_vars
             PROVE  StaysAccounted
  OBVIOUS
<1> USE ConstantsAssumption DEF TypeOK, StaysAccounted, Accounted, FoldedIsApplied,
        chainVars, dbVars, processVars, locals, boundVars, historyVars, AtStep, Moved,
        Goto, EndPoll, Advance, Raise, LockFree,
        Acquire, Release
<1>1. CASE UNCHANGED vars
  BY <1>1 DEF vars
<1>2. ASSUME NEW c \in Contracts, Emit(c) PROVE StaysAccounted
  BY <1>2 DEF Emit
<1>3. ASSUME NEW w \in Workers, Start(w) PROVE StaysAccounted
  BY <1>3 DEF Start
<1>4. ASSUME NEW w \in Workers, StartWithReset(w) PROVE StaysAccounted
  BY <1>4 DEF StartWithReset
<1>5. ASSUME NEW w \in Workers, Exit(w) PROVE StaysAccounted
  BY <1>5 DEF Exit
<1>6. ASSUME NEW w \in Workers, FetchPage(w) PROVE StaysAccounted
  BY <1>6 DEF FetchPage
<1>7. ASSUME NEW w \in Workers, FetchFails(w) PROVE StaysAccounted
  BY <1>7 DEF FetchFails
<1>8. ASSUME NEW w \in Workers, LoadQuarantineState(w) PROVE StaysAccounted
  BY <1>8 DEF LoadQuarantineState
<1>9. ASSUME NEW w \in Workers, SkipEmptyPage(w) PROVE StaysAccounted
  BY <1>9 DEF SkipEmptyPage
<1>10. ASSUME NEW w \in Workers, BeginPage(w) PROVE StaysAccounted
  BY <1>10 DEF BeginPage
<1>11. ASSUME NEW w \in Workers, PageLocked(w) PROVE StaysAccounted
  BY <1>11 DEF PageLocked
<1>12. ASSUME NEW w \in Workers, CommitPage(w) PROVE StaysAccounted
  BY <1>12 DEF CommitPage
<1>13. ASSUME NEW w \in Workers, RollbackPage(w) PROVE StaysAccounted
  BY <1>13 DEF RollbackPage
<1>14. ASSUME NEW w \in Workers, CountFailure(w) PROVE StaysAccounted
  BY <1>14 DEF CountFailure, EnterPerEvent
<1>15. ASSUME NEW w \in Workers, BeginEvent(w) PROVE StaysAccounted
  BY <1>15 DEF BeginEvent
<1>16. ASSUME NEW w \in Workers, EventRefused(w) PROVE StaysAccounted
  BY <1>16 DEF EventRefused
<1>17. ASSUME NEW w \in Workers, CommitEvent(w) PROVE StaysAccounted
  <2>1. Current(w) \in Events
    BY <1>17, CurrentInEvents DEF CommitEvent
  <2> QED
    BY <1>17, <2>1 DEF CommitEvent
<1>18. ASSUME NEW w \in Workers, RollbackEvent(w) PROVE StaysAccounted
  BY <1>18 DEF RollbackEvent
<1>19. ASSUME NEW w \in Workers, ConnectionLost(w) PROVE StaysAccounted
  BY <1>19 DEF ConnectionLost
<1>20. ASSUME NEW w \in Workers, RecordEvent(w) PROVE StaysAccounted
  <2>1. Current(w) \in Events
    BY <1>20, CurrentInEvents DEF RecordEvent
  <2> QED
    BY <1>20, <2>1 DEF RecordEvent
<1>21. ASSUME NEW w \in Workers, ClearQuarantine(w) PROVE StaysAccounted
  BY <1>21 DEF ClearQuarantine
<1>22. ASSUME NEW w \in Workers, SaveCursor(w) PROVE StaysAccounted
  BY <1>22 DEF SaveCursor, ContinueDrain
<1>23. ASSUME NEW w \in Workers, TouchCursor(w) PROVE StaysAccounted
  BY <1>23 DEF TouchCursor
<1>24. ASSUME NEW w \in Workers, SaveCursorFails(w) PROVE StaysAccounted
  BY <1>24 DEF SaveCursorFails
<1>25. ASSUME NEW w \in Workers, NEW c \in Contracts, LoadCursor(w, c) PROVE StaysAccounted
  BY <1>25 DEF LoadCursor
<1>26. ASSUME NEW o \in Operators, NEW f \in Events, BeginReplay(o, f) PROVE StaysAccounted
  BY <1>26 DEF BeginReplay
<1>27. ASSUME NEW o \in Operators, CommitReplay(o) PROVE StaysAccounted
  BY <1>27 DEF CommitReplay, EndSession
<1>28. ASSUME NEW o \in Operators, BeginReindex(o) PROVE StaysAccounted
  BY <1>28 DEF BeginReindex
<1>29. ASSUME NEW o \in Operators, CommitReindex(o) PROVE StaysAccounted
  BY <1>29 DEF CommitReindex, EndSession, RawInv
<1>30. ASSUME NEW o \in Operators, AbortSession(o) PROVE StaysAccounted
  BY <1>30 DEF AbortSession, EndSession
<1>31. ASSUME NEW ids \in SUBSET Events, BatchResolve(ids) PROVE StaysAccounted
  BY <1>31 DEF BatchResolve
<1>32. ASSUME NEW ids \in SUBSET Events, CleanupExpired(ids) PROVE StaysAccounted
  BY <1>32 DEF CleanupExpired
<1>33. CASE ShipFix
  BY <1>33 DEF ShipFix
<1>34. CASE Repoint
  BY <1>34 DEF Repoint
<1> QED
  BY <1>1, <1>2, <1>3, <1>4, <1>5, <1>6, <1>7, <1>8, <1>9, <1>10, <1>11, <1>12,
     <1>13, <1>14, <1>15, <1>16, <1>17, <1>18, <1>19, <1>20, <1>21, <1>22, <1>23,
     <1>24, <1>25, <1>26, <1>27, <1>28, <1>29, <1>30, <1>31, <1>32, <1>33, <1>34
  DEF Next, WorkerStep, PollStep, OperatorStep

\* One more event accounted for extends the stretch without holes by one.
LEMMA BookedOneMore ==
    ASSUME NEW c \in Contracts, NEW n \in Nat, NEW m \in {n - 1, n}, OnBooksTo(c, n - 1),
           StaysAccounted,
           n \in 1..Length => Accounted(<<c, n>>)'
    PROVE  \A i \in 1..Length : i <= m => Accounted(<<c, i>>)'
  <1> SUFFICES ASSUME NEW i \in 1..Length, i <= m PROVE Accounted(<<c, i>>)'
    OBVIOUS
  <1>1. i = n \/ i <= n - 1
    BY ConstantsAssumption
  <1>2. <<c, i>> \in Events
    BY DEF Events
  <1> QED
    BY <1>1, <1>2 DEF OnBooksTo, StaysAccounted

\* A step that keeps the books concerns only the cursors and its own worker.
LEMMA BooksKept ==
    ASSUME BooksInv, TypeOK, NEW w \in Workers,
           StaysAccounted,
           \A v \in Workers : v # w => Handled(v)' = Handled(v) /\ at'[v] = at[v],
           OnBooksTo(at[w], Handled(w))', \A c \in Contracts : OnBooksTo(c, cursor[c])'
    PROVE  BooksInv'
  <1>1. ASSUME NEW v \in Workers, v # w PROVE OnBooksTo(at[v], Handled(v))'
    <2>1. \A i \in 1..Length : <<at[v], i>> \in Events
      BY DEF TypeOK, Events
    <2> QED
      BY <1>1, <2>1 DEF BooksInv, OnBooksTo, StaysAccounted
  <1> QED
    BY <1>1 DEF BooksInv

\* A step that moves no cursor, and no call's progress but back to nothing.
ClaimsNothing ==
    /\ UNCHANGED cursor
    /\ \A v \in Workers : (Handled(v)' = Handled(v) /\ at'[v] = at[v]) \/ Handled(v)' = 0

\* A step that moves no cursor and no worker's progress keeps the books.
LEMMA BooksStill ==
    ASSUME BooksInv, TypeOK, StaysAccounted,
           ClaimsNothing
    PROVE  BooksInv'
  <1> USE DEF ClaimsNothing
  <1>1. ASSUME NEW v \in Workers PROVE OnBooksTo(at[v], Handled(v))'
    <2>1. \A i \in 1..Length : <<at[v], i>> \in Events
      BY DEF TypeOK, Events
    <2>2. CASE Handled(v)' = 0
      BY <2>2, ConstantsAssumption DEF OnBooksTo
    <2>3. CASE Handled(v)' = Handled(v) /\ at'[v] = at[v]
      BY <2>1, <2>3 DEF BooksInv, OnBooksTo, StaysAccounted
    <2> QED
      BY <2>2, <2>3
  <1>2. ASSUME NEW c \in Contracts PROVE OnBooksTo(c, cursor[c])'
    BY DEF BooksInv, OnBooksTo, Events, StaysAccounted
  <1> QED
    BY <1>1, <1>2 DEF BooksInv

\* No step lets a cursor pass an event that is not accounted for.
LEMMA BooksNext ==
    ~ResetOnContractChange /\ TypeOK /\ RangeInv /\ FreshInv /\ RawInv /\ FoldedIsApplied
    /\ BooksInv /\ [Next]_vars
    => BooksInv'
<1> SUFFICES ASSUME ~ResetOnContractChange, TypeOK, RangeInv, FreshInv, RawInv, FoldedIsApplied,
                    BooksInv, [Next]_vars
             PROVE  BooksInv'
  OBVIOUS
<1> USE ConstantsAssumption DEF TypeOK, BooksInv, StaysAccounted, chainVars, dbVars,
   processVars,
        locals, boundVars, historyVars, AtStep, Moved, Goto, EndPoll, Advance, Raise, LockFree,
        Acquire, Release
<1>0. StaysAccounted
  BY AccountedNext
<1>1. CASE UNCHANGED vars
  <2>1. ClaimsNothing
    BY <1>1 DEF vars, Drop, Handled, ClaimsNothing
  <2> QED
    BY <2>1, <1>0, BooksStill
<1>2. ASSUME NEW c \in Contracts, Emit(c) PROVE BooksInv'
  <2>1. ClaimsNothing
    BY <1>2 DEF Emit, Drop, Handled, ClaimsNothing
  <2> QED
    BY <2>1, <1>0, BooksStill
<1>3. ASSUME NEW w \in Workers, Start(w) PROVE BooksInv'
  <2>1. ClaimsNothing
    BY <1>3 DEF Start, Drop, Handled, ClaimsNothing
  <2> QED
    BY <2>1, <1>0, BooksStill
<1>4. ASSUME NEW w \in Workers, StartWithReset(w) PROVE BooksInv'
  BY <1>4 DEF StartWithReset
<1>5. ASSUME NEW w \in Workers, Exit(w) PROVE BooksInv'
  <2>1. ClaimsNothing
    BY <1>5 DEF Exit, Drop, Handled, ClaimsNothing
  <2> QED
    BY <2>1, <1>0, BooksStill
<1>6. ASSUME NEW w \in Workers, FetchPage(w) PROVE BooksInv'
  <2>1. ClaimsNothing
    BY <1>6 DEF FetchPage, Drop, Handled, ClaimsNothing
  <2> QED
    BY <2>1, <1>0, BooksStill
<1>7. ASSUME NEW w \in Workers, FetchFails(w) PROVE BooksInv'
  <2>1. ClaimsNothing
    BY <1>7 DEF FetchFails, Drop, Handled, ClaimsNothing
  <2> QED
    BY <2>1, <1>0, BooksStill
<1>8. ASSUME NEW w \in Workers, LoadQuarantineState(w) PROVE BooksInv'
  <2>1. ClaimsNothing
    BY <1>8 DEF LoadQuarantineState, Drop, Handled, ClaimsNothing
  <2> QED
    BY <2>1, <1>0, BooksStill
<1>9. ASSUME NEW w \in Workers, SkipEmptyPage(w) PROVE BooksInv'
  <2>1. \A v \in Workers : v # w => Handled(v)' = Handled(v) /\ at'[v] = at[v]
    BY <1>9 DEF SkipEmptyPage, Handled
  <2>2. last[w] = pos[w]
    <3>1. step[w] = "page" /\ last[w] <= pos[w] /\ last[w] \in Nat /\ pos[w] \in Nat
      BY <1>9 DEF SkipEmptyPage, Positions
    <3>2. pos[w] <= last[w]
      BY <3>1 DEF RangeInv
    <3> QED
      BY ONLY <3>1, <3>2
  <2>3. Handled(w)' = Handled(w) /\ at'[w] = at[w] /\ UNCHANGED cursor
    BY <1>9, <2>2 DEF SkipEmptyPage, Handled
  <2> QED
    BY <2>1, <2>3, <1>0, BooksStill DEF ClaimsNothing
<1>10. ASSUME NEW w \in Workers, BeginPage(w) PROVE BooksInv'
  <2>1. ClaimsNothing
    BY <1>10 DEF BeginPage, Drop, Handled, ClaimsNothing
  <2> QED
    BY <2>1, <1>0, BooksStill
<1>11. ASSUME NEW w \in Workers, PageLocked(w) PROVE BooksInv'
  <2>1. ClaimsNothing
    BY <1>11 DEF PageLocked, Drop, Handled, ClaimsNothing
  <2> QED
    BY <2>1, <1>0, BooksStill
<1>12. ASSUME NEW w \in Workers, CommitPage(w) PROVE BooksInv'
  <2>1. \A v \in Workers : v # w => Handled(v)' = Handled(v) /\ at'[v] = at[v]
    BY <1>12 DEF CommitPage, Drop, Handled
  <2>2. PICK d \in Contracts, n \in Nat : d = at[w] /\ n = last[w]
    BY at[w] \in Contracts, last[w] \in Nat DEF Positions
  <2>3. /\ Handled(w)' \in {n, pos[w]} /\ at'[w] = d
        /\ OnBooksTo(d, pos[w]) /\ UNCHANGED cursor
    BY <1>12, <2>2 DEF CommitPage, Handled
  <2>4. \A i \in 1..Length : ~(i <= pos[w]) /\ i <= n => <<d, i>> \in Page(w)
    BY <2>2 DEF Page, Span, Positions
  <2>5. \A e \in Events : e \in Page(w) => Accounted(e)'
    BY <1>12 DEF CommitPage, FreshInv, NeedsFoldIsFresh, FoldedIsApplied, Accounted
  <2>6. \A i \in 1..Length : i <= n => Accounted(<<d, i>>)'
    BY <2>3, <2>4, <2>5, <1>0 DEF OnBooksTo, Events
  <2>7. \A c \in Contracts : OnBooksTo(c, cursor[c])'
    BY <2>3, <1>0 DEF OnBooksTo, Events
  <2>8. OnBooksTo(at[w], Handled(w))'
    BY <2>3, <2>6, <1>0 DEF OnBooksTo, Events
  <2> QED
    BY <2>1, <2>7, <2>8, <1>0, BooksKept
<1>13. ASSUME NEW w \in Workers, RollbackPage(w) PROVE BooksInv'
  <2>1. PICK x : Raise(w, x)
    BY <1>13 DEF RollbackPage
  <2>2. UNCHANGED cursor /\ \A v \in Workers : Handled(v)' = Handled(v) /\ at'[v] = at[v]
    BY <1>13, <2>1 DEF RollbackPage, Handled
  <2> QED
    BY <2>2, <1>0, BooksStill DEF ClaimsNothing
<1>14. ASSUME NEW w \in Workers, CountFailure(w) PROVE BooksInv'
  <2>1. \A v \in Workers : v # w => Handled(v)' = Handled(v) /\ at'[v] = at[v]
    BY <1>14 DEF CountFailure, EnterPerEvent, Drop, Handled
  <2>2. (Handled(w)' = Handled(w) /\ at'[w] = at[w]) \/ Handled(w)' = 0
    <3>1. CASE EndPoll(w)
      BY <3>1 DEF Drop, Handled
    <3>2. CASE EnterPerEvent(w)
      BY <1>14, <3>2 DEF CountFailure, EnterPerEvent, Handled, Positions
    <3> QED
      BY <1>14, <3>1, <3>2 DEF CountFailure
  <2>3. UNCHANGED cursor
    BY <1>14 DEF CountFailure
  <2> QED
    BY <2>1, <2>2, <2>3, <1>0, BooksStill DEF ClaimsNothing
<1>15. ASSUME NEW w \in Workers, BeginEvent(w) PROVE BooksInv'
  <2>1. \A v \in Workers : v # w => Handled(v)' = Handled(v) /\ at'[v] = at[v]
    BY <1>15 DEF BeginEvent, Drop, Handled
  <2>2. PICK d \in Contracts, n \in Nat : d = at[w] /\ n = next[w]
    BY at[w] \in Contracts, next[w] \in Nat
  <2>3. at'[w] = d /\ Handled(w) = n - 1 /\ UNCHANGED cursor
    BY <1>15, <2>2 DEF BeginEvent, Handled
  <2>4. OnBooksTo(d, n - 1)
    BY <2>2, <2>3
  <2>5. Handled(w)' = n - 1 \/ (Handled(w)' = n /\ <<d, n>> \in folded)
    BY <1>15, <2>2 DEF BeginEvent, Handled, Current
  <2>6. <<d, n>> \in folded => Accounted(<<d, n>>)'
    BY <1>15 DEF BeginEvent, FoldedIsApplied, Accounted
  <2>7. \A c \in Contracts : OnBooksTo(c, cursor[c])'
    BY <2>2, <2>3, <2>4, <2>5, <2>6, <1>0 DEF OnBooksTo, Events
  <2>8. OnBooksTo(at[w], Handled(w))'
    <3>1. CASE Handled(w)' = n - 1
      BY <2>3, <2>4, <3>1, <1>0 DEF OnBooksTo, Events
    <3>2. CASE Handled(w)' = n /\ <<d, n>> \in folded
      <4>1. \A i \in 1..Length : i <= n => Accounted(<<d, i>>)'
        BY ONLY <2>2, <2>4, <2>6, <3>2, <1>0, BookedOneMore
      <4> QED
        BY <2>3, <3>2, <4>1 DEF OnBooksTo
    <3> QED
      BY <2>5, <3>1, <3>2
  <2> QED
    BY <2>1, <2>7, <2>8, <1>0, BooksKept
<1>16. ASSUME NEW w \in Workers, EventRefused(w) PROVE BooksInv'
  <2>1. ClaimsNothing
    BY <1>16 DEF EventRefused, Drop, Handled, ClaimsNothing
  <2> QED
    BY <2>1, <1>0, BooksStill
<1>17. ASSUME NEW w \in Workers, CommitEvent(w) PROVE BooksInv'
  <2>1. \A v \in Workers : v # w => Handled(v)' = Handled(v) /\ at'[v] = at[v]
    BY <1>17 DEF CommitEvent, Drop, Handled
  <2>2. PICK d \in Contracts, n \in Nat : d = at[w] /\ n = next[w]
    BY at[w] \in Contracts, next[w] \in Nat
  <2>3. (at'[w] = d /\ Handled(w)' = n) \/ Handled(w)' = 0
    BY <1>17, <2>2 DEF CommitEvent, Handled, Drop
  <2>4. Handled(w) = n - 1 /\ UNCHANGED cursor
    BY <1>17, <2>2 DEF CommitEvent, Handled
  <2>5. OnBooksTo(d, n - 1)
    BY <2>2, <2>4
  <2>6. Accounted(<<d, n>>)'
    <3>1. Current(w) = <<d, n>> /\ <<d, n>> \in Events
      BY <1>17, <2>2, CurrentInEvents DEF CommitEvent, Current
    <3> QED
      BY <1>17, <3>1 DEF CommitEvent, Accounted
  <2>7. \A c \in Contracts : OnBooksTo(c, cursor[c])'
    BY <2>4, <1>0 DEF OnBooksTo, Events
  <2>8. OnBooksTo(at[w], Handled(w))'
    <3>1. \A i \in 1..Length : i <= n => Accounted(<<d, i>>)'
      BY ONLY <2>2, <2>5, <2>6, <1>0, BookedOneMore
    <3> QED
      BY <2>3, <3>1 DEF OnBooksTo
  <2> QED
    BY <2>1, <2>7, <2>8, <1>0, BooksKept
<1>18. ASSUME NEW w \in Workers, RollbackEvent(w) PROVE BooksInv'
  <2>1. ClaimsNothing
    BY <1>18 DEF RollbackEvent, Drop, Handled, ClaimsNothing
  <2> QED
    BY <2>1, <1>0, BooksStill
<1>19. ASSUME NEW w \in Workers, ConnectionLost(w) PROVE BooksInv'
  <2>1. ClaimsNothing
    BY <1>19 DEF ConnectionLost, Drop, Handled, ClaimsNothing
  <2> QED
    BY <2>1, <1>0, BooksStill
<1>20. ASSUME NEW w \in Workers, RecordEvent(w) PROVE BooksInv'
  <2>1. \A v \in Workers : v # w => Handled(v)' = Handled(v) /\ at'[v] = at[v]
    BY <1>20 DEF RecordEvent, Drop, Handled
  <2>2. PICK d \in Contracts, n \in Nat : d = at[w] /\ n = next[w]
    BY at[w] \in Contracts, next[w] \in Nat
  <2>3. at'[w] = d /\ Handled(w)' = n /\ Handled(w) = n - 1 /\ UNCHANGED cursor
    BY <1>20, <2>2 DEF RecordEvent, Handled
  <2>4. OnBooksTo(d, n - 1)
    BY <2>2, <2>3
  <2>5. Accounted(<<d, n>>)'
    <3>1. Current(w) = <<d, n>> /\ <<d, n>> \in Events
      BY <1>20, <2>2, CurrentInEvents DEF RecordEvent, Current
    <3> QED
      BY <1>20, <3>1 DEF RecordEvent, Accounted
  <2>6. \A c \in Contracts : OnBooksTo(c, cursor[c])'
    BY <2>2, <2>3, <2>4, <2>5, <1>0 DEF OnBooksTo, Events
  <2>7. OnBooksTo(at[w], Handled(w))'
    <3>1. \A i \in 1..Length : i <= Handled(w)' => Accounted(<<d, i>>)'
      BY ONLY <2>2, <2>3, <2>4, <2>5, <1>0, BookedOneMore
    <3> QED
      BY <2>2, <2>3, <3>1 DEF OnBooksTo
  <2> QED
    BY <2>1, <2>6, <2>7, <1>0, BooksKept
<1>21. ASSUME NEW w \in Workers, ClearQuarantine(w) PROVE BooksInv'
  <2>1. \A v \in Workers : v # w => Handled(v)' = Handled(v) /\ at'[v] = at[v]
    BY <1>21 DEF ClearQuarantine, Drop, Handled
  <2>2. at'[w] = at[w] /\ Handled(w)' = last[w] /\ Handled(w) >= last[w] /\ Handled(w) \in Nat
    BY <1>21 DEF ClearQuarantine, Handled, RangeInv, Positions
  <2>3. UNCHANGED cursor
    BY <1>21 DEF ClearQuarantine
  <2>4. \A c \in Contracts : OnBooksTo(c, cursor[c])'
    BY <2>2, <2>3, <1>0 DEF OnBooksTo, Events
  <2>5. OnBooksTo(at[w], Handled(w))'
    BY <2>2, <2>3, <1>0 DEF OnBooksTo, Events, Positions
  <2> QED
    BY <2>1, <2>4, <2>5, <1>0, BooksKept
<1>22. ASSUME NEW w \in Workers, SaveCursor(w) PROVE BooksInv'
  <2>1. \A v \in Workers : v # w => Handled(v)' = Handled(v) /\ at'[v] = at[v]
    BY <1>22 DEF SaveCursor, ContinueDrain, Drop, Handled
  <2>2. PICK d \in Contracts, n \in Nat : d = at[w] /\ n = last[w]
    BY at[w] \in Contracts, last[w] \in Nat DEF Positions
  <2>3. OnBooksTo(d, n) /\ cursor' = [cursor EXCEPT ![d] = n]
    BY <1>22, <2>2 DEF SaveCursor, Handled
  <2>4. \A i \in 1..Length : i <= n => Accounted(<<d, i>>)'
    BY <2>3, <1>0 DEF OnBooksTo, Events
  <2>5. Handled(w)' = 0 \/ (at'[w] = d /\ Handled(w)' = n)
    BY <1>22, <2>2 DEF SaveCursor, ContinueDrain, Drop, Handled
  <2>6. \A c \in Contracts : OnBooksTo(c, cursor[c])'
    BY <2>2, <2>3, <2>4, <2>5, <1>0 DEF OnBooksTo, Events
  <2>7. OnBooksTo(at[w], Handled(w))'
    BY <2>4, <2>5 DEF OnBooksTo
  <2> QED
    BY <2>1, <2>6, <2>7, <1>0, BooksKept
<1>23. ASSUME NEW w \in Workers, TouchCursor(w) PROVE BooksInv'
  <2>1. ClaimsNothing
    BY <1>23 DEF TouchCursor, Drop, Handled, ClaimsNothing
  <2> QED
    BY <2>1, <1>0, BooksStill
<1>24. ASSUME NEW w \in Workers, SaveCursorFails(w) PROVE BooksInv'
  <2>1. ClaimsNothing
    BY <1>24 DEF SaveCursorFails, Drop, Handled, ClaimsNothing
  <2> QED
    BY <2>1, <1>0, BooksStill
<1>25. ASSUME NEW w \in Workers, NEW c \in Contracts, LoadCursor(w, c) PROVE BooksInv'
  <2>1. \A v \in Workers : v # w => Handled(v)' = Handled(v) /\ at'[v] = at[v]
    BY <1>25 DEF LoadCursor, Drop, Handled
  <2>2. at'[w] = c /\ Handled(w)' = cursor[c] /\ UNCHANGED cursor
    BY <1>25 DEF LoadCursor, Handled
  <2>3. \A d \in Contracts : OnBooksTo(d, cursor[d])'
    BY <2>2, <1>0 DEF OnBooksTo, Events
  <2>4. OnBooksTo(at[w], Handled(w))'
    BY <2>2, <1>0 DEF OnBooksTo, Events
  <2> QED
    BY <2>1, <2>3, <2>4, <1>0, BooksKept
<1>26. ASSUME NEW o \in Operators, NEW e \in Events, BeginReplay(o, e) PROVE BooksInv'
  <2>1. ClaimsNothing
    BY <1>26 DEF BeginReplay, Drop, Handled, ClaimsNothing
  <2> QED
    BY <2>1, <1>0, BooksStill
<1>27. ASSUME NEW o \in Operators, CommitReplay(o) PROVE BooksInv'
  <2>1. ClaimsNothing
    BY <1>27 DEF CommitReplay, EndSession, Drop, Handled, ClaimsNothing
  <2> QED
    BY <2>1, <1>0, BooksStill
<1>28. ASSUME NEW o \in Operators, BeginReindex(o) PROVE BooksInv'
  <2>1. ClaimsNothing
    BY <1>28 DEF BeginReindex, Drop, Handled, ClaimsNothing
  <2> QED
    BY <2>1, <1>0, BooksStill
<1>29. ASSUME NEW o \in Operators, CommitReindex(o) PROVE BooksInv'
  <2>1. ClaimsNothing
    BY <1>29 DEF CommitReindex, EndSession, Drop, Handled, ClaimsNothing
  <2> QED
    BY <2>1, <1>0, BooksStill
<1>30. ASSUME NEW o \in Operators, AbortSession(o) PROVE BooksInv'
  <2>1. ClaimsNothing
    BY <1>30 DEF AbortSession, EndSession, Drop, Handled, ClaimsNothing
  <2> QED
    BY <2>1, <1>0, BooksStill
<1>31. ASSUME NEW ids \in SUBSET Events, BatchResolve(ids) PROVE BooksInv'
  <2>1. ClaimsNothing
    BY <1>31 DEF BatchResolve, Drop, Handled, ClaimsNothing
  <2> QED
    BY <2>1, <1>0, BooksStill
<1>32. ASSUME NEW ids \in SUBSET Events, CleanupExpired(ids) PROVE BooksInv'
  <2>1. ClaimsNothing
    BY <1>32 DEF CleanupExpired, Drop, Handled, ClaimsNothing
  <2> QED
    BY <2>1, <1>0, BooksStill
<1>33. CASE ShipFix
  <2>1. ClaimsNothing
    BY <1>33 DEF ShipFix, Drop, Handled, ClaimsNothing
  <2> QED
    BY <2>1, <1>0, BooksStill
<1>34. CASE Repoint
  <2>1. ClaimsNothing
    BY <1>34 DEF Repoint, Drop, Handled, ClaimsNothing
  <2> QED
    BY <2>1, <1>0, BooksStill
<1> QED
  BY <1>1, <1>2, <1>3, <1>4, <1>5, <1>6, <1>7, <1>8, <1>9, <1>10, <1>11, <1>12,
     <1>13, <1>14, <1>15, <1>16, <1>17, <1>18, <1>19, <1>20, <1>21, <1>22, <1>23,
     <1>24, <1>25, <1>26, <1>27, <1>28, <1>29, <1>30, <1>31, <1>32, <1>33, <1>34
  DEF Next, WorkerStep, PollStep, OperatorStep

-----------------------------------------------------------------------------
\* An event behind the cursor of c is one of c's, at or below the cursor.
LEMMA BehindMember ==
    ASSUME TypeOK, NEW c \in Contracts, NEW e \in Behind(c)
    PROVE  \E i \in 1..Length : e = <<c, i>> /\ i <= cursor[c]
<1>1. PICK i \in 1..cursor[c] : e = <<c, i>>
  BY DEF Behind, Span
<1>2. cursor[c] \in 0..Length
  BY DEF TypeOK, Positions
<1> QED
  BY <1>1, <1>2, ConstantsAssumption

\* The inductive invariant that does not depend on the reset flag.
LedgerInv == TypeOK /\ RangeInv /\ LockInv /\ FreshInv /\ RawInv /\ LogInv /\ OnceInv

\* A fresh database has an empty log, empty books and nothing folded.
LEMMA LedgerInit == Init => LedgerInv /\ FoldedIsApplied /\ BooksInv
<1> SUFFICES ASSUME Init PROVE LedgerInv /\ FoldedIsApplied /\ BooksInv
  OBVIOUS
<1>1. \A o \in Operators : session[o].ev = {}
  BY DEF Init, NoSession
<1>2. RawInv
  BY <1>1 DEF Init, RawInv
<1>3. \A w \in Workers : Handled(w) = 0
  BY DEF Init, Handled
<1>4. LogInv
  BY <1>3, ConstantsAssumption DEF Init, LogInv, LoggedTo
<1>5. OnceInv /\ FoldedIsApplied
  BY DEF Init, OnceInv, FoldedIsApplied
<1>6. BooksInv
  BY <1>3, ConstantsAssumption DEF Init, BooksInv, OnBooksTo
<1> QED
  BY <1>2, <1>4, <1>5, <1>6, TypeInit, LockInit DEF LedgerInv

\* LedgerInv is inductive.
LEMMA LedgerNext == LedgerInv /\ [Next]_vars => LedgerInv'
  BY TypeNext, RangeNext, LockNext, FreshNext, RawNext, LogNext, OnceNext DEF LedgerInv

\* LedgerInv holds in every reachable state.
LEMMA LedgerHolds == Spec => []LedgerInv
  BY LedgerInit, LedgerNext, PTL DEF Spec

\* Every event behind a cursor is in the raw log, so that reindexFromEventLog can
\* rebuild from it: whatever fails, whoever exits, with or without a reset.
THEOREM LogIsComplete == Spec => []LogCoversCursor
<1>1. LedgerInv => LogCoversCursor
  BY BehindMember DEF LedgerInv, LogInv, LoggedTo, LogCoversCursor
<1> QED
  BY <1>1, LedgerHolds, PTL

\* Re-delivered pages, retries, crashes, replays and any number of workers never
\* count an event twice; only an event that a reindex applied while its folded_at
\* was NULL can be there twice.
THEOREM FoldedAtMostOnce == Spec => []NoDoubleFold
<1>1. LedgerInv => NoDoubleFold
  BY DEF LedgerInv, OnceInv, NoDoubleFold
<1> QED
  BY <1>1, LedgerHolds, PTL

\* replayFailedEvent never meets an open failed_events row without its raw event.
THEOREM ReplayFindsItsEvent == Spec => []OpenRowsHaveRawEvents
<1>1. LedgerInv => OpenRowsHaveRawEvents
  BY DEF LedgerInv, RawInv, OpenRowsHaveRawEvents
<1> QED
  BY <1>1, LedgerHolds, PTL

\* A committed reindexFromEventLog leaves every event behind a cursor in the derived
\* tables exactly once.
THEOREM ReindexIsRepair == Spec => ReindexRepairs
<1> DEFINE Repairs == \A o \in Operators : CommitReindex(o) =>
                         \A c \in Contracts : \A e \in Behind(c) : derived'[e] = 1
<1>1. LedgerInv /\ [Next]_vars => [Repairs]_vars
  <2> SUFFICES ASSUME LedgerInv, NEW o \in Operators, CommitReindex(o),
                      NEW c \in Contracts, NEW e \in Behind(c)
               PROVE  derived'[e] = 1
    OBVIOUS
  <2>1. e \in raw /\ e \in Events
    BY BehindMember DEF LedgerInv, LogInv, LoggedTo, Events
  <2> QED
    BY <2>1 DEF CommitReindex
<1> QED
  BY <1>1, LedgerHolds, PTL DEF Spec, ReindexRepairs

\* Without the reset on a contract change, folded_at set means the effect is in the
\* derived tables.
THEOREM FoldedStaysApplied == ASSUME ~ResetOnContractChange PROVE Spec => []FoldedIsApplied
<1>1. Init => FoldedIsApplied
  BY LedgerInit
<1>2. LedgerInv /\ FoldedIsApplied /\ [Next]_vars => FoldedIsApplied'
  BY AppliedNext DEF LedgerInv
<1> QED
  BY <1>1, <1>2, LedgerHolds, PTL DEF Spec

\* Without the reset on a contract change, every event a cursor has passed is folded,
\* on the books, dismissed by an admin, or was reported lost in the log: the worker
\* never skips an event in silence.
THEOREM NothingLostInSilence == ASSUME ~ResetOnContractChange PROVE Spec => []NoSilentLoss
<1>1. Init => BooksInv
  BY LedgerInit
<1>2. LedgerInv /\ FoldedIsApplied /\ BooksInv /\ [Next]_vars => BooksInv'
  BY BooksNext DEF LedgerInv
<1>3. LedgerInv /\ BooksInv => NoSilentLoss
  BY BehindMember DEF LedgerInv, BooksInv, OnBooksTo, NoSilentLoss
<1> QED
  BY <1>1, <1>2, <1>3, LedgerHolds, FoldedStaysApplied, PTL DEF Spec

=============================================================================
