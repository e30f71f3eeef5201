------------------------------- MODULE Reorg --------------------------------
(***************************************************************************)
(* Reorg detection (src/indexer/poller.ts: fetchOnce, ingestPage and       *)
(* runIndexer), the recorded halt (reorg_halts) and the two ways out of    *)
(* it, reorg:clear and a reindex.                                          *)
(*                                                                         *)
(* The chain is a sequence of ledgers, each with or without an event of    *)
(* the tailed contract.  A fork drops a suffix and starts a new branch, so *)
(* a ledger is named by its height and its branch, and the branch stands   *)
(* for its hash.  An event's id is its position on the chain, the height:  *)
(* the RPC gives the event that replaced it the same id.  The raw log maps *)
(* an id to the branch the stored row came from; the derived tables are    *)
(* the fold of that log.  Quarantine and the lock are in module Indexer.   *)
(* An RPC call is answered by some node of a pool, which may be behind,    *)
(* and which may not know the token it is given and answer from behind it: *)
(* what check 3 is there for.                                              *)
(***************************************************************************)
EXTENDS Naturals, Sequences, FiniteSets, FiniteSetsExt

CONSTANTS
    Grace,        \* GRACE_WINDOW
    StartLedger,  \* config.indexer.startLedger, 0 when not set
    Lookback,     \* config.indexer.startLookbackLedgers
    PageLimit,    \* config.indexer.pageLimit
    ScanWindow,   \* how many ledgers the RPC looks through at most for one page
    MaxLag,       \* how far behind the chain an RPC node may be
    MaxHeight,    \* bound on the length of the chain
    MaxForks,     \* bound on forks
    MaxBacktracks \* bound on pages that begin behind their token

Heights == 1..MaxHeight
Positions == 0..MaxHeight         \* 0: before the first ledger
Branches == 1..(MaxForks + 1)
NoHash == 0
Hashes == Branches \cup {NoHash}

ASSUME ReorgAssumption ==
    /\ Grace \in Nat /\ StartLedger \in 0..(MaxHeight + 1) /\ Lookback \in Nat
    /\ PageLimit \in Nat \ {0} /\ ScanWindow \in Nat \ {0} /\ MaxLag \in Nat
    /\ MaxHeight \in Nat \ {0} /\ MaxForks \in Nat /\ MaxBacktracks \in Nat

\* A cursor row.  `saved` is FALSE while indexer_cursor has no row; loadCursor's
\* `?? 0` and `?? null` are the other fields of NoCursor.
CursorRows == [saved : BOOLEAN, token : Positions, last : Positions,
               hash : Hashes, tip : Positions]
NoCursor == [saved |-> FALSE, token |-> 0, last |-> 0, hash |-> NoHash, tip |-> 0]

Steps == {"down", "idle", "tip", "hash", "page", "save", "halting"}

VARIABLES
    chain,     \* per ledger: does it hold an event of the contract
    forkedAt,  \* per branch: the height of the last ledger it shares with the one before
    log,       \* table events: per id, the branch of the stored row (0: none)
    cursor,    \* table indexer_cursor
    halt,      \* table reorg_halts: "none", an "open" record, or only "cleared" ones
    pc,        \* where the worker is in runIndexer and fetchOnce
    at,        \* fetchOnce's locals: the cursor as it goes, with the token to ask from
    loaded,    \* the cursor row fetchOnce began with
    page,      \* the page just folded: its length, its token, its last ledger
    settled    \* the chain stands still and the RPC answers (for liveness)

\* History: what the checks could not see.
VARIABLES
    unchecked, \* a fold went ahead that no hash check vouched for
    undercut,  \* a fork dropped ledgers below the resume token
    backtracks \* how many pages began behind their token

vars == <<chain, forkedAt, log, cursor, halt, pc, at, loaded, page, settled,
          unchecked, undercut, backtracks>>
polling == <<cursor, halt, log, unchecked, undercut, backtracks>>
world == <<chain, forkedAt, settled>>

Branch == Len(forkedAt)

\* The ledger of height h in the history that ended in branch b, named by the
\* branch that produced it.  Stands for the ledger's hash.
LedgerOf(b, h) == Max({c \in 1..b : forkedAt[c] < h})
HashAt(h) == LedgerOf(Branch, h)

\* What a node `lag` ledgers behind knows of the chain.
Known(lag) == IF lag < Len(chain) THEN Len(chain) - lag ELSE 0
Lags == IF settled THEN {0} ELSE 0..MaxLag

\* getLedgerHash: null when the node does not have the ledger, and on any error.
\* A settled RPC answers for every ledger there is.
LedgerHashAnswers(h) ==
    (IF h <= Len(chain) THEN {HashAt(h)} ELSE {})
        \cup (IF settled /\ h <= Len(chain) THEN {} ELSE {NoHash})

PageOf == [full : BOOLEAN, token : Positions, last : Positions, tip : Positions]
NoPage == [full |-> FALSE, token |-> 0, last |-> 0, tip |-> 0]

TypeOK ==
    /\ chain \in Seq(BOOLEAN) /\ Len(chain) <= MaxHeight
    /\ forkedAt \in Seq(Positions) /\ Branch \in Branches
    /\ log \in [Heights -> Hashes]
    /\ cursor \in CursorRows
    /\ halt \in {"none", "open", "cleared"}
    /\ pc \in Steps
    /\ at \in CursorRows /\ loaded \in CursorRows
    /\ page \in PageOf
    /\ settled \in BOOLEAN /\ unchecked \in BOOLEAN /\ undercut \in BOOLEAN
    /\ backtracks \in Nat

Init ==
    /\ chain = <<>> /\ forkedAt = <<0>>
    /\ log = [h \in Heights |-> NoHash]
    /\ cursor = NoCursor /\ halt = "none"
    /\ pc = "down" /\ at = NoCursor /\ loaded = NoCursor /\ page = NoPage
    /\ settled = FALSE /\ unchecked = FALSE /\ undercut = FALSE /\ backtracks = 0

-----------------------------------------------------------------------------
\* The chain.

Extend(hasEvent) ==
    /\ ~settled /\ Len(chain) < MaxHeight
    /\ chain' = Append(chain, hasEvent)
    /\ UNCHANGED <<forkedAt, settled, polling, pc, at, loaded, page>>

\* The ledgers above `kept` are replaced; what replaces them comes as Extend.
\* History: rows above the cursor are pinned by no hash, and a fold between the
\* hash check and the save is pinned by a hash read later.
Fork(kept) ==
    /\ ~settled /\ Branch <= MaxForks
    /\ chain' = SubSeq(chain, 1, kept)
    /\ forkedAt' = Append(forkedAt, kept)
    /\ undercut' = (undercut \/ \E t \in {cursor.token, at.token, page.token} : kept < t)
    /\ unchecked' = (\/ unchecked
                     \/ pc \in {"page", "save"}
                     \/ \E h \in Heights : h > cursor.last /\ h > kept /\ log[h] # NoHash)
    /\ UNCHANGED <<settled, cursor, halt, log, backtracks, pc, at, loaded, page>>

Settle == /\ ~settled /\ settled' = TRUE
          /\ UNCHANGED <<chain, forkedAt, polling, pc, at, loaded, page>>

-----------------------------------------------------------------------------
\* The worker.

\* Faulty variant: any record ever made keeps the worker from starting.
RefusesToResume_ever == halt # "none"
RefusesToResume == halt = "open"

\* A poll that ended leaves nothing behind.
Forget == at' = NoCursor /\ loaded' = NoCursor /\ page' = NoPage

\* runIndexer: refuses over an uncleared halt.
StartWorker ==
    /\ pc = "down" /\ ~RefusesToResume
    /\ pc' = "idle"
    /\ UNCHANGED <<world, polling, at, loaded, page>>

LoadCursor ==
    /\ pc = "idle"
    /\ loaded' = cursor /\ at' = cursor
    /\ pc' = "tip"
    /\ UNCHANGED <<world, polling, page>>

\* Check 1.  A tip below the folded ledger is let pass within the grace window
\* once a tip was ever observed.
Rewound(tip) ==
    /\ loaded.last > 0 /\ tip < loaded.last
    /\ ~(loaded.tip > 0 /\ loaded.last - tip <= Grace)

\* `observedTipLedger` starts as the cursor's, or as this tip.
CheckTip ==
    /\ pc = "tip"
    /\ \E lag \in Lags :
        /\ pc' = IF Rewound(Known(lag)) THEN "halting" ELSE "hash"
        /\ at' = IF loaded.saved THEN at ELSE [at EXCEPT !.tip = Known(lag)]
    /\ UNCHANGED <<world, polling, loaded, page>>

\* resolveStartLedger, as the position the first event must lie beyond.
\* Faulty variant: not clamped (issue #267).
StartPositions_unclamped == {Known(lag) - Lookback - 1 : lag \in Lags}
StartPositions ==
    IF StartLedger > 0 THEN {StartLedger - 1}
    ELSE {(IF Known(lag) > Lookback THEN Known(lag) - Lookback ELSE 1) - 1 : lag \in Lags}

\* Faulty variant: a changed hash is logged like an unanswered one.
Diverged_warnOnly(answer) == FALSE
\* Check 2.  null is "unverifiable", and so is a cursor that has no hash.
Diverged(answer) == loaded.hash # NoHash /\ answer # NoHash /\ answer # loaded.hash

CheckHash ==
    /\ pc = "hash"
    /\ \E answer \in (IF loaded.hash = NoHash THEN {NoHash} ELSE LedgerHashAnswers(loaded.last)) :
        /\ pc' = IF loaded.last > 0 /\ Diverged(answer) THEN "halting" ELSE "page"
        /\ unchecked' = (unchecked \/ (loaded.last > 0 /\ answer = NoHash))
    \* The request: the saved token, or the start ledger while there is none.
    /\ IF loaded.saved THEN at' = at
       ELSE \E start \in StartPositions : at' = [at EXCEPT !.token = start]
    /\ UNCHANGED <<world, cursor, halt, log, undercut, backtracks, loaded, page>>

\* getEvents: the first PageLimit events beyond a position, oldest first, among the
\* ledgers the RPC looks through for one answer.  The position is the token's, or an earlier
\* one if the node does not honour it.
Froms == {at.token} \cup (IF settled \/ backtracks >= MaxBacktracks THEN {} ELSE 0..at.token)
ScanEnds(from, known) ==
    IF from = known THEN {known} ELSE {end \in (from + 1)..known : end <= from + ScanWindow}
EventsUpTo(from, end) == {h \in 1..end : h > from /\ chain[h]}
FirstPage(events) == {h \in events : Cardinality({g \in events : g < h}) < PageLimit}

\* Faulty variant: the RPC's cursor is preferred to the last event's id.
NextToken_rpc(events, scanned) == scanned
\* nextToken: the last event's id, or res.cursor (the end of the scan), or the
\* request's own token when the RPC sends none.
NextToken(events, scanned) == IF events = {} THEN scanned ELSE Max(events)

\* Check 3.
BelowFold(h) == at.last > 0 /\ h < at.last

\* ingestPage: insertRawEvent keeps the row an id already has, and the fold is
\* skipped with it.
Ingest(events) == [h \in Heights |->
    IF h \in events /\ log[h] = NoHash THEN HashAt(h) ELSE log[h]]

\* The page's events are folded, or none of them if one is below the fold.
IngestPage(events, end, tip) ==
    IF \E h \in events : BelowFold(h)
    THEN pc' = "halting" /\ UNCHANGED <<log, page>>
    ELSE /\ pc' = "save"
         /\ log' = Ingest(events)
         /\ \E scanned \in {end} \cup (IF settled THEN {} ELSE {at.token}) :
             page' = [full |-> Cardinality(events) = PageLimit,
                      token |-> NextToken(events, scanned),
                      last |-> IF events = {} THEN at.last ELSE Max(events),
                      tip |-> tip]

\* A node that is behind the position rejects the request: a failed poll.
GetPage ==
    /\ pc = "page"
    /\ \E lag \in Lags, from \in Froms :
        \/ /\ Known(lag) < from
           /\ pc' = "idle" /\ Forget /\ UNCHANGED <<log, backtracks>>
        \/ /\ Known(lag) >= from
           /\ backtracks' = IF from < at.token THEN backtracks + 1 ELSE backtracks
           /\ \E end \in ScanEnds(from, Known(lag)) :
               IngestPage(FirstPage(EventsUpTo(from, end)), end, Known(lag))
           /\ UNCHANGED <<at, loaded>>
    /\ UNCHANGED <<world, cursor, halt, unchecked, undercut>>

Moved == page.token # loaded.token \/ ~loaded.saved \/ page.last # at.last \/ page.tip # at.tip

\* The hash saved with the cursor: of the folded ledger, asked for after the fold.
PinnedHashes == IF page.last = at.last THEN {at.hash} ELSE LedgerHashAnswers(page.last)

\* Faulty variant: an empty page moves the folded ledger to the tip (issue #45).
FoldedLedger_tip == IF page.last = at.last /\ page.tip > page.last THEN page.tip ELSE page.last
FoldedLedger == page.last

\* saveCursor, and the loop's end: a full page may be followed by another one
\* (the drain's caps and a shutdown end it at any page).
SaveCursor ==
    /\ pc = "save"
    /\ \E hash \in PinnedHashes :
        LET row == [saved |-> TRUE, token |-> page.token, last |-> FoldedLedger, hash |-> hash, tip |-> page.tip]
        IN /\ cursor' = IF Moved THEN row ELSE cursor
           /\ \/ pc' = "idle" /\ Forget
              \/ /\ page.full
                 /\ pc' = "page"
                 /\ at' = IF Moved THEN row ELSE [at EXCEPT !.token = page.token]
                 /\ page' = NoPage /\ UNCHANGED loaded
    /\ UNCHANGED <<world, halt, log, unchecked, undercut, backtracks>>

\* runIndexer's handling of ReorgDetectedError: recordReorgHalt, then the
\* process ends.  The record is best effort.
RecordHalt ==
    /\ pc = "halting"
    /\ halt' = "open" /\ pc' = "down" /\ Forget
    /\ UNCHANGED <<world, cursor, log, unchecked, undercut, backtracks>>

RecordHaltFails ==
    /\ pc = "halting" /\ ~settled
    /\ pc' = "down" /\ Forget
    /\ UNCHANGED <<world, polling>>

\* Any other error: logged, and retried by a later poll.
PollFails ==
    /\ pc \in {"tip", "hash", "page", "save"} /\ ~settled
    /\ pc' = "idle" /\ Forget
    /\ UNCHANGED <<world, polling>>

Die ==
    /\ pc # "down" /\ ~settled
    /\ pc' = "down" /\ Forget
    /\ UNCHANGED <<world, polling>>

-----------------------------------------------------------------------------
\* The operator.

\* clearRecordedReorg, from the command line or POST /admin/clear-reorg.
ClearReorg ==
    /\ halt = "open"
    /\ halt' = "cleared"
    /\ UNCHANGED <<world, cursor, log, unchecked, undercut, backtracks, pc, at, loaded, page>>

\* reindex: folds the whole raw log anew and clears the halts in the same
\* transaction.  Neither the log nor the cursor is touched.
Reindex ==
    /\ halt' = (IF halt = "open" THEN "cleared" ELSE halt)
    /\ UNCHANGED <<world, cursor, log, unchecked, undercut, backtracks, pc, at, loaded, page>>

Poll == LoadCursor \/ CheckTip \/ CheckHash \/ GetPage \/ SaveCursor \/ RecordHalt

Next ==
    \/ \E e \in BOOLEAN : Extend(e)
    \/ \E kept \in 0..(Len(chain) - 1) : Fork(kept)
    \/ Settle
    \/ StartWorker \/ Poll \/ RecordHaltFails \/ PollFails \/ Die
    \/ ClearReorg \/ Reindex

Spec == Init /\ [][Next]_vars

\* The operator follows the runbook: after a halt a rebuild, or an acknowledgement.
AnswerHalt == ClearReorg \/ (halt = "open" /\ Reindex)

-----------------------------------------------------------------------------
Stored == {h \in Heights : log[h] # NoHash}

\* The raw log comes from one history: some branch, past or present, holds every
\* stored row.
OneHistory == \E b \in 1..Branch : \A h \in Stored : log[h] = LedgerOf(b, h)

(***************************************************************************)
(* Checks 1 to 3 together: the worker never folds events of two histories  *)
(* into one log, unless a fold went ahead that no hash check vouched for   *)
(* (the RPC could not answer for the pinned ledger, or the chain forked    *)
(* between the check and the save, or above the cursor) (poller.ts         *)
(* 753-791, 353-357).                                                      *)
(***************************************************************************)
NeverFoldsAcrossAFork == unchecked \/ OneHistory

(***************************************************************************)
(* With START_LEDGER set, and as long as no fork dropped ledgers the       *)
(* resume token had passed, every event of the chain from that ledger up   *)
(* to the token is stored: empty pages, polls that fail at any step, a     *)
(* lagging node and a cold start repeated lose none (poller.ts 251-259,    *)
(* 849-869).                                                               *)
(***************************************************************************)
NothingSkipped ==
    (StartLedger > 0 /\ ~undercut /\ cursor.saved) =>
        \A h \in 1..Len(chain) : (chain[h] /\ h >= StartLedger /\ h <= cursor.token) => h \in Stored

(***************************************************************************)
(* Check 3 raises no false alarm: it halts the worker only if the RPC has  *)
(* answered from behind a token, now or before, whatever forks, lagging    *)
(* nodes, empty pages, drains, failed polls and restarts there were.       *)
(* last_ledger moves only with folded events, so catching up after empty   *)
(* pages cannot trip it (issue #45; poller.ts 353-357, 850-858).           *)
(***************************************************************************)
ContinuityHaltMeansBacktrack == [][(pc = "page" /\ pc' = "halting") => backtracks' > 0]_vars

OnChain == \A h \in Stored : h <= Len(chain) /\ log[h] = HashAt(h)
PinOnChain == cursor.hash # NoHash => cursor.last <= Len(chain) /\ cursor.hash = HashAt(cursor.last)
CaughtUp == cursor.saved /\ \A h \in 1..Len(chain) : chain[h] => h <= cursor.token

(***************************************************************************)
(* A false alarm ends: once the chain stands still and agrees with what    *)
(* was folded, the worker, cleared by the operator and restarted by its    *)
(* supervisor, reaches the tip.  Not so after a page that began behind its *)
(* token: an empty one may save a token behind the folded ledger, and      *)
(* check 3 then stops every poll.                                          *)
(***************************************************************************)
FalseAlarmEnds == (settled /\ OnChain /\ PinOnChain /\ backtracks = 0) ~> CaughtUp
=============================================================================
