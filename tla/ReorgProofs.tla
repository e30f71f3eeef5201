---------------------------- MODULE ReorgProofs -----------------------------
(***************************************************************************)
(* The reorg checks for every chain, number of forks, page size and        *)
(* lagging node: what was folded comes from one history unless a check     *)
(* could not look, no event is skipped, and the continuity check stops a   *)
(* poll only after an answer from behind a token.                          *)
(***************************************************************************)
EXTENDS Reorg, SequenceTheorems, FiniteSetTheorems, TLAPS

-----------------------------------------------------------------------------
\* Least and greatest elements.

LEMMA Least ==
    ASSUME NEW S \in SUBSET Nat, S # {}
    PROVE  \E m \in S : \A y \in S : m <= y
<1> DEFINE R == {ss \in Nat \X Nat : ss[1] < ss[2]}
<1>1. IsWellFoundedOn(R, Nat)
  BY NatLessThanWellFounded DEF OpToRel
<1>2. \E x \in S : \A y \in S : ~(<<y, x>> \in R)
  <2> HIDE DEF R
  <2> QED
    BY <1>1, WFMin
<1>3. \A x, y \in Nat : ~(<<y, x>> \in R) => x <= y
  <2> SUFFICES ASSUME NEW x \in Nat, NEW y \in Nat, y < x PROVE <<y, x>> \in R
    OBVIOUS
  <2>1. <<y, x>> \in Nat \X Nat /\ <<y, x>>[1] < <<y, x>>[2]
    OBVIOUS
  <2> QED
    BY <2>1
<1> HIDE DEF R
<1> QED
  BY <1>2, <1>3

LEMMA MaxOf ==
    ASSUME NEW n \in Nat, NEW S \in SUBSET (0..n), S # {}
    PROVE  Max(S) \in S /\ \A y \in S : Max(S) >= y
<1> DEFINE T == {n - x : x \in S}
<1>0. \A x \in S : n - x \in Nat
  OBVIOUS
<1>1. T \in SUBSET Nat /\ T # {}
  BY <1>0
<1>2. PICK m \in T : \A y \in T : m <= y
  <2> HIDE DEF T
  <2> QED
    BY <1>1, Least
<1>3. PICK x \in S : m = n - x
  BY <1>2
<1>4. \A y \in S : x >= y
  <2> TAKE y \in S
  <2>1. n - y \in T
    OBVIOUS
  <2>2. n - x <= n - y /\ x \in 0..n /\ y \in 0..n
    BY <1>2, <1>3, <2>1
  <2> QED
    BY <2>2
<1>5. \E z \in S : \A y \in S : z >= y
  BY <1>4
<1> QED
  BY <1>5, Zenon DEF Max

-----------------------------------------------------------------------------
\* Ledgers and their histories.

Rooted == forkedAt \in Seq(Positions) /\ Branch \in Branches /\ forkedAt[1] = 0

LEMMA Constants ==
    /\ MaxHeight \in Nat \ {0} /\ MaxForks \in Nat /\ PageLimit \in Nat \ {0} /\ ScanWindow \in Nat \ {0}
    /\ Lookback \in Nat /\ MaxLag \in Nat /\ StartLedger \in 0..(MaxHeight + 1) /\ MaxBacktracks \in Nat
  BY ReorgAssumption

\* LedgerOf is the last branch whose ledgers reach down to the height.
LEMMA LedgerOfMeans ==
    ASSUME Rooted, NEW b \in 1..Branch, NEW h \in Heights
    PROVE  /\ LedgerOf(b, h) \in 1..b /\ forkedAt[LedgerOf(b, h)] < h
           /\ \A d \in 1..b : forkedAt[d] < h => d <= LedgerOf(b, h)
<1> DEFINE S == {c \in 1..b : forkedAt[c] < h}
<1>1. b \in Nat /\ S \in SUBSET (0..b) /\ 1 \in S
  BY Constants DEF Rooted, Heights, Branches
<1>2. Max(S) \in S /\ \A y \in S : Max(S) >= y
  <2> HIDE DEF S
  <2> QED
    BY <1>1, MaxOf
<1>3. LedgerOf(b, h) = Max(S)
  BY DEF LedgerOf
<1>4. LedgerOf(b, h) \in 1..b /\ forkedAt[LedgerOf(b, h)] < h
  BY <1>2, <1>3
<1>5. ASSUME NEW d \in 1..b, forkedAt[d] < h PROVE d <= LedgerOf(b, h)
  <2>1. d \in S
    BY <1>5
  <2> QED
    BY <1>2, <1>3, <1>4, <2>1
<1> QED
  BY <1>4, <1>5

\* A ledger names everything below it.
LEMMA Ancestors ==
    ASSUME Rooted, NEW b \in 1..Branch, NEW k \in Heights, NEW h \in Heights, h <= k
    PROVE  LedgerOf(LedgerOf(b, k), h) = LedgerOf(b, h)
<1> DEFINE c == LedgerOf(b, k)
<1>1. c \in 1..b /\ \A d \in 1..b : forkedAt[d] < k => d <= c
  BY LedgerOfMeans
<1> HIDE DEF c
<1>2. \A d \in 1..b : forkedAt[d] \in Nat
  BY Constants DEF Rooted, Positions, Branch
<1>3. b \in Nat /\ h \in Nat /\ k \in Nat
  BY Constants DEF Rooted, Heights, Branches
<1>4. {d \in 1..c : forkedAt[d] < h} = {d \in 1..b : forkedAt[d] < h}
  <2>1. ASSUME NEW d \in 1..b, forkedAt[d] < h PROVE d \in 1..c
    <3>1. forkedAt[d] < k
      BY <1>2, <1>3, <2>1
    <3> QED
      BY <1>1, <1>3, <3>1
  <2>2. 1..c \subseteq 1..b
    BY <1>1, <1>3
  <2> QED
    BY <2>1, <2>2
<1> QED
  BY <1>4 DEF LedgerOf, c

\* A fork leaves the histories there were, and the ledgers it keeps, as they are.
LEMMA ForkKeeps ==
    ASSUME Rooted, NEW kept \in Positions, forkedAt' = Append(forkedAt, kept), Branch <= MaxForks
    PROVE  /\ Rooted' /\ Branch' = Branch + 1
           /\ \A b \in 1..Branch, h \in Heights : LedgerOf(b, h)' = LedgerOf(b, h)
           /\ \A h \in Heights : h <= kept => HashAt(h)' = HashAt(h)
<1>1. /\ forkedAt' \in Seq(Positions) /\ Branch' = Branch + 1
      /\ \A i \in 1..Branch : forkedAt'[i] = forkedAt[i]
      /\ forkedAt'[Branch + 1] = kept
  BY AppendProperties DEF Rooted, Branch
<1>2. Branch \in Nat \ {0}
  BY Constants DEF Rooted, Branches
<1>3. Rooted'
  BY <1>1, <1>2, Constants DEF Rooted, Branches
<1>4. ASSUME NEW b \in 1..Branch, NEW h \in Heights PROVE LedgerOf(b, h)' = LedgerOf(b, h)
  <2>0. \A c \in 1..b : c \in 1..Branch
    BY <1>2
  <2>1. {c \in 1..b : forkedAt'[c] < h} = {c \in 1..b : forkedAt[c] < h}
    BY <1>1, <2>0
  <2> QED
    BY <2>1 DEF LedgerOf
<1>5. ASSUME NEW h \in Heights, h <= kept PROVE HashAt(h)' = HashAt(h)
  <2>0. h \in Nat /\ kept \in Nat
    BY Constants DEF Heights, Positions
  <2>1. {c \in 1..(Branch + 1) : forkedAt'[c] < h} = {c \in 1..Branch : forkedAt[c] < h}
    <3>1. \A c \in 1..(Branch + 1) : c \in 1..Branch \/ c = Branch + 1
      BY <1>2
    <3>2. 1..Branch \subseteq 1..(Branch + 1)
      BY <1>2
    <3>3. ~(forkedAt'[Branch + 1] < h)
      BY <1>1, <1>5, <2>0
    <3> QED
      BY <1>1, <3>1, <3>2, <3>3
  <2> QED
    BY <1>1, <2>1 DEF HashAt, LedgerOf
<1> QED
  BY <1>1, <1>3, <1>4, <1>5

-----------------------------------------------------------------------------
\* The page.

\* The first PageLimit events: none is left out below the last of them.
LEMMA PageMeans ==
    ASSUME NEW E \in SUBSET Heights
    PROVE  /\ FirstPage(E) \subseteq E
           /\ FirstPage(E) = {} => E = {}
           /\ FirstPage(E) # {} => /\ Max(FirstPage(E)) \in FirstPage(E)
                                   /\ \A h \in E : h <= Max(FirstPage(E)) => h \in FirstPage(E)
<1> DEFINE P == FirstPage(E)
           Before(h) == {g \in E : g < h}
<1>0. /\ MaxHeight \in Nat /\ PageLimit \in Nat \ {0} /\ E \subseteq Nat /\ IsFiniteSet(E)
      /\ Heights \subseteq 0..MaxHeight
  <2>1. IsFiniteSet(1..MaxHeight)
    BY FS_Interval, Constants
  <2>2. E \in SUBSET (1..MaxHeight)
    BY DEF Heights
  <2>3. IsFiniteSet(E)
    BY <2>1, <2>2, FS_Subset
  <2> QED
    BY <2>2, <2>3, Constants DEF Heights
<1>1. P = {h \in E : Cardinality(Before(h)) < PageLimit}
  BY DEF FirstPage
<1>2. ASSUME NEW h PROVE IsFiniteSet(Before(h)) /\ Cardinality(Before(h)) \in Nat
  <2>1. Before(h) \in SUBSET E
    OBVIOUS
  <2>2. IsFiniteSet(Before(h))
    BY <1>0, <2>1, FS_Subset
  <2> QED
    BY <2>2, FS_CardinalityType
<1>3. ASSUME E # {} PROVE P # {}
  <2>1. PICK m \in E : \A y \in E : m <= y
    BY <1>0, <1>3, Least
  <2>2. Before(m) = {}
    <3>1. \A g \in E : ~(g < m)
      BY <1>0, <2>1
    <3> QED
      BY <3>1
  <2>3. Cardinality(Before(m)) < PageLimit
    BY <1>0, <2>2, FS_EmptySet
  <2> QED
    BY <1>1, <2>1, <2>3
<1>4. ASSUME P # {} PROVE Max(P) \in P
  <2>1. P \in SUBSET (0..MaxHeight)
    BY <1>0, <1>1
  <2> HIDE DEF P
  <2> QED
    BY <1>0, <1>4, <2>1, MaxOf
<1>5. ASSUME NEW m \in P, NEW h \in E, h <= m PROVE h \in P
  <2>1. Before(h) \in SUBSET Before(m)
    <3>1. m \in Nat /\ h \in Nat
      BY <1>0, <1>1, <1>5
    <3>2. \A g \in E : g < h => g < m
      BY <1>0, <1>5, <3>1
    <3> QED
      BY <3>2
  <2>2. Cardinality(Before(h)) <= Cardinality(Before(m)) /\ Cardinality(Before(m)) < PageLimit
    <3>1. IsFiniteSet(Before(m)) /\ Cardinality(Before(m)) < PageLimit
      BY <1>1, <1>2, <1>5
    <3> HIDE DEF Before
    <3> QED
      BY <2>1, <3>1, FS_Subset
  <2>3. Cardinality(Before(h)) < PageLimit
    BY <1>0, <1>2, <2>2
  <2> QED
    BY <1>1, <2>3
<1> QED
  BY <1>1, <1>3, <1>4, <1>5

-----------------------------------------------------------------------------
\* The inductive invariant.

\* A row of the cursor: it points below what was folded only after a page that began
\* behind its token; the folded ledger has a row, and only a folded ledger is pinned,
\* by a branch there is.
RowOK(r) ==
    /\ backtracks > 0 \/ r.last <= r.token
    /\ r.last > 0 => r.last \in Stored
    /\ ~r.saved => r.last = 0
    /\ r.hash # NoHash => r.last > 0
    /\ r.hash <= Branch

\* A poll works on the cursor it loaded; the page in hand is like the row to be saved.
PollOK ==
    /\ pc \in {"tip", "hash", "page", "save"} => at.last = cursor.last /\ at.hash = cursor.hash
    /\ pc \in {"tip", "hash"} => loaded = cursor
    /\ pc = "save" => /\ backtracks > 0 \/ page.last <= page.token
                      /\ page.last # at.last => page.last > 0
                      /\ page.last > 0 => page.last \in Stored

\* The log, while every fold was vouched for: one history; above the cursor nothing
\* the chain has dropped; up to it the history of the pinned ledger; and the present
\* chain between the hash check and the save.
LogOK ==
    ~unchecked =>
        /\ OneHistory
        /\ \A h \in Stored : h > cursor.last => h <= Len(chain) /\ log[h] = HashAt(h)
        /\ cursor.hash # NoHash =>
              \A h \in Stored : h <= cursor.last => log[h] = LedgerOf(cursor.hash, h)
        /\ pc \in {"page", "save"} => OnChain

\* Everything from StartLedger to t is stored, and t lies on the chain, or has not
\* reached StartLedger yet.
Reached(t) ==
    /\ t <= Len(chain) \/ t < StartLedger
    /\ \A h \in 1..Len(chain) : chain[h] /\ h >= StartLedger /\ h <= t => h \in Stored

NoGap == StartLedger > 0 /\ ~undercut => Reached(cursor.token) /\ Reached(at.token) /\ Reached(page.token)

ReorgInv ==
    /\ TypeOK /\ forkedAt[1] = 0
    /\ RowOK(cursor) /\ RowOK(at) /\ PollOK
    /\ LogOK /\ NoGap

\* What TypeOK says, piece by piece.
LEMMA Types ==
    ASSUME TypeOK
    PROVE  /\ chain \in Seq(BOOLEAN) /\ Len(chain) \in 0..MaxHeight /\ MaxHeight \in Nat
           /\ log \in [Heights -> Hashes] /\ cursor \in CursorRows /\ at \in CursorRows /\ loaded \in CursorRows
           /\ page \in PageOf /\ pc \in Steps /\ halt \in {"none", "open", "cleared"}
           /\ settled \in BOOLEAN /\ unchecked \in BOOLEAN /\ undercut \in BOOLEAN /\ backtracks \in Nat
  BY Constants, LenProperties DEF TypeOK

LEMMA RowTypes ==
    ASSUME NEW r \in CursorRows
    PROVE  /\ r.saved \in BOOLEAN /\ r.token \in Nat /\ r.last \in Nat /\ r.hash \in Nat /\ r.tip \in Nat
           /\ r.token \in Positions /\ r.last \in Positions
  BY Constants DEF CursorRows, Positions, Hashes, Branches, NoHash

LEMMA NoRows ==
    /\ NoCursor \in CursorRows /\ NoPage \in PageOf
    /\ NoCursor.token = 0 /\ NoCursor.last = 0 /\ NoCursor.hash = NoHash /\ NoPage.token = 0
  BY Constants DEF NoCursor, NoPage, CursorRows, PageOf, Positions, Hashes

LEMMA ReachedZero == Len(chain) \in Nat => Reached(0)
  BY DEF Reached

LEMMA ReorgInit == Init => ReorgInv
<1> SUFFICES ASSUME Init PROVE ReorgInv
  OBVIOUS
<1>1. /\ chain = <<>> /\ Len(chain) = 0 /\ chain \in Seq(BOOLEAN)
      /\ forkedAt = <<0>> /\ forkedAt \in Seq(Positions) /\ Branch = 1 /\ forkedAt[1] = 0
  BY Constants DEF Init, Positions, Branch
<1>2. log = [h \in Heights |-> NoHash] /\ log \in [Heights -> Hashes] /\ Stored = {}
  BY DEF Init, Hashes, Stored
<1>3. TypeOK
  <2>1. Len(chain) <= MaxHeight /\ Branch \in Branches
    BY <1>1, Constants DEF Branches
  <2>2. pc \in Steps /\ cursor \in CursorRows /\ at \in CursorRows /\ loaded \in CursorRows /\ page \in PageOf
    BY NoRows DEF Init, Steps
  <2>3. /\ settled \in BOOLEAN /\ unchecked \in BOOLEAN /\ undercut \in BOOLEAN /\ backtracks \in Nat
        /\ halt \in {"none", "open", "cleared"}
    BY DEF Init
  <2> QED
    BY <1>1, <1>2, <2>1, <2>2, <2>3 DEF TypeOK
<1>4. RowOK(cursor) /\ RowOK(at)
  BY <1>1, NoRows DEF Init, RowOK, NoHash
<1>5. PollOK
  BY DEF Init, PollOK
<1>6. LogOK
  <2>1. OneHistory
    BY <1>1, <1>2 DEF OneHistory
  <2> QED
    BY <1>2, <2>1 DEF LogOK, OnChain
<1>7. NoGap
  BY <1>1, NoRows, ReachedZero DEF Init, NoGap
<1> QED
  BY <1>1, <1>3, <1>4, <1>5, <1>6, <1>7 DEF ReorgInv

\* Pages that began behind their token are not forgotten.
BacktracksGrow == UNCHANGED backtracks \/ (backtracks' \in Nat /\ backtracks' > 0)

\* A step of the worker that writes neither the log nor the cursor.
LEMMA QuietStep ==
    ASSUME ReorgInv, UNCHANGED <<chain, forkedAt, log, cursor, undercut>>, BacktracksGrow,
           halt' \in {"none", "open", "cleared"}, pc' \in Steps, at' \in CursorRows, loaded' \in CursorRows,
           page' \in PageOf, settled' \in BOOLEAN, unchecked' \in BOOLEAN, unchecked => unchecked',
           RowOK(at)', PollOK',
           ~unchecked' /\ pc' \in {"page", "save"} => OnChain,
           StartLedger > 0 /\ ~undercut => Reached(at.token)' /\ Reached(page.token)'
    PROVE  ReorgInv'
<1>1. TypeOK' /\ forkedAt'[1] = 0
  BY DEF ReorgInv, TypeOK, Branch, BacktracksGrow
<1>2. RowOK(cursor)'
  BY DEF ReorgInv, RowOK, Branch, Stored, BacktracksGrow
<1>3. LogOK'
  BY DEF ReorgInv, LogOK, OneHistory, Stored, HashAt, LedgerOf, Branch, OnChain
<1>4. NoGap'
  BY DEF ReorgInv, NoGap, Reached, Stored
<1> QED
  BY <1>1, <1>2, <1>3, <1>4 DEF ReorgInv

\* The poll ends, or goes on where it is.
LEMMA PollEnds ==
    ASSUME ReorgInv, UNCHANGED <<chain, forkedAt, log, cursor, undercut, unchecked>>, BacktracksGrow,
           halt' \in {"none", "open", "cleared"}, settled' \in BOOLEAN,
           \/ pc' \in {"down", "idle"} /\ Forget
           \/ pc' = pc /\ UNCHANGED <<at, loaded, page>>
           \/ pc' \in {"down", "idle", "halting"} /\ UNCHANGED <<at, loaded, page>>
    PROVE  ReorgInv'
<1>0. /\ TypeOK /\ Len(chain) \in Nat /\ Branch \in Nat
      /\ at \in CursorRows /\ loaded \in CursorRows /\ page \in PageOf /\ pc \in Steps
      /\ unchecked' \in BOOLEAN /\ (unchecked => unchecked')
  BY Types, Constants DEF ReorgInv, TypeOK, Branches
<1>1. CASE pc' \in {"down", "idle"} /\ Forget
  <2>1. at' = NoCursor /\ loaded' = NoCursor /\ page' = NoPage
    BY <1>1 DEF Forget
  <2>2. at' \in CursorRows /\ loaded' \in CursorRows /\ page' \in PageOf /\ pc' \in Steps
    BY <1>1, <2>1, NoRows DEF Steps
  <2>3. RowOK(at)'
    BY <1>0, <2>1, NoRows DEF RowOK, NoHash, Branch, BacktracksGrow
  <2>4. PollOK'
    BY <1>1 DEF PollOK
  <2>5. Reached(at.token)' /\ Reached(page.token)'
    BY <1>0, <2>1, NoRows DEF Reached
  <2> QED
    BY <1>0, <1>1, <2>2, <2>3, <2>4, <2>5, QuietStep
<1>2. CASE UNCHANGED <<at, loaded, page>> /\ (pc' = pc \/ pc' \in {"down", "idle", "halting"})
  <2>1. at' \in CursorRows /\ loaded' \in CursorRows /\ page' \in PageOf /\ pc' \in Steps
    BY <1>0, <1>2 DEF Steps
  <2>2. RowOK(at)'
    BY <1>2 DEF ReorgInv, RowOK, Branch, Stored, BacktracksGrow
  <2>3. PollOK'
    BY <1>2 DEF ReorgInv, PollOK, Stored, BacktracksGrow
  <2>4. StartLedger > 0 /\ ~undercut => Reached(at.token)' /\ Reached(page.token)'
    BY <1>2 DEF ReorgInv, NoGap, Reached, Stored
  <2>5. ~unchecked' /\ pc' \in {"page", "save"} => OnChain
    BY <1>2 DEF ReorgInv, LogOK
  <2> QED
    BY <1>0, <2>1, <2>2, <2>3, <2>4, <2>5, QuietStep
<1> QED
  BY <1>1, <1>2

\* The chain grows.
LEMMA ExtendStep ==
    ASSUME ReorgInv, NEW e \in BOOLEAN, Extend(e)
    PROVE  ReorgInv'
<1>0. /\ TypeOK /\ chain \in Seq(BOOLEAN) /\ Len(chain) \in 0..MaxHeight /\ MaxHeight \in Nat
      /\ Len(chain) < MaxHeight /\ cursor \in CursorRows /\ at \in CursorRows
      /\ page.token \in Nat
  BY Types, Constants DEF ReorgInv, Extend, PageOf, Positions
<1>1. /\ chain' \in Seq(BOOLEAN) /\ Len(chain') = Len(chain) + 1
      /\ \A h \in 1..Len(chain) : chain'[h] = chain[h]
  BY <1>0, AppendProperties DEF Extend
<1>2. UNCHANGED <<forkedAt, settled, cursor, halt, log, unchecked, undercut, backtracks, pc, at, loaded, page>>
  BY DEF Extend, polling
<1>3. TypeOK' /\ forkedAt'[1] = 0
  BY <1>0, <1>1, <1>2 DEF ReorgInv, TypeOK, Branch
<1>4. RowOK(cursor)' /\ RowOK(at)' /\ PollOK'
  BY <1>2 DEF ReorgInv, RowOK, PollOK, Branch, Stored
<1>5. ASSUME NEW h \in Heights, h <= Len(chain) PROVE h <= Len(chain')
  BY <1>0, <1>1, <1>5 DEF Heights
<1>6. LogOK'
  <2>1. Stored' = Stored /\ (OneHistory => OneHistory') /\ \A h \in Heights : HashAt(h)' = HashAt(h)
    BY <1>2 DEF OneHistory, Stored, HashAt, LedgerOf, Branch
  <2>2. OnChain => OnChain'
    BY <1>2, <1>5, <2>1 DEF OnChain, Stored
  <2>3. \A h \in Heights : LedgerOf(cursor.hash, h)' = LedgerOf(cursor.hash, h)
    BY <1>2 DEF LedgerOf
  <2>4. \A h \in Stored : h \in Heights
    BY DEF Stored
  <2> QED
    BY <1>2, <1>5, <2>1, <2>2, <2>3, <2>4 DEF ReorgInv, LogOK
<1>7. ASSUME NEW t \in Nat, Reached(t)
      PROVE  /\ t <= Len(chain') \/ t < StartLedger
             /\ \A h \in 1..Len(chain') : chain'[h] /\ h >= StartLedger /\ h <= t => h \in Stored
  <2>1. t <= Len(chain') \/ t < StartLedger
    BY <1>0, <1>1, <1>7 DEF Reached
  <2>2. ASSUME NEW h \in 1..Len(chain'), chain'[h], h >= StartLedger, h <= t PROVE h \in Stored
    <3>1. h \in 1..Len(chain)
      BY <1>0, <1>1, <1>7, <2>2, Constants DEF Reached
    <3> QED
      BY <1>1, <1>7, <2>2, <3>1 DEF Reached
  <2> QED
    BY <2>1, <2>2
<1>8. NoGap'
  <2>1. cursor.token \in Nat /\ at.token \in Nat
    BY <1>0, RowTypes
  <2> QED
    BY <1>0, <1>2, <1>7, <2>1 DEF ReorgInv, NoGap, Reached, Stored
<1> QED
  BY <1>3, <1>4, <1>6, <1>8 DEF ReorgInv

\* A fork: what was folded and pinned names the same ledgers as before, and if no
\* row or token lay above what it kept, neither is off the chain now.
LEMMA ForkStep ==
    ASSUME ReorgInv, NEW kept \in 0..(Len(chain) - 1), Fork(kept)
    PROVE  ReorgInv'
<1>0. /\ TypeOK /\ Rooted /\ chain \in Seq(BOOLEAN) /\ Len(chain) \in 0..MaxHeight /\ MaxHeight \in Nat
      /\ cursor \in CursorRows /\ at \in CursorRows /\ page \in PageOf /\ page.token \in Nat
      /\ log \in [Heights -> Hashes] /\ unchecked \in BOOLEAN /\ undercut \in BOOLEAN
      /\ Branch \in Nat \ {0}
  BY Types, Constants DEF ReorgInv, TypeOK, PageOf, Positions, Rooted, Branches
<1>1. /\ chain' = SubSeq(chain, 1, kept) /\ forkedAt' = Append(forkedAt, kept) /\ Branch <= MaxForks
      /\ undercut' = (undercut \/ \E t \in {cursor.token, at.token, page.token} : kept < t)
      /\ unchecked' = (\/ unchecked
                       \/ pc \in {"page", "save"}
                       \/ \E h \in Heights : h > cursor.last /\ h > kept /\ log[h] # NoHash)
      /\ UNCHANGED <<settled, cursor, halt, log, backtracks, pc, at, loaded, page>>
  BY DEF Fork
<1>2. kept \in Nat /\ kept < Len(chain) /\ kept \in Positions
  BY <1>0 DEF Positions
<1>3. /\ chain' \in Seq(BOOLEAN) /\ Len(chain') = kept
      /\ \A h \in 1..kept : chain'[h] = chain[h]
  <2>1. \A i \in 1..kept : chain[i] \in BOOLEAN
    BY <1>0, <1>2, ElementOfSeq
  <2>2. /\ SubSeq(chain, 1, kept) \in Seq(BOOLEAN)
        /\ Len(SubSeq(chain, 1, kept)) = IF 1 <= kept THEN kept - 1 + 1 ELSE 0
        /\ \A i \in 1 .. kept - 1 + 1 : SubSeq(chain, 1, kept)[i] = chain[1 + i - 1]
    BY <1>2, <2>1, SubSeqProperties
  <2> QED
    BY <1>1, <1>2, <2>2
<1>4. /\ Rooted' /\ Branch' = Branch + 1
      /\ \A b \in 1..Branch, h \in Heights : LedgerOf(b, h)' = LedgerOf(b, h)
      /\ \A h \in Heights : h <= kept => HashAt(h)' = HashAt(h)
  BY <1>0, <1>1, <1>2, ForkKeeps
<1>5. /\ unchecked' \in BOOLEAN /\ undercut' \in BOOLEAN
      /\ ~unchecked' => /\ ~unchecked /\ pc \notin {"page", "save"}
                        /\ \A h \in Heights : h > cursor.last /\ log[h] # NoHash => ~(h > kept)
      /\ ~undercut' => ~undercut /\ ~(kept < cursor.token) /\ ~(kept < at.token) /\ ~(kept < page.token)
  BY <1>0, <1>1, Zenon
<1>6. TypeOK' /\ forkedAt'[1] = 0
  BY <1>0, <1>1, <1>2, <1>3, <1>4, <1>5 DEF TypeOK, Rooted
<1>7. RowOK(cursor)' /\ RowOK(at)'
  <2>1. cursor.hash \in Nat /\ at.hash \in Nat
    BY <1>0, RowTypes
  <2> QED
    BY <1>0, <1>1, <1>4, <2>1 DEF ReorgInv, RowOK, Stored
<1>8. PollOK'
  BY <1>1 DEF ReorgInv, PollOK, Stored
<1>9. LogOK'
  <2> SUFFICES ASSUME ~unchecked'
               PROVE  /\ OneHistory'
                      /\ \A h \in Stored : h > cursor.last => h <= Len(chain') /\ log[h] = HashAt(h)'
                      /\ cursor.hash # NoHash =>
                            \A h \in Stored : h <= cursor.last => log[h] = LedgerOf(cursor.hash, h)'
    BY <1>1, <1>5 DEF LogOK, Stored
  <2>1. /\ OneHistory
        /\ \A h \in Stored : h > cursor.last => h <= Len(chain) /\ log[h] = HashAt(h)
        /\ cursor.hash # NoHash => \A h \in Stored : h <= cursor.last => log[h] = LedgerOf(cursor.hash, h)
    BY <1>5 DEF ReorgInv, LogOK
  <2>2. OneHistory'
    <3>1. PICK b \in 1..Branch : \A h \in Stored : log[h] = LedgerOf(b, h)
      BY <2>1 DEF OneHistory
    <3>2. b \in 1..(Branch + 1)
      BY <1>0
    <3>3. \A h \in Stored : log[h] = LedgerOf(b, h)'
      BY <1>4, <3>1 DEF Stored
    <3> QED
      BY <1>1, <1>4, <3>2, <3>3 DEF OneHistory, Stored
  <2>3. ASSUME NEW h \in Stored, h > cursor.last PROVE h <= Len(chain') /\ log[h] = HashAt(h)'
    <3>1. h \in Heights /\ h \in Nat /\ log[h] # NoHash /\ cursor.last \in Nat
      BY <1>0, RowTypes DEF Stored, Heights
    <3>2. h <= kept
      BY <1>2, <1>5, <2>3, <3>1
    <3> QED
      BY <1>3, <1>4, <2>1, <2>3, <3>1, <3>2
  <2>4. ASSUME cursor.hash # NoHash, NEW h \in Stored, h <= cursor.last PROVE log[h] = LedgerOf(cursor.hash, h)'
    <3>1. cursor.hash \in 1..Branch
      BY <1>0, <2>4, RowTypes DEF ReorgInv, RowOK, NoHash
    <3>2. PICK k \in 1..Branch : k = cursor.hash
      BY <3>1
    <3>3. log[h] = LedgerOf(k, h) /\ LedgerOf(k, h)' = LedgerOf(k, h)
      BY <1>4, <2>1, <2>4, <3>2 DEF Stored
    <3>4. LedgerOf(cursor.hash, h)' = LedgerOf(k, h)'
      BY <1>1, <3>2 DEF LedgerOf
    <3> QED
      BY <3>3, <3>4
  <2> QED
    BY <2>2, <2>3, <2>4
<1>10. ASSUME NEW t \in Nat, Reached(t), ~(kept < t)
       PROVE  /\ t <= Len(chain') \/ t < StartLedger
              /\ \A h \in 1..Len(chain') : chain'[h] /\ h >= StartLedger /\ h <= t => h \in Stored
  <2>1. \A h \in 1..kept : h \in 1..Len(chain)
    BY <1>0, <1>2
  <2> QED
    BY <1>2, <1>3, <1>10, <2>1 DEF Reached
<1>11. NoGap'
  <2>1. cursor.token \in Nat /\ at.token \in Nat
    BY <1>0, RowTypes
  <2> QED
    BY <1>0, <1>1, <1>5, <1>10, <2>1 DEF ReorgInv, NoGap, Reached, Stored
<1> QED
  BY <1>6, <1>7, <1>8, <1>9, <1>11 DEF ReorgInv

-----------------------------------------------------------------------------
\* The steps of a poll.

LEMMA LoadCursorStep ==
    ASSUME ReorgInv, LoadCursor
    PROVE  ReorgInv'
<1>1. /\ loaded' = cursor /\ at' = cursor /\ pc' = "tip"
      /\ UNCHANGED <<chain, forkedAt, settled, cursor, halt, log, unchecked, undercut, backtracks, page>>
  BY DEF LoadCursor, world, polling
<1>2. cursor \in CursorRows /\ page \in PageOf /\ halt \in {"none", "open", "cleared"}
      /\ settled' \in BOOLEAN /\ unchecked' \in BOOLEAN /\ (unchecked => unchecked')
  BY <1>1, Types DEF ReorgInv
<1>3. RowOK(at)'
  BY <1>1 DEF ReorgInv, RowOK, Branch, Stored
<1>4. PollOK'
  BY <1>1 DEF PollOK
<1>5. StartLedger > 0 /\ ~undercut => Reached(at.token)' /\ Reached(page.token)'
  BY <1>1 DEF ReorgInv, NoGap, Reached, Stored
<1>6. pc' \in Steps /\ pc' \notin {"page", "save"} /\ BacktracksGrow
  BY <1>1 DEF Steps, BacktracksGrow
<1> QED
  BY <1>1, <1>2, <1>3, <1>4, <1>5, <1>6, QuietStep

\* What a node knows is no more than the chain.
LEMMA KnownMeans ==
    ASSUME Len(chain) \in 0..MaxHeight, NEW lag \in Lags
    PROVE  Known(lag) \in 0..Len(chain) /\ Known(lag) \in Positions
<1>1. lag \in Nat
  BY Constants DEF Lags
<1> QED
  BY <1>1, Constants DEF Known, Positions

LEMMA CheckTipStep ==
    ASSUME ReorgInv, CheckTip
    PROVE  ReorgInv'
<1>1. PICK lag \in Lags : /\ pc' = IF Rewound(Known(lag)) THEN "halting" ELSE "hash"
                          /\ at' = IF loaded.saved THEN at ELSE [at EXCEPT !.tip = Known(lag)]
  BY DEF CheckTip
<1>2. /\ pc = "tip" /\ BacktracksGrow
      /\ UNCHANGED <<chain, forkedAt, settled, cursor, halt, log, unchecked, undercut, backtracks, loaded, page>>
  BY DEF CheckTip, world, polling, BacktracksGrow
<1>3. /\ at \in CursorRows /\ loaded \in CursorRows /\ page \in PageOf /\ halt \in {"none", "open", "cleared"}
      /\ settled' \in BOOLEAN /\ unchecked' \in BOOLEAN /\ (unchecked => unchecked') /\ Len(chain) \in 0..MaxHeight
  BY <1>2, Types DEF ReorgInv
<1>4. Known(lag) \in Positions
  BY <1>3, KnownMeans
<1>5. /\ at' \in CursorRows /\ at'.token = at.token /\ at'.last = at.last /\ at'.hash = at.hash
      /\ at'.saved = at.saved
  BY <1>1, <1>3, <1>4 DEF CursorRows
<1>6. RowOK(at)'
  BY <1>2, <1>5 DEF ReorgInv, RowOK, Branch, Stored
<1>7. pc' \in {"halting", "hash"} /\ pc' \in Steps
  BY <1>1 DEF Steps
<1>8. PollOK'
  BY <1>2, <1>5, <1>7 DEF ReorgInv, PollOK
<1>9. StartLedger > 0 /\ ~undercut => Reached(at.token)' /\ Reached(page.token)'
  BY <1>2, <1>5 DEF ReorgInv, NoGap, Reached, Stored
<1> QED
  BY <1>2, <1>3, <1>5, <1>6, <1>7, <1>8, <1>9, QuietStep

\* A hash that was answered and agrees vouches for all that was folded.
LEMMA CheckedMeans ==
    ASSUME ReorgInv, ~unchecked,
           \/ cursor.last = 0
           \/ cursor.hash # NoHash /\ cursor.last <= Len(chain) /\ HashAt(cursor.last) = cursor.hash
    PROVE  OnChain
<1>0. /\ Rooted /\ cursor \in CursorRows /\ cursor.last \in Nat /\ cursor.last \in Positions
      /\ Len(chain) \in 0..MaxHeight /\ Branch \in 1..Branch /\ MaxHeight \in Nat
  BY Types, RowTypes, Constants DEF ReorgInv, TypeOK, Rooted, Branches
<1>1. /\ \A h \in Stored : h > cursor.last => h <= Len(chain) /\ log[h] = HashAt(h)
      /\ cursor.hash # NoHash => \A h \in Stored : h <= cursor.last => log[h] = LedgerOf(cursor.hash, h)
  BY DEF ReorgInv, LogOK
<1>2. ASSUME NEW h \in Stored PROVE h <= Len(chain) /\ log[h] = HashAt(h)
  <2>1. h \in Heights /\ h \in Nat \ {0}
    BY Constants DEF Stored, Heights
  <2>2. CASE h > cursor.last
    BY <1>1, <2>2
  <2>3. CASE h <= cursor.last
    <3>1. cursor.hash # NoHash /\ cursor.last <= Len(chain) /\ HashAt(cursor.last) = cursor.hash
      BY <1>0, <2>1, <2>3
    <3>2. cursor.last \in Heights
      BY <1>0, <2>1, <2>3 DEF Positions, Heights
    <3>3. LedgerOf(cursor.hash, h) = HashAt(h)
      BY <1>0, <2>1, <2>3, <3>1, <3>2, Ancestors DEF HashAt
    <3> QED
      BY <1>0, <1>1, <2>1, <2>3, <3>1, <3>3
  <2> QED
    BY <1>0, <2>1, <2>2, <2>3
<1> QED
  BY <1>2 DEF OnChain

LEMMA CheckHashStep ==
    ASSUME ReorgInv, CheckHash
    PROVE  ReorgInv'
<1>1. /\ pc = "hash" /\ BacktracksGrow
      /\ UNCHANGED <<chain, forkedAt, settled, cursor, halt, log, undercut, backtracks, loaded, page>>
      /\ IF loaded.saved THEN at' = at
         ELSE \E start \in StartPositions : at' = [at EXCEPT !.token = start]
  BY DEF CheckHash, world, BacktracksGrow
<1>2. PICK answer \in (IF loaded.hash = NoHash THEN {NoHash} ELSE LedgerHashAnswers(loaded.last)) :
        /\ pc' = IF loaded.last > 0 /\ Diverged(answer) THEN "halting" ELSE "page"
        /\ unchecked' = (unchecked \/ (loaded.last > 0 /\ answer = NoHash))
  BY DEF CheckHash
<1>3. /\ at \in CursorRows /\ loaded \in CursorRows /\ page \in PageOf /\ halt \in {"none", "open", "cleared"}
      /\ settled' \in BOOLEAN /\ unchecked \in BOOLEAN /\ Len(chain) \in 0..MaxHeight /\ MaxHeight \in Nat
      /\ loaded = cursor /\ at.last = cursor.last /\ cursor.last \in Nat
  BY <1>1, Types, RowTypes DEF ReorgInv, PollOK
<1>4. unchecked' \in BOOLEAN /\ (unchecked => unchecked') /\ (~unchecked' => ~unchecked /\ ~(loaded.last > 0 /\ answer = NoHash))
  BY <1>2, <1>3
<1>5. ASSUME NEW start \in StartPositions
      PROVE  start \in Positions /\ (StartLedger > 0 => start < StartLedger)
  <2>1. CASE StartLedger > 0
    BY <1>5, <2>1, Constants DEF StartPositions, Positions
  <2>2. CASE ~(StartLedger > 0)
    <3>1. PICK lag \in Lags : start = (IF Known(lag) > Lookback THEN Known(lag) - Lookback ELSE 1) - 1
      BY <1>5, <2>2 DEF StartPositions
    <3>2. Known(lag) \in 0..Len(chain)
      BY <1>3, KnownMeans
    <3> QED
      BY <1>3, <2>2, <3>1, <3>2, Constants DEF Positions
  <2> QED
    BY <2>1, <2>2
<1>6. /\ at' \in CursorRows /\ RowOK(at)' /\ at'.last = at.last /\ at'.hash = at.hash
      /\ StartLedger > 0 /\ ~undercut => Reached(at.token)' /\ Reached(page.token)'
  <2>1. CASE loaded.saved
    <3>1. at' = at
      BY <1>1, <2>1
    <3>2. at' \in CursorRows /\ RowOK(at)'
      BY <1>1, <1>3, <3>1 DEF ReorgInv, RowOK, Branch, Stored
    <3>3. StartLedger > 0 /\ ~undercut => Reached(at.token)' /\ Reached(page.token)'
      BY <1>1, <3>1 DEF ReorgInv, NoGap, Reached, Stored
    <3> QED
      BY <3>1, <3>2, <3>3
  <2>2. CASE ~loaded.saved
    <3>1. PICK start \in StartPositions : at' = [at EXCEPT !.token = start]
      BY <1>1, <2>2
    <3>2. start \in Positions /\ start \in Nat /\ (StartLedger > 0 => start < StartLedger)
      BY <1>5, Constants DEF Positions
    <3>3. /\ at' \in CursorRows /\ at'.token = start /\ at'.last = at.last /\ at'.hash = at.hash
          /\ at'.saved = at.saved
      BY <1>3, <3>1, <3>2 DEF CursorRows
    <3>4. at.last = 0
      BY <1>3, <2>2 DEF ReorgInv, RowOK
    <3>5. RowOK(at)'
      BY <1>1, <3>2, <3>3, <3>4 DEF ReorgInv, RowOK, Branch
    <3>6. StartLedger > 0 => Reached(at.token)'
      <4> SUFFICES ASSUME StartLedger > 0, NEW h \in 1..Len(chain'), h >= StartLedger, h <= start PROVE FALSE
        BY <3>2, <3>3 DEF Reached
      <4> QED
        BY <1>1, <1>3, <3>2, Constants
    <3>7. StartLedger > 0 /\ ~undercut => Reached(page.token)'
      BY <1>1 DEF ReorgInv, NoGap, Reached, Stored
    <3> QED
      BY <3>3, <3>5, <3>6, <3>7
  <2> QED
    BY <2>1, <2>2
<1>7. pc' \in {"halting", "page"} /\ pc' \in Steps
  BY <1>2 DEF Steps
<1>8. PollOK'
  BY <1>1, <1>6, <1>7 DEF ReorgInv, PollOK
<1>9. ASSUME ~unchecked', pc' \in {"page", "save"} PROVE OnChain
  <2>1. CASE cursor.last = 0
    BY <1>4, <1>9, <2>1, CheckedMeans
  <2>2. CASE cursor.last # 0
    <3>1. cursor.last > 0 /\ answer # NoHash /\ ~Diverged(answer)
      BY <1>2, <1>3, <1>4, <1>7, <1>9, <2>2
    <3>2. cursor.hash # NoHash /\ answer \in LedgerHashAnswers(cursor.last) /\ answer = cursor.hash
      BY <1>2, <1>3, <3>1 DEF Diverged
    <3>3. cursor.last <= Len(chain) /\ HashAt(cursor.last) = cursor.hash
      BY <3>1, <3>2 DEF LedgerHashAnswers
    <3> QED
      BY <1>4, <1>9, <3>2, <3>3, CheckedMeans
  <2> QED
    BY <2>1, <2>2
<1>10. halt' \in {"none", "open", "cleared"} /\ loaded' \in CursorRows /\ page' \in PageOf
  BY <1>1, <1>3
<1> QED
  BY <1>1, <1>3, <1>4, <1>6, <1>7, <1>8, <1>9, <1>10, QuietStep

\* What a poll gets: the node is behind, or it answered from behind the token, or these
\* events, which leave none out between the request's token and the page's.
PageGot(events) ==
    /\ pc' = "save" /\ UNCHANGED <<at, loaded>> /\ log' = Ingest(events)
    /\ events \in SUBSET Heights /\ \A h \in events : h <= Len(chain) /\ ~BelowFold(h)
    /\ page' \in PageOf /\ (page'.token <= Len(chain) \/ page'.token = at.token)
    /\ backtracks' > 0 \/ page'.last <= page'.token
    /\ page'.last = at.last \/ page'.last \in events
    /\ \A h \in 1..Len(chain) : chain[h] /\ h > at.token /\ h <= page'.token => h \in events

LEMMA GetPageMeans ==
    ASSUME ReorgInv, GetPage
    PROVE  /\ BacktracksGrow
           /\ \/ pc' = "idle" /\ Forget /\ log' = log
              \/ pc' = "halting" /\ UNCHANGED <<log, page, at, loaded>> /\ backtracks' > 0
              \/ \E events : PageGot(events)
<1>0. /\ at \in CursorRows /\ at.token \in Nat /\ at.last \in Nat /\ at.last \in Positions /\ at.token \in Positions
      /\ backtracks \in Nat /\ (backtracks > 0 \/ at.last <= at.token)
      /\ Len(chain) \in 0..MaxHeight /\ MaxHeight \in Nat /\ chain \in Seq(BOOLEAN) /\ ScanWindow \in Nat \ {0}
  BY Types, RowTypes, Constants DEF ReorgInv, RowOK
<1> DEFINE events(from, end) == FirstPage(EventsUpTo(from, end))
<1>1. PICK lag \in Lags, from \in Froms :
        \/ /\ Known(lag) < from
           /\ pc' = "idle" /\ Forget /\ UNCHANGED <<log, backtracks>>
        \/ /\ Known(lag) >= from
           /\ backtracks' = IF from < at.token THEN backtracks + 1 ELSE backtracks
           /\ UNCHANGED <<at, loaded>>
           /\ \E end \in ScanEnds(from, Known(lag)) : IngestPage(events(from, end), end, Known(lag))
  BY DEF GetPage
<1>2. Known(lag) \in 0..Len(chain) /\ Known(lag) \in Positions /\ Known(lag) \in Nat
  BY <1>0, KnownMeans
<1>2a. from \in Nat /\ from <= at.token
  BY <1>0 DEF Froms
<1>3. CASE Known(lag) < from
  BY <1>0, <1>1, <1>2, <1>2a, <1>3 DEF BacktracksGrow
<1>4. CASE Known(lag) >= from
  <2>1. /\ backtracks' = (IF from < at.token THEN backtracks + 1 ELSE backtracks)
        /\ UNCHANGED <<at, loaded>>
    BY <1>1, <1>2, <1>2a, <1>4
  <2>2. BacktracksGrow /\ backtracks' \in Nat /\ (backtracks' > 0 \/ (from = at.token /\ at.last <= at.token))
    BY <1>0, <1>2a, <2>1 DEF BacktracksGrow
  <2>3. PICK e \in ScanEnds(from, Known(lag)) : IngestPage(events(from, e), e, Known(lag))
    BY <1>1, <1>2, <1>2a, <1>4
  <2>4. e \in Nat /\ e >= from /\ e <= Len(chain)
    BY <1>0, <1>2, <1>2a, <1>4 DEF ScanEnds
  <2> DEFINE E == EventsUpTo(from, e)
             P == FirstPage(E)
  <2>5. E \in SUBSET Heights /\ \A h \in E : h > from /\ h <= e /\ chain[h]
    BY <1>0, <2>4 DEF EventsUpTo, Heights
  <2>6. \A h \in 1..Len(chain) : chain[h] /\ h > from /\ h <= e => h \in E
    BY <1>0, <2>4 DEF EventsUpTo
  <2> HIDE DEF E
  <2>7. /\ P \subseteq E /\ (P = {} => E = {})
        /\ P # {} => Max(P) \in P /\ \A h \in E : h <= Max(P) => h \in P
    BY <2>5, PageMeans
  <2>8. P = events(from, e)
    BY DEF E
  <2> HIDE DEF P
  <2>9. CASE \E h \in P : BelowFold(h)
    <3>1. pc' = "halting" /\ UNCHANGED <<log, page>>
      BY <2>3, <2>8, <2>9 DEF IngestPage
    <3>2. backtracks' > 0
      BY <1>0, <2>2, <2>5, <2>7, <2>9 DEF BelowFold, Heights
    <3> QED
      BY <2>1, <2>2, <3>1, <3>2
  <2>10. CASE ~\E h \in P : BelowFold(h)
    <3>1. pc' = "save" /\ UNCHANGED <<at, loaded>> /\ log' = Ingest(P)
      BY <2>1, <2>3, <2>8, <2>10 DEF IngestPage
    <3>2. PICK scanned \in {e} \cup (IF settled THEN {} ELSE {at.token}) :
            page' = [full |-> Cardinality(P) = PageLimit, token |-> NextToken(P, scanned),
                     last |-> IF P = {} THEN at.last ELSE Max(P), tip |-> Known(lag)]
      BY <2>3, <2>8, <2>10 DEF IngestPage
    <3>3. scanned = e \/ scanned = at.token
      BY <3>2
    <3>4. P \in SUBSET Heights /\ \A h \in P : h <= Len(chain) /\ ~BelowFold(h)
      BY <1>0, <2>4, <2>5, <2>7, <2>10 DEF Heights
    <3>5. CASE P = {}
      <4>1. page' = [full |-> Cardinality(P) = PageLimit, token |-> scanned, last |-> at.last, tip |-> Known(lag)]
        BY <3>2, <3>5 DEF NextToken
      <4>2. page'.token = scanned /\ page'.last = at.last
        BY <4>1
      <4>3. scanned \in Positions /\ (scanned <= Len(chain) \/ scanned = at.token)
        BY <1>0, <2>4, <3>3 DEF Positions
      <4>4. page' \in PageOf
        BY <1>0, <1>2, <4>1, <4>3 DEF PageOf
      <4>5. \A h \in 1..Len(chain) : chain[h] /\ h > at.token /\ h <= page'.token => h \in P
        BY <1>0, <1>2a, <2>4, <2>6, <2>7, <3>3, <3>5, <4>2
      <4>6. backtracks' > 0 \/ page'.last <= page'.token
        BY <1>0, <2>2, <2>4, <3>3, <4>2
      <4> QED
        BY <2>2, <3>1, <3>4, <4>2, <4>3, <4>4, <4>5, <4>6 DEF PageGot
    <3>6. CASE P # {}
      <4> DEFINE m == Max(P)
      <4>0. m \in E /\ m \in P /\ \A h \in E : h <= m => h \in P
        BY <2>7, <3>6
      <4>1. page' = [full |-> Cardinality(P) = PageLimit, token |-> m, last |-> m, tip |-> Known(lag)]
        BY <3>2, <3>6 DEF NextToken
      <4> HIDE DEF m
      <4>2. page'.token = m /\ page'.last = m
        BY <4>1
      <4>3. m \in Heights /\ m > from /\ m <= e
        BY <2>5, <4>0
      <4>4. m \in Nat /\ m \in Positions /\ m <= Len(chain)
        BY <1>0, <2>4, <4>3 DEF Heights, Positions
      <4>5. page' \in PageOf
        BY <1>2, <4>1, <4>4 DEF PageOf
      <4>6. \A h \in 1..Len(chain) : chain[h] /\ h > at.token /\ h <= page'.token => h \in P
        BY <1>0, <1>2a, <2>4, <2>6, <4>0, <4>2, <4>3, <4>4
      <4>7. page'.last <= page'.token
        BY <4>2, <4>4
      <4> QED
        BY <2>2, <3>1, <3>4, <4>0, <4>2, <4>4, <4>5, <4>6, <4>7 DEF PageGot
    <3> QED
      BY <3>5, <3>6
  <2> QED
    BY <2>9, <2>10
<1> QED
  BY <1>2, <1>2a, <1>3, <1>4

LEMMA GetPageStep ==
    ASSUME ReorgInv, GetPage
    PROVE  ReorgInv' /\ (pc' = "halting" => backtracks' > 0)
<1>0. /\ pc = "page" /\ UNCHANGED <<chain, forkedAt, settled, cursor, halt, unchecked, undercut>> /\ BacktracksGrow
  BY GetPageMeans DEF GetPage, world
<1>0a. halt' \in {"none", "open", "cleared"} /\ settled' \in BOOLEAN
  BY <1>0, Types DEF ReorgInv
<1>1. CASE pc' = "idle" /\ Forget /\ log' = log
  BY <1>0, <1>0a, <1>1, PollEnds
<1>1a. CASE pc' = "halting" /\ UNCHANGED <<log, page, at, loaded>> /\ backtracks' > 0
  BY <1>0, <1>0a, <1>1a, PollEnds
<1>2. ASSUME NEW events, PageGot(events) PROVE ReorgInv' /\ pc' = "save"
  <2>0. /\ TypeOK /\ Rooted /\ log \in [Heights -> Hashes] /\ at \in CursorRows /\ at.token \in Nat /\ at.last \in Nat
        /\ Len(chain) \in 0..MaxHeight /\ MaxHeight \in Nat /\ Branch \in 1..Branch /\ Branch \in Branches
        /\ at.last = cursor.last /\ at.hash = cursor.hash /\ backtracks \in Nat
        /\ at.last > 0 => at.last \in Stored
    BY <1>0, Types, RowTypes, Constants DEF ReorgInv, TypeOK, Rooted, PollOK, RowOK, Branches
  <2>1. /\ pc' = "save" /\ UNCHANGED <<at, loaded>> /\ log' = Ingest(events)
        /\ events \in SUBSET Heights /\ \A h \in events : h <= Len(chain) /\ ~BelowFold(h)
        /\ page' \in PageOf /\ (page'.token <= Len(chain) \/ page'.token = at.token)
        /\ backtracks' > 0 \/ page'.last <= page'.token
        /\ page'.last = at.last \/ page'.last \in events
        /\ \A h \in 1..Len(chain) : chain[h] /\ h > at.token /\ h <= page'.token => h \in events
    BY <1>2 DEF PageGot
  <2>2. \A h \in Heights : HashAt(h) \in 1..Branch /\ HashAt(h) \in Hashes /\ HashAt(h) # NoHash
    <3> TAKE h \in Heights
    <3>1. HashAt(h) \in 1..Branch
      BY <2>0, LedgerOfMeans DEF HashAt
    <3> QED
      BY <2>0, <3>1, Constants DEF Hashes, Branches, NoHash
  <2>3. \A h \in Heights : log'[h] = IF h \in events /\ log[h] = NoHash THEN HashAt(h) ELSE log[h]
    BY <2>1 DEF Ingest
  <2>4. log' \in [Heights -> Hashes]
    BY <2>0, <2>1, <2>2 DEF Ingest
  <2>5. TypeOK' /\ forkedAt'[1] = 0
    BY <1>0, <2>0, <2>1, <2>4 DEF TypeOK, Branch, Steps, Rooted, BacktracksGrow
  <2>6. Stored' = Stored \cup events
    BY <2>1, <2>2, <2>3 DEF Stored
  <2>7. RowOK(cursor)' /\ RowOK(at)'
    BY <1>0, <2>0, <2>1, <2>6 DEF ReorgInv, RowOK, Branch, BacktracksGrow
  <2>8. PollOK'
    <3>1. page'.last # at.last => page'.last > 0
      <4>1. page'.last # at.last => page'.last \in Heights
        BY <2>1
      <4>2. \A h \in Heights : h > 0
        BY <2>0 DEF Heights
      <4> QED
        BY <4>1, <4>2
    <3>2. page'.last > 0 => page'.last \in Stored'
      BY <2>0, <2>1, <2>6
    <3> QED
      BY <1>0, <2>0, <2>1, <3>1, <3>2 DEF PollOK
  <2>9. LogOK'
    <3> SUFFICES ASSUME ~unchecked PROVE LogOK'
      BY <1>0 DEF LogOK
    <3>1. \A h \in Heights : HashAt(h)' = HashAt(h) /\ LedgerOf(cursor.hash, h)' = LedgerOf(cursor.hash, h)
      BY <1>0 DEF HashAt, LedgerOf, Branch
    <3>2. \A h \in Stored : h <= Len(chain) /\ log[h] = HashAt(h)
      BY <1>0 DEF ReorgInv, LogOK, OnChain
    <3>3. \A h \in Stored' : h \in Heights /\ h <= Len(chain) /\ log'[h] = HashAt(h)
      BY <2>1, <2>3, <2>6, <3>2 DEF Stored
    <3>4. OnChain'
      BY <1>0, <3>1, <3>3 DEF OnChain
    <3>5. OneHistory'
      <4>1. \A h \in Stored' : log'[h] = LedgerOf(Branch, h)'
        BY <3>1, <3>3 DEF HashAt
      <4> QED
        BY <1>0, <2>0, <4>1 DEF OneHistory, Branch
    <3>6. ASSUME cursor.hash # NoHash, NEW h \in Stored', h <= cursor.last PROVE log'[h] = LedgerOf(cursor.hash, h)
      \* Of what was served again only the folded ledger itself, which has its row.
      <4>1. h \in Stored
        <5>1. cursor.last > 0
          BY <3>6 DEF ReorgInv, RowOK
        <5>2. h \in events => h = at.last
          BY <2>0, <2>1, <3>3, <3>6, <5>1 DEF BelowFold, Heights
        <5> QED
          BY <2>0, <2>6, <3>6, <5>1, <5>2
      <4>2. log'[h] = log[h]
        BY <2>3, <3>3, <4>1 DEF Stored
      <4> QED
        BY <3>6, <4>1, <4>2 DEF ReorgInv, LogOK
    <3> QED
      BY <1>0, <3>1, <3>3, <3>4, <3>5, <3>6 DEF LogOK
  <2>10. NoGap'
    <3> SUFFICES ASSUME StartLedger > 0, ~undercut PROVE NoGap'
      BY <1>0 DEF NoGap
    <3>1. Reached(cursor.token) /\ Reached(at.token)
      BY DEF ReorgInv, NoGap
    <3>2. Reached(cursor.token)' /\ Reached(at.token)'
      BY <1>0, <2>1, <2>6, <3>1 DEF Reached
    <3>3. Reached(page.token)'
      <4>1. page'.token <= Len(chain) \/ page'.token < StartLedger
        BY <2>0, <2>1, <3>1 DEF Reached
      <4>2. ASSUME NEW h \in 1..Len(chain), chain[h], h >= StartLedger, h <= page'.token PROVE h \in Stored'
        <5>1. CASE h <= at.token
          BY <2>6, <3>1, <4>2, <5>1 DEF Reached
        <5>2. CASE h > at.token
          BY <2>1, <2>6, <4>2, <5>2
        <5> QED
          BY <2>0, <5>1, <5>2
      <4> QED
        BY <1>0, <4>1, <4>2 DEF Reached
    <3> QED
      BY <3>2, <3>3 DEF NoGap
  <2> QED
    BY <2>1, <2>5, <2>7, <2>8, <2>9, <2>10 DEF ReorgInv
<1> QED
  BY <1>1, <1>1a, <1>2, GetPageMeans

\* The hash saved with the cursor: a past one, unchanged with the ledger it pins, or
\* the present chain's, which names all that was folded below it.
LEMMA PinnedMeans ==
    ASSUME ReorgInv, pc = "save", NEW hash \in PinnedHashes
    PROVE  /\ hash \in Hashes /\ hash <= Branch /\ (hash # NoHash => page.last > 0)
           /\ ~unchecked /\ hash # NoHash => \A h \in Stored : h <= page.last => log[h] = LedgerOf(hash, h)
<1>0. /\ Rooted /\ at \in CursorRows /\ at.hash \in Hashes /\ page.last \in Positions /\ MaxHeight \in Nat
      /\ Branch \in 1..Branch /\ Branch \in Branches /\ Branch \in Nat
      /\ at.last = cursor.last /\ at.hash = cursor.hash
  BY Types, Constants DEF ReorgInv, TypeOK, Rooted, PollOK, Branches, CursorRows, PageOf
<1>1. CASE page.last = at.last
  <2>1. hash = at.hash
    BY <1>1 DEF PinnedHashes
  <2>2. hash \in Hashes /\ hash <= Branch /\ (hash # NoHash => page.last > 0)
    BY <1>0, <1>1, <2>1 DEF ReorgInv, RowOK
  <2>3. ~unchecked /\ hash # NoHash => \A h \in Stored : h <= page.last => log[h] = LedgerOf(hash, h)
    BY <1>0, <1>1, <2>1 DEF ReorgInv, LogOK
  <2> QED
    BY <2>2, <2>3
<1>2. CASE page.last # at.last
  <2>1. hash \in LedgerHashAnswers(page.last) /\ page.last > 0
    BY <1>2 DEF PinnedHashes, ReorgInv, PollOK
  <2>2. page.last \in Heights
    BY <1>0, <2>1 DEF Positions, Heights
  <2>3. hash = NoHash \/ hash = HashAt(page.last)
    BY <2>1 DEF LedgerHashAnswers
  <2>4. HashAt(page.last) \in 1..Branch
    BY <1>0, <2>2, LedgerOfMeans DEF HashAt
  <2>5. hash \in Hashes /\ hash <= Branch
    BY <1>0, <2>3, <2>4, Constants DEF Hashes, Branches, NoHash
  <2>6. ASSUME ~unchecked, hash # NoHash, NEW h \in Stored, h <= page.last PROVE log[h] = LedgerOf(hash, h)
    <3>1. h \in Heights /\ log[h] = HashAt(h)
      BY <2>6 DEF ReorgInv, LogOK, OnChain, Stored
    <3>2. LedgerOf(LedgerOf(Branch, page.last), h) = LedgerOf(Branch, h)
      BY <1>0, <2>2, <2>6, <3>1, Ancestors
    <3> QED
      BY <2>3, <2>6, <3>1, <3>2 DEF HashAt
  <2> QED
    BY <2>1, <2>5, <2>6
<1> QED
  BY <1>1, <1>2

LEMMA SaveCursorStep ==
    ASSUME ReorgInv, SaveCursor
    PROVE  ReorgInv'
<1>0. /\ pc = "save" /\ UNCHANGED <<chain, forkedAt, settled, halt, log, unchecked, undercut, backtracks>>
  BY DEF SaveCursor, world
<1> DEFINE row(hash) == [saved |-> TRUE, token |-> page.token, last |-> FoldedLedger, hash |-> hash, tip |-> page.tip]
<1>1. PICK hash \in PinnedHashes :
        /\ cursor' = IF Moved THEN row(hash) ELSE cursor
        /\ \/ pc' = "idle" /\ Forget
           \/ /\ page.full /\ pc' = "page" /\ page' = NoPage /\ UNCHANGED loaded
              /\ at' = IF Moved THEN row(hash) ELSE [at EXCEPT !.token = page.token]
  BY DEF SaveCursor
<1>2. /\ TypeOK /\ Rooted /\ at \in CursorRows /\ cursor \in CursorRows /\ loaded \in CursorRows /\ page \in PageOf
      /\ at.last = cursor.last /\ at.hash = cursor.hash /\ (backtracks > 0 \/ page.last <= page.token)
      /\ page.last > 0 => page.last \in Stored
      /\ Len(chain) \in Nat /\ Branch \in Nat
  BY <1>0, Types, Constants DEF ReorgInv, TypeOK, Rooted, PollOK, Branches
<1>3. page.token \in Positions /\ page.last \in Positions /\ page.tip \in Positions /\ page.token \in Nat
  BY <1>2, Constants DEF PageOf, Positions
<1>4. /\ hash \in Hashes /\ hash <= Branch /\ (hash # NoHash => page.last > 0)
      /\ ~unchecked /\ hash # NoHash => \A h \in Stored : h <= page.last => log[h] = LedgerOf(hash, h)
  BY <1>0, PinnedMeans
<1>5. ASSUME NEW r, r = row(hash)
      PROVE  /\ r \in CursorRows /\ r.token = page.token /\ r.last = page.last /\ r.hash = hash /\ RowOK(r)
  <2>1. r \in CursorRows /\ r.saved = TRUE /\ r.token = page.token /\ r.last = page.last /\ r.hash = hash
    BY <1>3, <1>4, <1>5 DEF CursorRows, FoldedLedger
  <2> QED
    BY <1>2, <1>4, <2>1 DEF RowOK
<1>6. /\ cursor' \in CursorRows /\ RowOK(cursor)'
      /\ Moved => cursor'.last = page.last /\ cursor'.hash = hash /\ cursor'.token = page.token
      /\ ~Moved => cursor' = cursor /\ page.last = at.last
  <2>1. CASE Moved
    <3>1. cursor' = row(hash)
      BY <1>1, <2>1
    <3>2. cursor' \in CursorRows /\ cursor'.token = page.token /\ cursor'.last = page.last /\ cursor'.hash = hash
          /\ RowOK(cursor')
      BY <1>5, <3>1
    <3> QED
      BY <1>0, <2>1, <3>2 DEF RowOK, Branch, Stored
  <2>2. CASE ~Moved
    <3>1. cursor' = cursor /\ page.last = at.last
      BY <1>1, <2>2 DEF Moved
    <3> QED
      BY <1>0, <1>2, <2>2, <3>1 DEF ReorgInv, RowOK, Branch, Stored
  <2> QED
    BY <2>1, <2>2
<1>7. LogOK'
  <2> SUFFICES ASSUME ~unchecked PROVE LogOK'
    BY <1>0 DEF LogOK
  <2>1. OneHistory /\ OnChain
    BY <1>0 DEF ReorgInv, LogOK
  <2>2. cursor'.hash # NoHash => \A h \in Stored : h <= cursor'.last => log[h] = LedgerOf(cursor'.hash, h)
    <3>1. CASE Moved
      BY <1>4, <1>6, <3>1
    <3>2. CASE ~Moved
      BY <1>6, <3>2 DEF ReorgInv, LogOK
    <3> QED
      BY <3>1, <3>2
  <2>3. OneHistory' /\ OnChain' /\ Stored' = Stored
    BY <1>0, <2>1 DEF OneHistory, OnChain, Stored, HashAt, LedgerOf, Branch
  <2>4. \A h \in Stored' : h <= Len(chain') /\ log'[h] = HashAt(h)'
    BY <2>3 DEF OnChain
  <2>5. (cursor.hash # NoHash => \A h \in Stored : h <= cursor.last => log[h] = LedgerOf(cursor.hash, h))'
    BY <1>0, <2>2, <2>3 DEF LedgerOf
  <2> QED
    BY <2>3, <2>4, <2>5 DEF LogOK
<1>8. ASSUME StartLedger > 0, ~undercut
      PROVE  Reached(cursor.token)' /\ Reached(page.token) /\ Reached(0)'
  <2>1. Reached(cursor.token) /\ Reached(page.token)
    BY <1>8 DEF ReorgInv, NoGap
  <2>2. cursor'.token = page.token \/ cursor'.token = cursor.token
    BY <1>6
  <2>3. Reached(cursor.token)'
    BY <1>0, <2>1, <2>2 DEF Reached, Stored
  <2>4. Reached(0)'
    BY <1>0, <1>2 DEF Reached
  <2> QED
    BY <2>1, <2>3, <2>4
<1>9. ASSUME at' \in CursorRows, loaded' \in CursorRows, page' \in PageOf, pc' \in {"idle", "page"}, page'.token = 0,
              RowOK(at)', pc' = "page" => at'.last = cursor'.last /\ at'.hash = cursor'.hash,
              at'.token \in {0, page.token}
       PROVE  ReorgInv'
  <2>1. TypeOK' /\ forkedAt'[1] = 0
    BY <1>0, <1>2, <1>6, <1>9 DEF TypeOK, Branch, Steps, Rooted
  <2>2. PollOK'
    BY <1>9 DEF PollOK
  <2>3. NoGap'
    <3> SUFFICES ASSUME StartLedger > 0, ~undercut PROVE NoGap'
      BY <1>0 DEF NoGap
    <3>1. Reached(page.token)'
      BY <1>8, <1>9 DEF Reached
    <3>2. Reached(at.token)'
      <4>1. CASE at'.token = 0
        BY <1>8, <4>1 DEF Reached
      <4>2. CASE at'.token = page.token
        BY <1>0, <1>8, <4>2 DEF Reached, Stored
      <4> QED
        BY <1>9, <4>1, <4>2
    <3> QED
      BY <1>8, <3>1, <3>2 DEF NoGap
  <2> QED
    BY <1>6, <1>7, <1>9, <2>1, <2>2, <2>3 DEF ReorgInv
<1>10. CASE pc' = "idle" /\ Forget
  <2>1. at' = NoCursor /\ loaded' = NoCursor /\ page' = NoPage
    BY <1>10 DEF Forget
  <2>2. RowOK(at)'
    BY <1>0, <1>2, <2>1, NoRows DEF RowOK, NoHash, Branch
  <2> QED
    BY <1>9, <1>10, <2>1, <2>2, NoRows
<1>11. CASE /\ pc' = "page" /\ page' = NoPage /\ UNCHANGED loaded
            /\ at' = IF Moved THEN row(hash) ELSE [at EXCEPT !.token = page.token]
  <2>1. /\ at' \in CursorRows /\ at'.token = page.token /\ RowOK(at)'
        /\ at'.last = cursor'.last /\ at'.hash = cursor'.hash
    <3>1. CASE Moved
      <4>1. at' = cursor'
        BY <1>1, <1>11, <3>1
      <4> QED
        BY <1>6, <3>1, <4>1 DEF RowOK, Branch, Stored
    <3>2. CASE ~Moved
      <4>1. at' = [at EXCEPT !.token = page.token]
        BY <1>11, <3>2
      <4>2. /\ at' \in CursorRows /\ at'.token = page.token /\ at'.last = at.last /\ at'.hash = at.hash
            /\ at'.saved = at.saved
        BY <1>2, <1>3, <4>1 DEF CursorRows
      <4>3. RowOK(at)'
        BY <1>0, <1>2, <1>6, <3>2, <4>2 DEF ReorgInv, RowOK, Branch, Stored
      <4> QED
        BY <1>2, <1>6, <3>2, <4>2, <4>3
    <3> QED
      BY <3>1, <3>2
  <2> QED
    BY <1>2, <1>9, <1>11, <2>1, NoRows
<1> QED
  BY <1>1, <1>10, <1>11

-----------------------------------------------------------------------------
\* Every step.

LEMMA ReorgStep ==
    ASSUME ReorgInv, [Next]_vars
    PROVE  ReorgInv'
<1>0. halt \in {"none", "open", "cleared"} /\ settled \in BOOLEAN
  BY Types DEF ReorgInv
<1>1. ASSUME NEW e \in BOOLEAN, Extend(e) PROVE ReorgInv'
  BY <1>1, ExtendStep
<1>2. ASSUME NEW kept \in 0..(Len(chain) - 1), Fork(kept) PROVE ReorgInv'
  BY <1>2, ForkStep
<1>3. CASE Settle
  BY <1>0, <1>3, PollEnds DEF Settle, polling, BacktracksGrow
<1>4. CASE StartWorker
  BY <1>0, <1>4, PollEnds DEF StartWorker, world, polling, BacktracksGrow
<1>5. CASE LoadCursor
  BY <1>5, LoadCursorStep
<1>6. CASE CheckTip
  BY <1>6, CheckTipStep
<1>7. CASE CheckHash
  BY <1>7, CheckHashStep
<1>8. CASE GetPage
  BY <1>8, GetPageStep
<1>9. CASE SaveCursor
  BY <1>9, SaveCursorStep
<1>10. CASE RecordHalt
  BY <1>0, <1>10, PollEnds DEF RecordHalt, world, BacktracksGrow
<1>11. CASE RecordHaltFails
  BY <1>0, <1>11, PollEnds DEF RecordHaltFails, world, polling, BacktracksGrow
<1>12. CASE PollFails
  BY <1>0, <1>12, PollEnds DEF PollFails, world, polling, BacktracksGrow
<1>13. CASE Die
  BY <1>0, <1>13, PollEnds DEF Die, world, polling, BacktracksGrow
<1>14. CASE ClearReorg
  BY <1>0, <1>14, PollEnds DEF ClearReorg, world, BacktracksGrow
<1>15. CASE Reindex
  BY <1>0, <1>15, PollEnds DEF Reindex, world, BacktracksGrow
<1>16. CASE UNCHANGED vars
  BY <1>0, <1>16, PollEnds DEF vars, BacktracksGrow
<1> QED
  BY <1>1, <1>2, <1>3, <1>4, <1>5, <1>6, <1>7, <1>8, <1>9, <1>10, <1>11, <1>12, <1>13, <1>14, <1>15, <1>16
  DEF Next, Poll

(***************************************************************************)
(* The cursor, the log and the poll's locals keep their types for every    *)
(* chain, page limit and number of forks (poller.ts fetchOnce,             *)
(* ingestPage).                                                            *)
(***************************************************************************)
THEOREM ReorgTypeCorrect == Spec => []TypeOK
<1>1. ReorgInv => TypeOK
  BY DEF ReorgInv
<1> QED
  BY <1>1, ReorgInit, ReorgStep, PTL DEF Spec

(***************************************************************************)
(* Checks 1 to 3 for every chain: whatever forks, lagging nodes, failed    *)
(* polls and restarts, the raw log holds rows of one history, unless a     *)
(* fold went ahead that no hash check vouched for (poller.ts 753-791,      *)
(* 353-357).                                                               *)
(***************************************************************************)
THEOREM FoldsOneHistory == Spec => []NeverFoldsAcrossAFork
<1>1. ReorgInv => NeverFoldsAcrossAFork
  BY DEF ReorgInv, LogOK, NeverFoldsAcrossAFork
<1> QED
  BY <1>1, ReorgInit, ReorgStep, PTL DEF Spec

(***************************************************************************)
(* No event between START_LEDGER and the saved token is missing from the   *)
(* raw log while no fork reached below the token, for every page limit,    *)
(* scan window and lag of the RPC nodes (poller.ts 251-259, 849-869).      *)
(***************************************************************************)
THEOREM NothingIsSkipped == Spec => []NothingSkipped
<1>1. ReorgInv => NothingSkipped
  BY DEF ReorgInv, NoGap, Reached, NothingSkipped
<1> QED
  BY <1>1, ReorgInit, ReorgStep, PTL DEF Spec

(***************************************************************************)
(* Check 3 raises no false alarm for any chain, page limit, scan window    *)
(* and lag: it halts a poll only if some page, this one or an earlier one, *)
(* began behind its token.  Until then the folded ledger is never beyond   *)
(* the token, and the check cannot fire at all, whatever forks there are   *)
(* (issue #45; poller.ts 353-357, 494-497, 850-858).                       *)
(***************************************************************************)
THEOREM ContinuityHaltsAreReal == Spec => ContinuityHaltMeansBacktrack
<1>1. ASSUME ReorgInv, [Next]_vars PROVE [(pc = "page" /\ pc' = "halting") => backtracks' > 0]_vars
  <2> SUFFICES ASSUME Next, pc = "page", pc' = "halting" PROVE backtracks' > 0
    BY <1>1
  <2>1. GetPage
    BY DEF Next, Poll, Extend, Fork, Settle, StartWorker, LoadCursor, CheckTip, CheckHash, SaveCursor,
           RecordHalt, RecordHaltFails, PollFails, Die, ClearReorg, Reindex
  <2> QED
    BY <1>1, <2>1, GetPageStep
<1> QED
  BY <1>1, ReorgInit, ReorgStep, PTL DEF Spec, ContinuityHaltMeansBacktrack
=============================================================================
