--------------------------- MODULE ServingProofs ----------------------------
(***************************************************************************)
(* What the API serves from shared state, for every instance: who can mark *)
(* a notification read and what keeps it read (Notifications), and, for    *)
(* the composition Serving, that it adds nothing to its components, so     *)
(* that what NonceProofs and CacheProofs say of each holds of it.          *)
(***************************************************************************)
EXTENDS NonceProofs

CacheTheorems == INSTANCE CacheProofs WITH Addresses <- CacheAddresses

-----------------------------------------------------------------------------
\* Notifications.

Noted == Notes!Events
Phases == {"idle", "authenticated", "owner", "all"}

\* The table: rows are numbered below the sequence, each holds the notification of
\* an event that was taken, addressed to that event's recipient.
TableOK ==
    /\ nextId \in Nat \ {0} /\ taken \in Nat
    /\ \A e \in 1..taken : e \in Noted
    /\ late \subseteq 1..taken
    /\ \A i \in DOMAIN rows :
        /\ i \in 1..(nextId - 1)
        /\ rows[i] \in [event : 1..taken, address : Accounts, read : BOOLEAN]
        /\ rows[i].address = Recipient[rows[i].event]

\* The requests: who was let in had signed, and who owns a row still does unless
\* the table was numbered anew under it.
RequestsOK ==
    /\ request \in [Requests -> [phase : Phases, as : SUBSET Accounts, id : Nat]]
    /\ \A r \in Requests :
        /\ request[r].as \subseteq signed
        /\ request[r].phase = "owner" /\ ~renumbered =>
              request[r].id \in DOMAIN rows /\ rows[request[r].id].address \in request[r].as

\* The reindex: the flags it read are those of the table, but for the rows marked
\* behind its back, and each is one whose recipient had signed.
ReindexOK ==
    /\ reindexing \in BOOLEAN /\ renumbered \in BOOLEAN /\ missed \in BOOLEAN
    /\ saved \subseteq Noted
    /\ ~renumbered => \A e \in saved : Recipient[e] \in signed
    /\ reindexing /\ ~missed => Notes!ReadOf(rows) \subseteq saved

NotesInv == TableOK /\ RequestsOK /\ ReindexOK /\ OnlySignersRead

\* Only the columns of a row that its route writes change.
LEMMA NoteFields ==
    ASSUME NEW e \in Noted, NEW b \in BOOLEAN
    PROVE  /\ Notes!NoteOf(e).event = e /\ Notes!NoteOf(e).address = Recipient[e] /\ Recipient[e] \in Accounts
           /\ Notes!NoteOf(e).read = FALSE
           /\ [Notes!NoteOf(e) EXCEPT !.read = b] = [event |-> e, address |-> Recipient[e], read |-> b]
  BY ServingAssumption DEF Notes!NoteOf, Noted, Notes!Events

LEMMA NotesInvInit == Notes!Init => NotesInv
<1> SUFFICES ASSUME Notes!Init PROVE NotesInv
  OBVIOUS
<1>1. rows = [i \in {} |-> Notes!Idle] /\ DOMAIN rows = {}
  BY DEF Notes!Init
<1>2. TableOK
  BY <1>1 DEF Notes!Init, TableOK
<1>3. RequestsOK
  BY DEF Notes!Init, RequestsOK, Notes!Idle, Phases
<1>4. ReindexOK
  BY DEF Notes!Init, ReindexOK
<1>5. OnlySignersRead
  BY <1>1 DEF OnlySignersRead, Notes!OnlySignersRead
<1> QED
  BY <1>2, <1>3, <1>4, <1>5 DEF NotesInv

\* notify, for an event that is taken by then: the row it adds is new, and unread.
LEMMA InsertStep ==
    ASSUME NotesInv, taken' \in Nat, taken <= taken', \A e \in 1..taken' : e \in Noted,
           late' \subseteq 1..taken', NEW e \in 1..taken', Notes!Insert(e), ~reindexing,
           UNCHANGED <<live, issued, request, reindexing, saved, reindexes, signed, renumbered, missed>>
    PROVE  NotesInv' /\ Notes!ReadOf(rows) \subseteq Notes!ReadOf(rows')
<1>0. TableOK /\ RequestsOK /\ ReindexOK /\ OnlySignersRead /\ e \in Noted
  BY DEF NotesInv
<1>1. nextId \in Nat \ {0} /\ nextId' = nextId + 1 /\ nextId' \in Nat \ {0} /\ nextId \notin DOMAIN rows
  BY <1>0 DEF Notes!Insert, TableOK
<1>2. /\ DOMAIN rows \subseteq DOMAIN rows' /\ DOMAIN rows' \subseteq DOMAIN rows \cup {nextId}
      /\ \A i \in DOMAIN rows : rows'[i] = rows[i]
      /\ nextId \in DOMAIN rows' => rows'[nextId] = Notes!NoteOf(e)
  BY <1>1 DEF Notes!Insert
<1>3. ASSUME NEW i \in DOMAIN rows'
      PROVE  /\ i \in 1..(nextId' - 1)
             /\ rows'[i] \in [event : 1..taken', address : Accounts, read : BOOLEAN]
             /\ rows'[i].address = Recipient[rows'[i].event]
             /\ rows'[i].read => i \in DOMAIN rows /\ rows'[i] = rows[i]
  <2>1. CASE i = nextId
    <3>1. rows'[i] = [event |-> e, address |-> Recipient[e], read |-> FALSE] /\ Recipient[e] \in Accounts
      BY <1>0, <1>2, <2>1, NoteFields DEF Notes!NoteOf
    <3> QED
      BY <1>1, <2>1, <3>1
  <2>2. CASE i # nextId
    <3>1. i \in DOMAIN rows /\ rows'[i] = rows[i]
      BY <1>2, <2>2
    <3>2. i \in 1..(nextId - 1) /\ rows[i] \in [event : 1..taken, address : Accounts, read : BOOLEAN]
          /\ rows[i].address = Recipient[rows[i].event]
      BY <1>0, <3>1 DEF TableOK
    <3>3. taken \in Nat /\ 1..taken \subseteq 1..taken' /\ i \in 1..(nextId' - 1)
      BY <1>0, <1>1, <3>2 DEF TableOK
    <3> QED
      BY <3>1, <3>2, <3>3
  <2> QED
    BY <2>1, <2>2
<1>4. TableOK'
  BY <1>1, <1>3 DEF TableOK
<1>5. RequestsOK'
  BY <1>0, <1>2 DEF RequestsOK
<1>6. ReindexOK'
  BY <1>0 DEF ReindexOK
<1>7. OnlySignersRead'
  BY <1>0, <1>3 DEF OnlySignersRead, Notes!OnlySignersRead
<1>8. Notes!ReadOf(rows) \subseteq Notes!ReadOf(rows')
  BY <1>2 DEF Notes!ReadOf
<1> QED
  BY <1>4, <1>5, <1>6, <1>7, <1>8 DEF NotesInv

\* A step of the requests and the nonces alone.
LEMMA AdmissionStep ==
    ASSUME NotesInv, signed \subseteq signed',
           request' \in [Requests -> [phase : Phases, as : SUBSET Accounts, id : Nat]],
           \A r \in Requests :
              \/ request'[r] = request[r]
              \/ /\ request'[r].as \subseteq signed'
                 /\ request'[r].phase = "owner" => request'[r].id \in DOMAIN rows
                                                   /\ rows[request'[r].id].address \in request'[r].as,
           UNCHANGED <<rows, nextId, taken, late, reindexing, saved, reindexes, renumbered, missed>>
    PROVE  NotesInv'
<1>0. TableOK /\ RequestsOK /\ ReindexOK /\ OnlySignersRead
  BY DEF NotesInv
<1>1. TableOK'
  BY <1>0 DEF TableOK
<1>2. RequestsOK'
  BY <1>0 DEF RequestsOK
<1>3. ReindexOK'
  BY <1>0 DEF ReindexOK
<1>4. OnlySignersRead'
  BY <1>0 DEF OnlySignersRead, Notes!OnlySignersRead
<1> QED
  BY <1>1, <1>2, <1>3, <1>4 DEF NotesInv

\* Rows of accounts that signed are marked.
LEMMA MarkStep ==
    ASSUME NotesInv, NEW ids, Notes!MarkRead(ids), NEW r \in Requests,
           request' = [request EXCEPT ![r] = Notes!Idle],
           ~renumbered => \A i \in ids \cap DOMAIN rows : rows[i].address \in signed,
           UNCHANGED <<nextId, taken, late, live, issued, reindexing, saved, reindexes, signed, renumbered>>
    PROVE  NotesInv' /\ Notes!ReadOf(rows) \subseteq Notes!ReadOf(rows')
<1>0. TableOK /\ RequestsOK /\ ReindexOK /\ OnlySignersRead
  BY DEF NotesInv
<1>1. /\ DOMAIN rows' = DOMAIN rows
      /\ \A i \in DOMAIN rows : rows'[i] = IF i \in ids THEN [rows[i] EXCEPT !.read = TRUE] ELSE rows[i]
      /\ missed' = (missed \/ (reindexing /\ \E i \in ids \cap DOMAIN rows : ~rows[i].read))
  BY DEF Notes!MarkRead
<1>2. ASSUME NEW i \in DOMAIN rows
      PROVE  /\ rows'[i] \in [event : 1..taken, address : Accounts, read : BOOLEAN]
             /\ rows'[i].event = rows[i].event /\ rows'[i].address = rows[i].address
             /\ rows[i].read => rows'[i].read
             /\ rows'[i].read => rows[i].read \/ i \in ids
  <2>1. rows[i] \in [event : 1..taken, address : Accounts, read : BOOLEAN]
    BY <1>0 DEF TableOK
  <2> QED
    BY <1>1, <2>1
<1>3. TableOK'
  BY <1>0, <1>1, <1>2 DEF TableOK
<1>4. RequestsOK'
  <2>1. Notes!Idle \in [phase : Phases, as : SUBSET Accounts, id : Nat] /\ Notes!Idle.phase # "owner" /\ Notes!Idle.as = {}
    BY DEF Notes!Idle, Phases
  <2>2. request' \in [Requests -> [phase : Phases, as : SUBSET Accounts, id : Nat]]
    BY <1>0, <2>1 DEF RequestsOK
  <2>3. \A q \in Requests : request'[q] = IF q = r THEN Notes!Idle ELSE request[q]
    BY <1>0 DEF RequestsOK
  <2> QED
    BY <1>0, <1>1, <1>2, <2>1, <2>2, <2>3 DEF RequestsOK
<1>5. ReindexOK'
  <2>1. missed' \in BOOLEAN
    BY <1>1
  <2>2. ASSUME reindexing, ~missed' PROVE Notes!ReadOf(rows') \subseteq saved
    <3>1. ~missed /\ \A i \in ids \cap DOMAIN rows : rows[i].read
      BY <1>0, <1>1, <2>2 DEF ReindexOK
    <3>2. Notes!ReadOf(rows) \subseteq saved
      BY <1>0, <2>2, <3>1 DEF ReindexOK
    <3>3. Notes!ReadOf(rows') \subseteq Notes!ReadOf(rows)
      BY <1>1, <1>2, <3>1 DEF Notes!ReadOf
    <3> QED
      BY <3>2, <3>3
  <2> QED
    BY <1>0, <2>1, <2>2 DEF ReindexOK
<1>6. OnlySignersRead'
  BY <1>0, <1>1, <1>2 DEF OnlySignersRead, Notes!OnlySignersRead
<1>7. Notes!ReadOf(rows) \subseteq Notes!ReadOf(rows')
  BY <1>1, <1>2 DEF Notes!ReadOf
<1> QED
  BY <1>3, <1>4, <1>5, <1>6, <1>7 DEF NotesInv

\* The rows a rebuild makes are those of the log, with the flags it saved.
LEMMA RebuildStep ==
    ASSUME NotesInv, Notes!RebuildTable
    PROVE  NotesInv' /\ (~missed => Notes!ReadOf(rows) \cap Notes!NotedIn(rows') \subseteq Notes!ReadOf(rows'))
<1>0. TableOK /\ RequestsOK /\ ReindexOK /\ OnlySignersRead /\ taken \in Nat
  BY DEF NotesInv, TableOK
<1>1. /\ rows' = [i \in 1 .. taken |-> [Notes!NoteOf(i) EXCEPT !.read = (i \in saved)]]
      /\ nextId' = taken + 1 /\ reindexing /\ reindexing' = FALSE /\ saved' = {}
      /\ renumbered' = (renumbered \/ \E r \in Requests : request[r].phase = "owner")
      /\ UNCHANGED <<taken, late, live, issued, request, signed, missed>>
  BY DEF Notes!RebuildTable, Notes!Restored, Notes!indexer, Notes!store
<1>2. DOMAIN rows' = 1..taken
  BY <1>1
<1>3. ASSUME NEW i \in 1..taken
      PROVE  rows'[i] = [event |-> i, address |-> Recipient[i], read |-> (i \in saved)] /\ Recipient[i] \in Accounts
  <2>1. i \in Noted /\ (i \in saved) \in BOOLEAN
    BY <1>0 DEF TableOK
  <2> QED
    BY <1>1, <2>1, NoteFields
<1>3a. ASSUME NEW i \in 1..taken
       PROVE  /\ rows'[i] \in [event : 1..taken, address : Accounts, read : BOOLEAN]
              /\ rows'[i].event = i /\ rows'[i].address = Recipient[i]
              /\ rows'[i].read <=> i \in saved
  <2> DEFINE b == i \in saved
  <2>1. b \in BOOLEAN /\ (b <=> i \in saved)
    OBVIOUS
  <2>2. rows'[i] = [event |-> i, address |-> Recipient[i], read |-> b] /\ Recipient[i] \in Accounts
    BY <1>3
  <2> HIDE DEF b
  <2>3. /\ rows'[i] \in [event : 1..taken, address : Accounts, read : BOOLEAN]
        /\ rows'[i].event = i /\ rows'[i].address = Recipient[i]
    BY <2>1, <2>2
  <2>4. rows'[i].read = b
    BY <2>2
  <2> QED
    BY <2>1, <2>3, <2>4
<1>4. TableOK'
  <2>1. nextId' \in Nat \ {0} /\ taken' = taken /\ nextId' - 1 = taken
    BY <1>0, <1>1
  <2>2. \A e \in 1..taken : e \in Noted
    BY <1>0 DEF TableOK
  <2>3. late' \subseteq 1..taken
    BY <1>0, <1>1 DEF TableOK
  <2> QED
    BY <1>0, <1>2, <1>3a, <2>1, <2>2, <2>3 DEF TableOK
<1>5. renumbered' \in BOOLEAN /\ (~renumbered' => ~renumbered /\ \A r \in Requests : request[r].phase # "owner")
  BY <1>0, <1>1 DEF ReindexOK
<1>6. RequestsOK'
  BY <1>0, <1>1, <1>5 DEF RequestsOK
<1>7. ReindexOK'
  BY <1>0, <1>1, <1>5 DEF ReindexOK
<1>8. OnlySignersRead'
  BY <1>0, <1>1, <1>2, <1>3a, <1>5 DEF OnlySignersRead, Notes!OnlySignersRead, ReindexOK
<1>9. ASSUME ~missed, NEW e \in Notes!ReadOf(rows), e \in Notes!NotedIn(rows') PROVE e \in Notes!ReadOf(rows')
  <2>1. e \in saved
    BY <1>0, <1>1, <1>9 DEF ReindexOK
  <2>2. e \in 1..taken /\ rows'[e].event = e
    BY <1>2, <1>3a, <1>9 DEF Notes!NotedIn
  <2>3. e \in DOMAIN rows' /\ rows'[e].read
    BY <1>2, <1>3a, <2>1, <2>2
  <2> QED
    BY <2>2, <2>3 DEF Notes!ReadOf
<1> QED
  BY <1>4, <1>6, <1>7, <1>8, <1>9 DEF NotesInv

\* The reindex reads the flags.
LEMMA SaveReadsStep ==
    ASSUME NotesInv, Notes!SaveReads
    PROVE  NotesInv'
<1>0. TableOK /\ RequestsOK /\ ReindexOK /\ OnlySignersRead
  BY DEF NotesInv
<1>1. /\ saved' = {rows[i].event : i \in {j \in DOMAIN rows : rows[j].read}} /\ reindexing' = TRUE
      /\ UNCHANGED <<rows, nextId, taken, late, live, issued, request, signed, renumbered, missed>>
  BY DEF Notes!SaveReads, Notes!indexer, Notes!store
<1>2. TableOK' /\ RequestsOK' /\ OnlySignersRead'
  BY <1>0, <1>1 DEF TableOK, RequestsOK, OnlySignersRead, Notes!OnlySignersRead
<1>3. saved' \subseteq Noted
  BY <1>0, <1>1 DEF TableOK
<1>4. ~renumbered => \A e \in saved' : Recipient[e] \in signed
  BY <1>0, <1>1 DEF TableOK, OnlySignersRead, Notes!OnlySignersRead
<1>5. ReindexOK'
  BY <1>0, <1>1, <1>3, <1>4 DEF ReindexOK, Notes!ReadOf
<1> QED
  BY <1>2, <1>5 DEF NotesInv

\* authenticateRequest lets in a request whose accounts have signed.
LEMMA AdmitStep ==
    ASSUME NotesInv, NEW r \in Requests, NEW p \in Presented, NEW n, NEW key \in Accounts,
           NEW next \in [phase : Phases, as : SUBSET Accounts, id : Nat],
           next.as \subseteq {key}, next.phase # "owner", Notes!Admit(r, p, n, key, next)
    PROVE  NotesInv'
<1>1. /\ signed' = signed \cup {key} /\ request' = [request EXCEPT ![r] = next]
      /\ UNCHANGED <<rows, nextId, taken, late, reindexing, saved, reindexes, renumbered, missed>>
  BY DEF Notes!Admit, Notes!indexer, Notes!rebuild
<1>2. request \in [Requests -> [phase : Phases, as : SUBSET Accounts, id : Nat]]
  BY DEF NotesInv, RequestsOK
<1>3. request' \in [Requests -> [phase : Phases, as : SUBSET Accounts, id : Nat]]
  BY <1>1, <1>2
<1>4. \A q \in Requests : request'[q] = IF q = r THEN next ELSE request[q]
  BY <1>1, <1>2
<1> QED
  BY <1>1, <1>3, <1>4, AdmissionStep

LEMMA NotesStep ==
    NotesInv /\ [Notes!Next]_Notes!vars =>
        NotesInv' /\ (~missed => Notes!ReadOf(rows) \cap Notes!NotedIn(rows') \subseteq Notes!ReadOf(rows'))
<1> DEFINE Stays == ~missed => Notes!ReadOf(rows) \cap Notes!NotedIn(rows') \subseteq Notes!ReadOf(rows')
<1> SUFFICES ASSUME NotesInv, [Notes!Next]_Notes!vars PROVE NotesInv' /\ Stays
  OBVIOUS
<1>0. TableOK /\ RequestsOK /\ ReindexOK /\ taken \in Nat /\ late \subseteq 1..taken
  BY DEF NotesInv, TableOK
<1>1. CASE Notes!Fold
  <2>1. /\ taken' = taken + 1 /\ taken + 1 \in Noted /\ Notes!Insert(taken + 1) /\ ~reindexing
        /\ UNCHANGED <<late, live, issued, request, reindexing, saved, reindexes, signed, renumbered, missed>>
    BY <1>1 DEF Notes!Fold, Notes!store, Notes!rebuild, Noted
  <2>2. /\ taken' \in Nat /\ taken <= taken' /\ taken + 1 \in 1..taken' /\ late' \subseteq 1..taken'
        /\ \A e \in 1..taken' : e \in Noted
    BY <1>0, <2>1 DEF TableOK
  <2> QED
    BY <2>1, <2>2, InsertStep
<1>2. CASE Notes!Quarantine
  <2>1. /\ taken' = taken + 1 /\ taken + 1 \in Noted /\ late' = late \cup {taken + 1}
        /\ UNCHANGED <<rows, nextId, live, issued, request, reindexing, saved, reindexes, signed, renumbered, missed>>
    BY <1>2 DEF Notes!Quarantine, Notes!store, Notes!rebuild, Noted
  <2>2. 1..taken \subseteq 1..taken' /\ taken' \in Nat /\ late' \subseteq 1..taken' /\ \A e \in 1..taken' : e \in Noted
    BY <1>0, <2>1 DEF TableOK
  <2>3. TableOK'
    BY <1>0, <2>1, <2>2 DEF TableOK
  <2>4. RequestsOK' /\ ReindexOK' /\ OnlySignersRead'
    BY <1>0, <2>1 DEF NotesInv, RequestsOK, ReindexOK, OnlySignersRead, Notes!OnlySignersRead
  <2> QED
    BY <2>1, <2>3, <2>4 DEF NotesInv
<1>3. ASSUME NEW e \in late, Notes!Refold(e) PROVE NotesInv' /\ Stays
  <2>1. /\ late' = late \ {e} /\ Notes!Insert(e) /\ ~reindexing
        /\ UNCHANGED <<taken, live, issued, request, reindexing, saved, reindexes, signed, renumbered, missed>>
    BY <1>3 DEF Notes!Refold, Notes!store, Notes!rebuild
  <2>2. /\ taken' \in Nat /\ taken <= taken' /\ e \in 1..taken' /\ late' \subseteq 1..taken'
        /\ \A d \in 1..taken' : d \in Noted
    BY <1>0, <2>1 DEF TableOK
  <2> QED
    BY <2>1, <2>2, InsertStep
<1>4. CASE Notes!SaveReads
  BY <1>4, SaveReadsStep DEF Notes!SaveReads
<1>5. CASE Notes!RebuildTable
  BY <1>5, RebuildStep
<1>6. ASSUME NEW p \in Presented, NEW n \in NoteNonces, Notes!Challenge(p, n) PROVE NotesInv' /\ Stays
  <2>1. UNCHANGED <<rows, nextId, taken, late, request, reindexing, saved, reindexes, signed, renumbered, missed>>
    BY <1>6 DEF Notes!Challenge, Notes!indexer, Notes!rebuild
  <2> QED
    BY <1>0, <2>1, AdmissionStep DEF RequestsOK
<1>7. ASSUME NEW p \in Presented, NEW n \in NoteNonces, NEW r \in Requests, NEW key \in Accounts, NEW id \in Notes!Events,
             Notes!AuthenticateRead(r, p, n, key, id)
      PROVE  NotesInv' /\ Stays
  <2> DEFINE next == [phase |-> "authenticated", as |-> Base[p], id |-> id]
  <2>1. Notes!Admit(r, p, n, key, next) /\ key \in Base[p]
    BY <1>7 DEF Notes!AuthenticateRead, Notes!Admit, Notes!verifySignature
  <2>2. Base[p] \subseteq {key} /\ id \in Nat
    BY <2>1, ServingAssumption DEF Notes!Events
  <2>3. next \in [phase : Phases, as : SUBSET Accounts, id : Nat] /\ next.as \subseteq {key} /\ next.phase # "owner"
    BY <2>2, ServingAssumption DEF Phases
  <2>4. rows' = rows
    BY <2>1 DEF Notes!Admit
  <2> HIDE DEF next
  <2> QED
    BY <2>1, <2>3, <2>4, AdmitStep
<1>8. ASSUME NEW p \in Presented, NEW n \in NoteNonces, NEW r \in Requests, NEW key \in Accounts, NEW a \in Accounts,
             Notes!AuthenticateAll(r, p, n, key, a)
      PROVE  NotesInv' /\ Stays
  <2> DEFINE next == IF a = p THEN [phase |-> "all", as |-> {a}, id |-> 0] ELSE Notes!Idle
  <2>1. Notes!Admit(r, p, n, key, next) /\ key \in Base[p]
    BY <1>8 DEF Notes!AuthenticateAll, Notes!Admit, Notes!verifySignature
  <2>2. a = p => Base[p] = {a}
    BY ServingAssumption
  <2>3. next \in [phase : Phases, as : SUBSET Accounts, id : Nat] /\ next.as \subseteq {key} /\ next.phase # "owner"
    BY <2>1, <2>2 DEF Phases, Notes!Idle
  <2>4. rows' = rows
    BY <2>1 DEF Notes!Admit
  <2> HIDE DEF next
  <2> QED
    BY <2>1, <2>3, <2>4, AdmitStep
<1>9. ASSUME NEW r \in Requests, Notes!Select(r) PROVE NotesInv' /\ Stays
  <2> DEFINE next == IF Notes!Owns(r) THEN [request[r] EXCEPT !.phase = "owner"] ELSE Notes!Idle
  <2>1. /\ request' = [request EXCEPT ![r] = next]
        /\ UNCHANGED <<rows, nextId, taken, late, reindexing, saved, reindexes, signed, renumbered, missed>>
    BY <1>9 DEF Notes!Select, Notes!indexer, Notes!rebuild
  <2>2. request[r] \in [phase : Phases, as : SUBSET Accounts, id : Nat] /\ request[r].as \subseteq signed
    BY <1>0 DEF RequestsOK
  <2>3. /\ next \in [phase : Phases, as : SUBSET Accounts, id : Nat] /\ next.as \subseteq signed
        /\ next.phase = "owner" => next.id \in DOMAIN rows /\ rows[next.id].address \in next.as
    <3>1. CASE Notes!Owns(r)
      BY <2>2, <3>1 DEF Notes!Owns, Phases
    <3>2. CASE ~Notes!Owns(r)
      BY <3>2 DEF Notes!Idle, Phases
    <3> QED
      BY <3>1, <3>2
  <2> HIDE DEF next
  <2>4. \A q \in Requests : request'[q] = IF q = r THEN next ELSE request[q]
    BY <1>0, <2>1 DEF RequestsOK
  <2>5. request' \in [Requests -> [phase : Phases, as : SUBSET Accounts, id : Nat]]
    BY <1>0, <2>1, <2>3 DEF RequestsOK
  <2> QED
    BY <2>1, <2>3, <2>4, <2>5, AdmissionStep
<1>10. ASSUME NEW r \in Requests, Notes!Update(r) PROVE NotesInv' /\ Stays
  <2>1. /\ Notes!MarkRead({request[r].id}) /\ request' = [request EXCEPT ![r] = Notes!Idle]
        /\ UNCHANGED <<nextId, taken, late, live, issued, reindexing, saved, reindexes, signed, renumbered>>
    BY <1>10 DEF Notes!Update, Notes!indexer, Notes!rebuild, Notes!store
  <2>2. ~renumbered => \A i \in {request[r].id} \cap DOMAIN rows : rows[i].address \in signed
    BY <1>0, <1>10 DEF RequestsOK, Notes!Update
  <2> QED
    BY <2>1, <2>2, MarkStep
<1>11. ASSUME NEW r \in Requests, Notes!UpdateAll(r) PROVE NotesInv' /\ Stays
  <2> DEFINE ids == {i \in DOMAIN rows : rows[i].address \in request[r].as}
  <2>1. /\ Notes!MarkRead(ids) /\ request' = [request EXCEPT ![r] = Notes!Idle]
        /\ UNCHANGED <<nextId, taken, late, live, issued, reindexing, saved, reindexes, signed, renumbered>>
    BY <1>11 DEF Notes!UpdateAll, Notes!indexer, Notes!rebuild, Notes!store
  <2>2. \A i \in ids \cap DOMAIN rows : rows[i].address \in signed
    BY <1>0 DEF RequestsOK
  <2> HIDE DEF ids
  <2> QED
    BY <2>1, <2>2, MarkStep
<1>12. CASE UNCHANGED Notes!vars
  BY <1>0, <1>12, AdmissionStep DEF Notes!vars, RequestsOK
<1> QED
  BY <1>1, <1>2, <1>3, <1>4, <1>5, <1>6, <1>7, <1>8, <1>9, <1>10, <1>11, <1>12 DEF Notes!Next

(***************************************************************************)
(* A notification is marked read only for an account whose key signed a    *)
(* request of its own, whatever requests, replays and rebuilds interleave, *)
(* as long as no rebuild comes between a request's ownership check and its *)
(* update (auth.ts 545-593, routes 841-893).                               *)
(***************************************************************************)
THEOREM OnlySignersMarkRead == Notes!Spec => []OnlySignersRead
<1>1. NotesInv => OnlySignersRead
  BY DEF NotesInv
<1>2. NotesInv /\ [Notes!Next]_Notes!vars => NotesInv'
  BY NotesStep
<1> QED
  BY <1>1, <1>2, NotesInvInit, PTL DEF Notes!Spec

(***************************************************************************)
(* A notification that was read stays read through every rebuild, whatever *)
(* its number becomes, unless a row was marked between a reindex reading   *)
(* the flags and emptying the table (reindex.ts 84-90, 166-173).           *)
(***************************************************************************)
THEOREM RebuildKeepsReads == Notes!Spec => ReadStays
<1>1. NotesInv /\ [Notes!Next]_Notes!vars => NotesInv'
  BY NotesStep
<1>2. NotesInv /\ [Notes!Next]_Notes!vars =>
        [~missed => Notes!ReadOf(rows) \cap Notes!NotedIn(rows') \subseteq Notes!ReadOf(rows')]_Notes!vars
  BY NotesStep
<1> QED
  BY <1>1, <1>2, NotesInvInit, PTL DEF Notes!Spec, ReadStays, Notes!ReadStays

-----------------------------------------------------------------------------
\* The composition: a step of it is a step of one component, or of none.

LEMMA CacheInstance == Cache!Spec => CacheTheorems!Spec
<1>1. Cache!Init => CacheTheorems!Init
  BY DEF Cache!Init, CacheTheorems!Init, Cache!Folders, CacheTheorems!Folders,
       Cache!membersListCacheKey, CacheTheorems!membersListCacheKey, Cache!memberSummaryCacheKey,
       CacheTheorems!memberSummaryCacheKey, Cache!ListKeys, CacheTheorems!ListKeys, Cache!Keys,
       CacheTheorems!Keys, Cache!Absent, CacheTheorems!Absent, Cache!Idle, CacheTheorems!Idle
<1>2. [Cache!Next]_Cache!vars => [CacheTheorems!Next]_CacheTheorems!vars
  BY DEF Cache!Next, CacheTheorems!Next, Cache!vars, CacheTheorems!vars, Cache!Folders,
       CacheTheorems!Folders, Cache!membersListCacheKey, CacheTheorems!membersListCacheKey,
       Cache!memberSummaryCacheKey, CacheTheorems!memberSummaryCacheKey, Cache!ListKeys,
       CacheTheorems!ListKeys, Cache!Keys, CacheTheorems!Keys, Cache!Absent, CacheTheorems!Absent,
       Cache!Idle, CacheTheorems!Idle, Cache!Symbols, CacheTheorems!Symbols, Cache!MembersChannel,
       CacheTheorems!MembersChannel, Cache!Event, CacheTheorems!Event, Cache!Changes,
       CacheTheorems!Changes, Cache!Scan, CacheTheorems!Scan, Cache!DelList, CacheTheorems!DelList,
       Cache!DelSummary, CacheTheorems!DelSummary, Cache!Notify, CacheTheorems!Notify,
       Cache!AfterHit, CacheTheorems!AfterHit, Cache!Hit, CacheTheorems!Hit, Cache!Miss,
       CacheTheorems!Miss, Cache!Fetch, CacheTheorems!Fetch, Cache!Set, CacheTheorems!Set,
       Cache!SetFails, CacheTheorems!SetFails, Cache!Aged, CacheTheorems!Aged, Cache!Tick,
       CacheTheorems!Tick, Cache!AfterPage, CacheTheorems!AfterPage, Cache!AfterReplay,
       CacheTheorems!AfterReplay, Cache!AfterReindex, CacheTheorems!AfterReindex, Cache!WillDelete,
       CacheTheorems!WillDelete, Cache!Commit, CacheTheorems!Commit, Cache!Raised,
       CacheTheorems!Raised, Cache!Emitted, CacheTheorems!Emitted, Cache!FoldEvent,
       CacheTheorems!FoldEvent, Cache!ReplayEvent, CacheTheorems!ReplayEvent, Cache!Reindex,
       CacheTheorems!Reindex, Cache!Matching, CacheTheorems!Matching, Cache!Delete,
       CacheTheorems!Delete, Cache!DoJob, CacheTheorems!DoJob, Cache!Skipped, CacheTheorems!Skipped,
       Cache!Lose, CacheTheorems!Lose, Cache!JobFails, CacheTheorems!JobFails, Cache!Crash,
       CacheTheorems!Crash
<1> QED
  BY <1>1, <1>2, PTL DEF Cache!Spec, CacheTheorems!Spec

LEMMA ComponentsImplied == ServingSpec => Spec /\ Postgres!Spec /\ Notes!Spec /\ Cache!Spec
<1> DEFINE all == <<vars, postgresVars, notesVars, cacheVars, subject>>
<1>1. ServingInit => Init /\ Postgres!Init /\ Notes!Init /\ Cache!Init
  BY DEF ServingInit
<1>2. [ServingNext]_all => [Next]_vars
  BY DEF ServingNext
<1>3. [ServingNext]_all => [Postgres!Next]_Postgres!vars
  BY DEF ServingNext, postgresVars, Postgres!vars
<1>4. [ServingNext]_all => [Notes!Next]_Notes!vars
  BY DEF ServingNext, notesVars, Notes!vars
<1>5. [ServingNext]_all => [Cache!Next]_Cache!vars
  BY DEF ServingNext, cacheVars, Cache!vars
<1> QED
  BY <1>1, <1>2, <1>3, <1>4, <1>5, PTL DEF ServingSpec, Spec, Postgres!Spec, Notes!Spec, Cache!Spec

(***************************************************************************)
(* Once the stream announced a change of member state, no entry older than *)
(* it is in the cache, but for the excused ones, for every set of readers, *)
(* keys, time to live and number of faults (poller.ts 289-296, redis.ts    *)
(* 90-154).                                                                *)
(***************************************************************************)
THEOREM ServingToldIsFresh == ServingSpec => []ToldIsFresh
<1>1. CacheTheorems!Spec => []CacheTheorems!ToldIsFresh
  BY ServingAssumption, CacheTheorems!CacheToldIsFresh
<1>2. CacheTheorems!ToldIsFresh => ToldIsFresh
  BY DEF ToldIsFresh, Cache!ToldIsFresh, CacheTheorems!ToldIsFresh,
         Cache!Keys, CacheTheorems!Keys, Cache!ListKeys, CacheTheorems!ListKeys,
       Cache!membersListCacheKey, CacheTheorems!membersListCacheKey, Cache!memberSummaryCacheKey,
       CacheTheorems!memberSummaryCacheKey, Cache!Absent, CacheTheorems!Absent
<1> QED
  BY <1>1, <1>2, CacheInstance, ComponentsImplied, PTL

\* The types of both nonce stores and of the member cache, in every state of the
\* composition (auth.ts 268-401, redis.ts 20-154).
THEOREM ServingTypeCorrect == ServingSpec => []ServingTypeOK
<1>1. Spec => []TypeOK
  BY MemoryType, MemoryTypeStep, PTL DEF Spec
<1>2. Postgres!Spec => []Postgres!TypeOK
  <2>1. Postgres!Init => Postgres!TypeOK
    BY TableInvInit DEF TableInv
  <2> QED
    BY <2>1, TableTypeStep, PTL DEF Postgres!Spec
<1>3. CacheTheorems!Spec => []CacheTheorems!TypeOK
  BY ServingAssumption, CacheTheorems!CacheTypeCorrect
<1>4. CacheTheorems!TypeOK => Cache!TypeOK
  BY DEF Cache!TypeOK, CacheTheorems!TypeOK, Cache!Folders, CacheTheorems!Folders,
       Cache!membersListCacheKey, CacheTheorems!membersListCacheKey, Cache!memberSummaryCacheKey,
       CacheTheorems!memberSummaryCacheKey, Cache!ListKeys, CacheTheorems!ListKeys, Cache!Keys,
       CacheTheorems!Keys, Cache!Absent, CacheTheorems!Absent, Cache!Versions,
       CacheTheorems!Versions, Cache!Entries, CacheTheorems!Entries, Cache!Idle, CacheTheorems!Idle,
       Cache!Lookups, CacheTheorems!Lookups, Cache!Ops, CacheTheorems!Ops
<1> QED
  BY <1>1, <1>2, <1>3, <1>4, CacheInstance, ComponentsImplied, PTL DEF ServingTypeOK

(***************************************************************************)
(* What holds of each component alone holds of them side by side: both     *)
(* nonce stores keep their promise, the counts per address are exact and   *)
(* the capacity is not overshot by more than the challenges in flight,     *)
(* only signers mark notifications read, and what was read stays read.     *)
(***************************************************************************)
THEOREM ServingSafe ==
    ServingSpec => /\ KeepsPromise /\ TableKeepsPromise
                   /\ []CountsExact /\ []OvershootBounded
                   /\ []OnlySignersRead /\ ReadStays
<1> QED
  BY ComponentsImplied, MemoryImplementsNonceStore, TableImplementsNonceStore, MemoryCountsExact,
     TableOvershootBounded, OnlySignersMarkRead, RebuildKeepsReads, PTL
=============================================================================
