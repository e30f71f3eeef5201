------------------------------- MODULE Stream -------------------------------
(***************************************************************************)
(* The fan-out of change notifications to SSE clients (src/api/stream.ts): *)
(* NOTIFYs on their way to the process's one LISTEN connection, their      *)
(* dispatch to the connected clients, and what a StreamClient does with a  *)
(* message: SSE ids, backpressure, the bounded queue, the stall timer and  *)
(* the heartbeat with its retry.                                           *)
(*                                                                         *)
(* JavaScript runs a callback to its end, so a step is one callback: a     *)
(* NOTIFY, a timer, a 'drain', a request.  A message is its number; a      *)
(* frame carries that number and the SSE id.  Node's socket buffer is      *)
(* counted in frames, and `sock` is that buffer with what is on the        *)
(* network behind it.  A browser reconnects once its old connection was    *)
(* closed here; the answer it gets does not depend on the old one.  The    *)
(* process is replaced at any time (a deploy, a crash); a browser that     *)
(* moves to another instance meets it as it would a replaced one.          *)
(***************************************************************************)
EXTENDS Naturals, Sequences, FiniteSets

CONSTANTS
    Clients,       \* browsers
    Channels,      \* STREAM_CHANNELS, in the order of Object.values
    Subscribed,    \* the channels a browser asked for
    QueueLimit,    \* MAX_QUEUED_MESSAGES
    HighWater,     \* frames at which write() answers false
    SocketBound,   \* bound: forced heartbeats stop at this many frames
    MaxLedger,     \* bound on ledger sequences
    MaxNotes,      \* bound on NOTIFYs of changes
    MaxReorgs,     \* bound on reorg broadcasts
    MaxOutages,    \* bound on losses of the LISTEN connection
    MaxRestarts    \* bound on replacements of the process

ChannelSet == {Channels[i] : i \in DOMAIN Channels}
Ledgers == 0..MaxLedger     \* 0: none, or not known yet
NoId == MaxLedger + 1        \* no id received yet
NoteIds == Nat \ {0}

ASSUME StreamAssumption ==
    /\ Channels \in Seq(STRING) /\ Len(Channels) > 0
    /\ Subscribed \in [Clients -> SUBSET ChannelSet]
    /\ QueueLimit \in Nat
    /\ HighWater \in Nat \ {0}
    /\ SocketBound \in Nat /\ HighWater <= SocketBound
    /\ MaxLedger \in Nat /\ MaxNotes \in Nat /\ MaxReorgs \in Nat
    /\ MaxOutages \in Nat /\ MaxRestarts \in Nat

VARIABLES
    wire,       \* NOTIFYs the LISTEN connection has not delivered yet, in order
    notes,      \* how many NOTIFYs were sent
    reorgs,     \* how many reorg broadcasts
    outages,    \* how often the LISTEN connection was lost
    restarts,   \* how often the process was replaced
    known,      \* knownLedger.value
    lastReorg,  \* lastReorgLedger.value
    conn,       \* by browser: its StreamClient and its socket
    awake,      \* by browser: it reads its socket
    lastId,     \* by browser: the last SSE id it received
    seen,       \* by browser: the messages it received
    told,       \* by browser: what the resync event of its connection says
    \* history, no code reads it
    owed,       \* by browser: messages fanned out to its present connection
    due,        \* by browser: messages dispatched since it first connected
    waiting,    \* browsers open at a reorg broadcast and not sent it yet
    elsewhere   \* browsers whose last id was given by an earlier process

serverVars == <<wire, notes, reorgs, outages, restarts, known, lastReorg>>
historyVars == <<owed, due, waiting, elsewhere>>
browserVars == <<awake, lastId, seen, told>>
vars == <<serverVars, conn, browserVars, historyVars>>

-----------------------------------------------------------------------------
Note == [n : NoteIds, channel : ChannelSet, ledger : Ledgers,
         kind : {"change", "reorg", "malformed"}]
\* A frame on the socket: its SSE id and its message, 0 for the ones about the
\* connection itself (hello, resync, heartbeat, disconnect).
Frame == [id : Ledgers, n : NoteIds \cup {0}]

\* A StreamClient: its timers and flags, its queue, the SSE id baseline
\* lastSentLedger, and Node's side: the buffer and whether it owes a 'drain'.
Connection == [open : BOOLEAN, paused : BOOLEAN, queue : Seq(Frame), sock : Seq(Frame),
               needDrain : BOOLEAN, stall : BOOLEAN, retry : BOOLEAN, sent : Ledgers]
NoConnection == [open |-> FALSE, paused |-> FALSE, queue |-> <<>>, sock |-> <<>>,
                 needDrain |-> FALSE, stall |-> FALSE, retry |-> FALSE, sent |-> 0]

TypeOK ==
    /\ wire \in Seq(Note)
    /\ notes \in Nat /\ reorgs \in Nat /\ outages \in Nat /\ restarts \in Nat
    /\ known \in Ledgers /\ lastReorg \in Ledgers
    /\ conn \in [Clients -> Connection]
    /\ awake \in [Clients -> BOOLEAN]
    /\ lastId \in [Clients -> Ledgers \cup {NoId}]
    /\ seen \in [Clients -> SUBSET NoteIds]
    /\ told \in [Clients -> {"nothing", "missed", "caught up"}]
    /\ owed \in [Clients -> SUBSET NoteIds]
    /\ due \in [Clients -> SUBSET NoteIds]
    /\ waiting \subseteq Clients /\ elsewhere \subseteq Clients

Later(a, b) == IF a > b THEN a ELSE b

\* close(): idempotent; what is in Node's buffer may still go out.
Close(k) == [k EXCEPT !.open = FALSE, !.queue = <<>>, !.stall = FALSE, !.retry = FALSE]

\* Faulty variant: the stall timer runs only when frames are queued.
WriteFrameUntimed(k, frame) ==
    LET sock == Append(k.sock, frame)
        full == Len(sock) >= HighWater
    IN [k EXCEPT !.sock = sock, !.paused = full, !.stall = full /\ k.queue # <<>>,
                 !.needDrain = @ \/ full]

\* writeFrame: the answer of write() sets the pause and the stall timer.
WriteFrame(k, frame) ==
    LET sock == Append(k.sock, frame)
        full == Len(sock) >= HighWater
    IN [k EXCEPT !.sock = sock, !.paused = full, !.stall = full, !.needDrain = @ \/ full]

\* enqueue: a client over the bound is dropped.
Enqueue(k, frame) ==
    IF Len(k.queue) >= QueueLimit THEN Close(k) ELSE [k EXCEPT !.queue = Append(@, frame)]

\* Faulty variant: ids count the frames, as Date.now() once did, not ledgers.
SendMessageCounting(k, ledger, n) ==
    LET frame == [id |-> k.sent + 1, n |-> n]
        k1 == [k EXCEPT !.sent = k.sent + 1]
    IN IF ~k.open THEN k
       ELSE IF k.paused THEN Enqueue(k1, frame) ELSE WriteFrame(k1, frame)

\* sendMessage: the id baseline moves with a newer ledger, then write or queue.
SendMessage(k, ledger, n) ==
    LET sent == Later(k.sent, ledger)
        frame == [id |-> sent, n |-> n]
        k1 == [k EXCEPT !.sent = sent]
    IN IF ~k.open THEN k
       ELSE IF k.paused THEN Enqueue(k1, frame) ELSE WriteFrame(k1, frame)

\* Faulty variant: the frame that write() answered false on is lost.
FlushQueueLosing(k) ==
    LET room == HighWater - Len(k.sock)
        out == IF Len(k.queue) < room THEN Len(k.queue) ELSE room
        sock == k.sock \o SubSeq(k.queue, 1, IF out = room THEN out - 1 ELSE out)
    IN [k EXCEPT !.sock = sock, !.queue = SubSeq(@, out + 1, Len(@)),
                 !.paused = out = room, !.stall = out = room, !.needDrain = out = room]

\* flushQueue: frames go out until the queue is empty or write() answers false.
FlushQueue(k) ==
    LET room == HighWater - Len(k.sock)
        out == IF Len(k.queue) < room THEN Len(k.queue) ELSE room
        sock == k.sock \o SubSeq(k.queue, 1, out)
        full == Len(sock) >= HighWater
    IN [k EXCEPT !.sock = sock, !.queue = SubSeq(@, out + 1, Len(@)),
                 !.paused = full, !.stall = full, !.needDrain = full]

\* A client's connection becomes k, and nothing else changes.
Becomes(c, k) ==
    /\ conn' = [conn EXCEPT ![c] = k]
    /\ UNCHANGED <<serverVars, browserVars, historyVars>>

-----------------------------------------------------------------------------
(***************************************************************************)
(* Producers: the indexer's NOTIFYs, and anyone with database access.      *)
(***************************************************************************)

Publish(channel, ledger, kind) ==
    /\ notes < MaxNotes
    /\ notes' = notes + 1
    /\ wire' = Append(wire, [n |-> notes + 1, channel |-> channel, ledger |-> ledger,
                             kind |-> kind])
    /\ UNCHANGED <<reorgs, outages, restarts, known, lastReorg, conn, browserVars, historyVars>>

\* broadcastResyncToAllChannels: the same payload on every channel, in order.
BroadcastReorg(ledger) ==
    /\ reorgs < MaxReorgs
    /\ reorgs' = reorgs + 1
    /\ notes' = notes + Len(Channels)
    /\ wire' = wire \o [i \in 1..Len(Channels) |->
                          [n |-> notes + i, channel |-> Channels[i], ledger |-> ledger,
                           kind |-> "reorg"]]
    /\ waiting' = waiting \cup {c \in Clients : conn[c].open /\ Subscribed[c] # {}}
    /\ UNCHANGED <<outages, restarts, known, lastReorg, conn, browserVars, owed, due, elsewhere>>

-----------------------------------------------------------------------------
(***************************************************************************)
(* The LISTEN connection.                                                  *)
(***************************************************************************)

\* Faulty variant: a reorg signal does not move the frontier.
DispatchKeepingFrontier ==
    /\ wire # <<>>
    /\ wire' = Tail(wire)
    /\ LET note == Head(wire)
           valid == note.kind # "malformed"
           stale == note.kind = "reorg" /\ lastReorg # 0 /\ note.ledger <= lastReorg
           to == {c \in Clients : /\ valid /\ ~stale
                                  /\ conn[c].open /\ note.channel \in Subscribed[c]}
       IN /\ known' = IF note.kind = "change" THEN Later(known, note.ledger) ELSE known
          /\ lastReorg' = IF note.kind = "reorg" /\ ~stale THEN note.ledger ELSE lastReorg
          /\ conn' = [c \in Clients |->
                        IF c \in to THEN SendMessage(conn[c], note.ledger, note.n) ELSE conn[c]]
          /\ owed' = [c \in Clients |-> IF c \in to THEN owed[c] \cup {note.n} ELSE owed[c]]
    /\ UNCHANGED <<notes, reorgs, outages, restarts, browserVars, due, waiting, elsewhere>>

\* dispatchStreamNotification on the first NOTIFY of the wire: malformed ones and
\* reorg signals that are not newer than the last are dropped, the rest is
\* fanned out to the subscribers of the channel.
Dispatch ==
    /\ wire # <<>>
    /\ wire' = Tail(wire)
    /\ LET note == Head(wire)
           valid == note.kind # "malformed"
           stale == note.kind = "reorg" /\ lastReorg # 0 /\ note.ledger <= lastReorg
           to == {c \in Clients : /\ valid /\ ~stale
                                  /\ conn[c].open /\ note.channel \in Subscribed[c]}
       IN /\ known' = IF valid THEN Later(known, note.ledger) ELSE known
          /\ lastReorg' = IF note.kind = "reorg" /\ ~stale THEN note.ledger ELSE lastReorg
          /\ conn' = [c \in Clients |->
                        IF c \in to THEN SendMessage(conn[c], note.ledger, note.n) ELSE conn[c]]
          /\ owed' = [c \in Clients |-> IF c \in to THEN owed[c] \cup {note.n} ELSE owed[c]]
          /\ due' = [c \in Clients |->
                       IF valid /\ ~stale /\ note.channel \in Subscribed[c]
                       THEN due[c] \cup {note.n} ELSE due[c]]
          /\ waiting' = IF note.kind = "reorg" THEN waiting \ to ELSE waiting
    /\ UNCHANGED <<notes, reorgs, outages, restarts, browserVars, elsewhere>>

\* The error handler's notice to one client, once for each of its m channels.
TellDisconnect(k, m) ==
    LET room == IF k.paused THEN 0 ELSE HighWater - Len(k.sock)
        out == IF m < room THEN m ELSE room
        Notices(j) == [i \in 1..j |-> [id |-> k.sent, n |-> 0]]
        sock == k.sock \o Notices(out)
        full == Len(sock) >= HighWater
        k1 == IF out = 0 THEN k
              ELSE [k EXCEPT !.sock = sock, !.paused = full, !.stall = full,
                             !.needDrain = @ \/ full]
    IN IF ~k.open THEN k
       ELSE IF Len(k.queue) + (m - out) > QueueLimit THEN Close(k1)
       ELSE [k1 EXCEPT !.queue = @ \o Notices(m - out)]

\* The LISTEN connection is lost and comes back: every client is told, the NOTIFYs
\* on the way are gone, and connect() seeds the frontier from indexer_cursor.
Outage(cursor) ==
    /\ outages < MaxOutages
    /\ outages' = outages + 1
    /\ wire' = <<>>
    /\ known' = Later(known, cursor)
    /\ conn' = [c \in Clients |->
                  TellDisconnect(conn[c], Cardinality({i \in 1..Len(Channels) :
                                                         Channels[i] \in Subscribed[c]}))]
    /\ waiting' = {}
    /\ UNCHANGED <<notes, reorgs, restarts, lastReorg, browserVars, owed, due, elsewhere>>

\* The process ends, for a deploy or by an uncaught exception (a payload `null`
\* parses and then throws), and a new one takes over: sockets, clients, the NOTIFYs
\* on the way and the module's variables are gone, and connect() seeds the frontier
\* with a cursor that the indexer saves only after its NOTIFYs, or with nothing.
\* What was on a socket counts as received before or as lost.
Restart(cursor) ==
    /\ restarts < MaxRestarts
    /\ restarts' = restarts + 1
    /\ wire' = <<>>
    /\ known' = cursor /\ lastReorg' = 0
    /\ conn' = [c \in Clients |-> NoConnection]
    /\ waiting' = {}
    /\ elsewhere' = {c \in Clients : lastId[c] # NoId}
    /\ UNCHANGED <<notes, reorgs, outages, browserVars, owed, due>>

-----------------------------------------------------------------------------
(***************************************************************************)
(* One client: its timers, its socket and its browser.                     *)
(***************************************************************************)

\* StreamClient.start: the id baseline is the frontier; a Last-Event-ID below it
\* is answered with missed.  A browser without an answer, or one told that it
\* missed something, fetches afresh.
Start(c) ==
    /\ ~conn[c].open
    /\ LET asks == lastId[c] # NoId /\ known # 0
           k0 == [NoConnection EXCEPT !.open = TRUE, !.sent = known]
           k1 == IF asks THEN SendMessage(k0, 0, 0) ELSE k0
       IN /\ conn' = [conn EXCEPT ![c] = SendMessage(k1, 0, 0)]
          /\ told' = [told EXCEPT ![c] = IF ~asks THEN "nothing"
                                         ELSE IF lastId[c] < known THEN "missed"
                                         ELSE "caught up"]
          /\ due' = [due EXCEPT ![c] = IF asks /\ lastId[c] >= known THEN @ ELSE {}]
    /\ awake' = [awake EXCEPT ![c] = TRUE]
    /\ owed' = [owed EXCEPT ![c] = {}]
    /\ waiting' = waiting \ {c}
    /\ UNCHANGED <<serverVars, lastId, seen, elsewhere>>

\* Faulty variant: no heartbeat to a client that still has frames to read.
HeartbeatWhenIdle(c) ==
    /\ conn[c].open
    /\ conn[c].sock = <<>>
    /\ Becomes(c, SendMessage(conn[c], 0, 0))

\* The 30 s interval: a heartbeat, or the start of its retry while paused.
HeartbeatTick(c) ==
    /\ conn[c].open
    /\ IF conn[c].paused
       THEN ~conn[c].retry /\ Becomes(c, [conn[c] EXCEPT !.retry = TRUE])
       ELSE Becomes(c, SendMessage(conn[c], 0, 0))

\* The retry writes past the pause and the queue, and again until write() succeeds.
HeartbeatRetry(c) ==
    /\ conn[c].retry
    /\ Len(conn[c].sock) < SocketBound
    /\ LET k == WriteFrame(conn[c], [id |-> conn[c].sent, n |-> 0])
       IN Becomes(c, [k EXCEPT !.retry = k.paused])

\* Node emits 'drain' when its buffer is empty after a write() that answered false.
Drain(c) ==
    /\ conn[c].open
    /\ conn[c].needDrain
    /\ conn[c].sock = <<>>
    /\ Becomes(c, FlushQueue(conn[c]))

\* DRAIN_STALL_DISCONNECT_MS passed without progress.
StallFires(c) ==
    /\ conn[c].stall
    /\ Becomes(c, Close(conn[c]))

\* The socket closes or errors, sits idle, or the process drains its clients.
SocketDone(c) ==
    /\ conn[c].open
    /\ Becomes(c, Close(conn[c]))

\* The browser receives the next frame and remembers its id.
Deliver(c) ==
    /\ awake[c]
    /\ conn[c].sock # <<>>
    /\ LET frame == Head(conn[c].sock)
       IN /\ lastId' = [lastId EXCEPT ![c] = frame.id]
          /\ seen' = [seen EXCEPT ![c] = @ \cup ({frame.n} \ {0})]
    /\ conn' = [conn EXCEPT ![c].sock = Tail(@)]
    /\ elsewhere' = elsewhere \ {c}
    /\ UNCHANGED <<serverVars, awake, told, owed, due, waiting>>

\* A suspended tab or a dead link, and its recovery.
Sleep(c) ==
    /\ awake' = [awake EXCEPT ![c] = ~@]
    /\ UNCHANGED <<serverVars, conn, lastId, seen, told, historyVars>>

-----------------------------------------------------------------------------
Init ==
    /\ wire = <<>>
    /\ notes = 0 /\ reorgs = 0 /\ outages = 0 /\ restarts = 0
    /\ known = 0 /\ lastReorg = 0
    /\ conn = [c \in Clients |-> NoConnection]
    /\ awake = [c \in Clients |-> TRUE]
    /\ lastId = [c \in Clients |-> NoId]
    /\ seen = [c \in Clients |-> {}]
    /\ told = [c \in Clients |-> "nothing"]
    /\ owed = [c \in Clients |-> {}]
    /\ due = [c \in Clients |-> {}]
    /\ waiting = {} /\ elsewhere = {}

ClientStep(c) ==
    \/ Start(c) \/ HeartbeatTick(c) \/ HeartbeatRetry(c) \/ Drain(c) \/ StallFires(c)
    \/ SocketDone(c) \/ Deliver(c) \/ Sleep(c)

Next ==
    \/ \E channel \in ChannelSet :
          \/ \E ledger \in Ledgers : Publish(channel, ledger, "change")
          \/ Publish(channel, 0, "malformed")
    \/ \E ledger \in Ledgers \ {0} : BroadcastReorg(ledger)
    \/ Dispatch
    \/ \E cursor \in Ledgers : Outage(cursor) \/ Restart(cursor)
    \/ \E c \in Clients : ClientStep(c)

Spec == Init /\ [][Next]_vars

\* Timers of a running process fire; nothing is assumed of the network, the browser
\* or the indexer.
FairSpec ==
    Spec /\ \A c \in Clients : WF_vars(HeartbeatTick(c)) /\ WF_vars(StallFires(c))

-----------------------------------------------------------------------------
(***************************************************************************)
(* Properties.                                                             *)
(***************************************************************************)

\* Backpressure cannot wedge a client: one that is paused has its stall timer
\* running and a 'drain' to come, and a queued frame has a 'drain' that flushes
\* it, also after a forced heartbeat took the pause off a non-empty queue.
NeverWedged ==
    \A c \in Clients :
        LET k == conn[c]
        IN k.open => /\ k.paused => k.stall /\ k.needDrain
                     /\ k.queue # <<>> => k.needDrain
                     /\ ~k.paused => ~k.stall /\ Len(k.sock) < HighWater

MessagesOf(s) == {s[i].n : i \in DOMAIN s} \ {0}

\* What was fanned out to a connection is received, in its buffer or in its queue for
\* as long as it is open, and nothing of it twice: pausing, flushing, forced
\* heartbeats and overflowing lose no frame of a client that is kept.
FramesKept ==
    \A c \in Clients :
        LET s == conn[c].sock \o conn[c].queue
        IN conn[c].open =>
             /\ owed[c] \subseteq seen[c] \cup MessagesOf(s)
             /\ MessagesOf(s) \cap seen[c] = {}
             /\ \A i, j \in DOMAIN s : s[i].n = s[j].n /\ i # j => s[i].n = 0

\* No id that the running process gave a browser is above its frontier, whatever
\* outages, reorg signals and earlier processes there were: a browser that stays with
\* the process is never told "caught up" about the future.  A browser that brings the
\* id of an earlier process (a deploy, another instance) is exposed to that, until it
\* received one frame of this one: the new frontier may be below its id.
IdsBehindFrontier ==
    \A c \in Clients :
        /\ conn[c].sent <= known
        /\ lastId[c] # NoId /\ c \notin elsewhere => lastId[c] <= known
        /\ \A i \in DOMAIN conn[c].sock : conn[c].sock[i].id <= known
        /\ \A i \in DOMAIN conn[c].queue : conn[c].queue[i].id <= known

\* A browser that stopped reading does not hold its connection, its queue and its
\* slot forever: the heartbeats fill the buffer, and the stall timer drops it.
StalledReaderIsDropped ==
    \A c \in Clients : (conn[c].open /\ ~awake[c]) ~> (~conn[c].open \/ awake[c])

\* README, Reconnecting and missed changes: "`missed: false` means it reconnected
\* caught up".
CaughtUpIsTrue ==
    [][\A c \in Clients :
          ~conn[c].open /\ conn'[c].open /\ told'[c] = "caught up" => due[c] \subseteq seen[c]]_vars

\* The comment of broadcastResyncToAllChannels: it notifies across all active stream
\* channels, so a client open at the broadcast is sent it on one of its own.
ReorgReachesSubscribers == wire = <<>> => {c \in waiting : conn[c].open} = {}

=============================================================================
