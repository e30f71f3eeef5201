---------------------------- MODULE StreamProofs ----------------------------
(***************************************************************************)
(* Theorems about Stream: its states are well typed, backpressure wedges   *)
(* no client, no SSE id runs ahead of the frontier, and no frame is lost   *)
(* or sent twice.  They are proved one connection at a time: what a        *)
(* StreamClient method does to a sound connection is a lemma, and a step   *)
(* of the module changes connections only through those methods.           *)
(***************************************************************************)
EXTENDS Stream, TLAPS, SequenceTheorems, FiniteSetTheorems

FrameUpTo(b) == [id : 0..b, n : NoteIds \cup {0}]

ConnectionUpTo(b) ==
    [open : BOOLEAN, paused : BOOLEAN, queue : Seq(FrameUpTo(b)), sock : Seq(FrameUpTo(b)),
     needDrain : BOOLEAN, stall : BOOLEAN, retry : BOOLEAN, sent : 0..b]

\* NeverWedged, of one connection.
Sound(k) ==
    k.open => /\ k.paused => k.stall /\ k.needDrain
              /\ k.queue # <<>> => k.needDrain
              /\ ~k.paused => ~k.stall /\ Len(k.sock) < HighWater

\* A connection whose ids are at most b and that cannot be wedged.
Good(k, b) == k \in ConnectionUpTo(b) /\ Sound(k)

-----------------------------------------------------------------------------
\* A later frontier admits what an earlier one did (knownLedger only grows).
LEMMA GoodLater ==
  ASSUME NEW a \in Nat, NEW b \in Nat, a <= b, NEW k, Good(k, a)
  PROVE  Good(k, b)
<1>1. FrameUpTo(a) \subseteq FrameUpTo(b)
  BY DEF FrameUpTo
<1>2. Seq(FrameUpTo(a)) \subseteq Seq(FrameUpTo(b))
  BY <1>1, SeqMonotonic
<1>3. QED
  BY <1>2 DEF Good, ConnectionUpTo

\* close() on any connection.
LEMMA CloseGood ==
  ASSUME NEW b \in Nat, NEW k, Good(k, b)
  PROVE  Good(Close(k), b)
<1>1. <<>> \in Seq(FrameUpTo(b))
  BY EmptySeq
<1>2. QED
  BY <1>1 DEF Good, ConnectionUpTo, Sound, Close

\* writeFrame, forced or not.
LEMMA WriteFrameGood ==
  ASSUME NEW b \in Nat, NEW k, Good(k, b), NEW f \in FrameUpTo(b)
  PROVE  Good(WriteFrame(k, f), b)
<1> DEFINE sock == Append(k.sock, f)
           full == Len(sock) >= HighWater
           k1 == WriteFrame(k, f)
<1>1. sock \in Seq(FrameUpTo(b)) /\ Len(sock) \in Nat
  BY AppendProperties DEF Good, ConnectionUpTo
<1>2. full \in BOOLEAN /\ (~full => Len(sock) < HighWater)
  BY <1>1, StreamAssumption
<1>3. k1 = [k EXCEPT !.sock = sock, !.paused = full, !.stall = full, !.needDrain = @ \/ full]
  BY DEF WriteFrame
<1> HIDE DEF sock, full, k1
<1>4. k \in ConnectionUpTo(b) /\ Sound(k)
  BY DEF Good
<1>5. k1 \in ConnectionUpTo(b)
  BY <1>1, <1>2, <1>3, <1>4 DEF ConnectionUpTo
<1>6. /\ k1.open = k.open /\ k1.queue = k.queue
      /\ k1.paused = full /\ k1.stall = full /\ k1.sock = sock
      /\ k1.needDrain = (k.needDrain \/ full)
  BY <1>3, <1>4 DEF ConnectionUpTo
<1>7. Sound(k1)
  BY <1>2, <1>4, <1>6, Zenon DEF Sound
<1>8. QED
  BY <1>5, <1>7 DEF Good, k1

\* enqueue, called while paused only.
LEMMA EnqueueGood ==
  ASSUME NEW b \in Nat, NEW k, Good(k, b), k.paused, NEW f \in FrameUpTo(b)
  PROVE  Good(Enqueue(k, f), b)
<1>1. CASE Len(k.queue) >= QueueLimit
  BY <1>1, CloseGood DEF Enqueue
<1>2. CASE ~(Len(k.queue) >= QueueLimit)
  <2>1. Append(k.queue, f) \in Seq(FrameUpTo(b))
    BY AppendProperties DEF Good, ConnectionUpTo
  <2>2. Enqueue(k, f) = [k EXCEPT !.queue = Append(k.queue, f)]
    BY <1>2 DEF Enqueue
  <2>3. QED
    BY <2>1, <2>2 DEF Good, ConnectionUpTo, Sound
<1>3. QED
  BY <1>1, <1>2

\* sendMessage with a ledger the frontier has reached.
LEMMA SendMessageGood ==
  ASSUME NEW b \in Nat, NEW k, Good(k, b), NEW ledger \in 0..b, NEW n \in NoteIds \cup {0}
  PROVE  Good(SendMessage(k, ledger, n), b)
<1> DEFINE sent == Later(k.sent, ledger)
           frame == [id |-> sent, n |-> n]
           k1 == [k EXCEPT !.sent = sent]
<1>1. sent \in 0..b
  BY DEF Later, Good, ConnectionUpTo
<1>2. frame \in FrameUpTo(b)
  BY <1>1 DEF FrameUpTo
<1>3. Good(k1, b) /\ k1.paused = k.paused
  BY <1>1 DEF Good, ConnectionUpTo, Sound
<1>4. SendMessage(k, ledger, n) = IF ~k.open THEN k
                                  ELSE IF k.paused THEN Enqueue(k1, frame)
                                  ELSE WriteFrame(k1, frame)
  BY DEF SendMessage
<1> HIDE DEF sent, frame, k1
<1>5. CASE ~k.open
  BY <1>4, <1>5
<1>6. CASE k.open /\ k.paused
  BY <1>2, <1>3, <1>4, <1>6, EnqueueGood
<1>7. CASE k.open /\ ~k.paused
  <2>1. Good(WriteFrame(k1, frame), b)
    BY <1>2, <1>3, WriteFrameGood
  <2>2. QED
    BY <1>4, <1>7, <2>1
<1>8. QED
  BY <1>5, <1>6, <1>7

\* flushQueue on a 'drain': the buffer is empty, so frames left in the queue mean
\* that write() answered false again.
LEMMA FlushQueueGood ==
  ASSUME NEW b \in Nat, NEW k, Good(k, b), k.sock = <<>>
  PROVE  Good(FlushQueue(k), b)
<1> DEFINE out == IF Len(k.queue) < HighWater THEN Len(k.queue) ELSE HighWater
           sock == SubSeq(k.queue, 1, out)
           rest == SubSeq(k.queue, out + 1, Len(k.queue))
           full == Len(sock) >= HighWater
           k1 == FlushQueue(k)
<1>1. k \in ConnectionUpTo(b) /\ Sound(k) /\ k.queue \in Seq(FrameUpTo(b))
  BY DEF Good, ConnectionUpTo
<1>2. HighWater \in Nat \ {0} /\ Len(k.queue) \in Nat
  BY <1>1, StreamAssumption, LenProperties
<1>3. out \in 0..Len(k.queue) /\ (out # Len(k.queue) => out = HighWater)
  BY <1>2
<1>4. \A i \in 1..Len(k.queue) : k.queue[i] \in FrameUpTo(b)
  BY <1>1, ElementOfSeq
<1> HIDE DEF out
<1>5. sock \in Seq(FrameUpTo(b)) /\ Len(sock) = out
  <2>1. 1 \in Int /\ out \in Int /\ \A i \in 1..out : k.queue[i] \in FrameUpTo(b)
    BY <1>2, <1>3, <1>4
  <2>2. QED
    BY <2>1, <1>3, SubSeqProperties
<1>6. rest \in Seq(FrameUpTo(b)) /\ (out = Len(k.queue) => rest = <<>>)
  <2>1. /\ out + 1 \in Int /\ Len(k.queue) \in Int
        /\ \A i \in (out + 1)..Len(k.queue) : k.queue[i] \in FrameUpTo(b)
    BY <1>2, <1>3, <1>4
  <2>2. rest \in Seq(FrameUpTo(b))
    BY <2>1, SubSeqProperties
  <2>3. ASSUME out = Len(k.queue) PROVE rest = <<>>
    BY <2>1, <2>3, <1>2, SubSeqEmpty
  <2>4. QED
    BY <2>2, <2>3
<1>7. full \in BOOLEAN /\ (~full => Len(sock) < HighWater /\ rest = <<>>)
  BY <1>2, <1>3, <1>5, <1>6
<1>8. k1 = [k EXCEPT !.sock = sock, !.queue = rest, !.paused = full, !.stall = full,
                     !.needDrain = full]
  <2>1. Len(k.sock) = 0 /\ HighWater - Len(k.sock) = HighWater
    BY <1>2, EmptySeq
  <2>2. k.sock \o sock = sock
    BY <1>5, ConcatEmptySeq
  <2>3. QED
    BY <2>1, <2>2, <1>1 DEF FlushQueue, out, ConnectionUpTo
<1> HIDE DEF sock, rest, full, k1
<1>9. k1 \in ConnectionUpTo(b)
  BY <1>1, <1>5, <1>6, <1>7, <1>8 DEF ConnectionUpTo
<1>10. /\ k1.sock = sock /\ k1.queue = rest
       /\ k1.paused = full /\ k1.stall = full /\ k1.needDrain = full
  BY <1>1, <1>8 DEF ConnectionUpTo
<1>11. Sound(k1)
  BY <1>7, <1>10, Zenon DEF Sound
<1>12. QED
  BY <1>9, <1>11 DEF Good, k1

\* j copies of a frame.
LEMMA Copies ==
  ASSUME NEW S, NEW f \in S, NEW j \in Nat
  PROVE  [i \in 1..j |-> f] \in Seq(S) /\ Len([i \in 1..j |-> f]) = j
<1> DEFINE s == [i \in 1..j |-> f]
<1>1. s \in [1..j -> S] /\ DOMAIN s = 1..j
  OBVIOUS
<1>2. s \in Seq(S)
  BY <1>1, SeqDef
<1>3. Len(s) \in Nat /\ 1..Len(s) = 1..j
  BY <1>1, <1>2, LenProperties
<1>4. Len(s) = j
  BY <1>3
<1>5. QED
  BY <1>2, <1>4

\* The error handler's notices: those that do not fit follow a write() that
\* answered false.
LEMMA TellDisconnectGood ==
  ASSUME NEW b \in Nat, NEW k, Good(k, b), NEW m \in Nat
  PROVE  Good(TellDisconnect(k, m), b)
<1>1. CASE ~k.open
  BY <1>1 DEF TellDisconnect
<1>2. CASE k.open
  <2> DEFINE room == IF k.paused THEN 0 ELSE HighWater - Len(k.sock)
             out == IF m < room THEN m ELSE room
             notice == [id |-> k.sent, n |-> 0]
             Notices(j) == [i \in 1..j |-> notice]
             sock == k.sock \o Notices(out)
             full == Len(sock) >= HighWater
             k1 == IF out = 0 THEN k
                   ELSE [k EXCEPT !.sock = sock, !.paused = full, !.stall = full,
                                  !.needDrain = @ \/ full]
             queue == k.queue \o Notices(m - out)
             k2 == [k1 EXCEPT !.queue = queue]
  <2>1. k \in ConnectionUpTo(b) /\ Sound(k) /\ k.sock \in Seq(FrameUpTo(b))
        /\ k.queue \in Seq(FrameUpTo(b)) /\ k.sent \in 0..b /\ k.paused \in BOOLEAN
    BY DEF Good, ConnectionUpTo
  <2>2. HighWater \in Nat \ {0} /\ Len(k.sock) \in Nat /\ Len(k.queue) \in Nat
    BY <2>1, StreamAssumption, LenProperties
  <2>3. ~k.paused => Len(k.sock) < HighWater
    BY <1>2, <2>1, Zenon DEF Sound
  <2>4. /\ out \in 0..m
        /\ out # m => out = room
        /\ ~k.paused => room = HighWater - Len(k.sock) /\ room > 0
        /\ k.paused => out = 0
    <3>1. CASE k.paused
      <4>1. room = 0
        BY <3>1
      <4> HIDE DEF room
      <4>2. QED
        BY <3>1, <4>1
    <3>2. CASE ~k.paused
      <4>1. room = HighWater - Len(k.sock)
        BY <3>2
      <4> HIDE DEF room
      <4>2. QED
        BY <2>2, <2>3, <3>2, <4>1
    <3>3. QED
      BY <3>1, <3>2
  <2>5. notice \in FrameUpTo(b)
    BY <2>1 DEF FrameUpTo
  <2>6. TellDisconnect(k, m) = IF Len(k.queue) + (m - out) > QueueLimit THEN Close(k1) ELSE k2
    BY <1>2 DEF TellDisconnect
  <2> HIDE DEF out, room, notice
  <2>7. /\ Notices(out) \in Seq(FrameUpTo(b)) /\ Len(Notices(out)) = out
        /\ Notices(m - out) \in Seq(FrameUpTo(b)) /\ Len(Notices(m - out)) = m - out
    BY <2>4, <2>5, Copies
  <2> HIDE DEF Notices
  <2>8. sock \in Seq(FrameUpTo(b)) /\ Len(sock) = Len(k.sock) + out
    <3>1. Len(sock) = Len(k.sock) + Len(Notices(out)) /\ sock \in Seq(FrameUpTo(b))
      BY <2>1, <2>7, ConcatProperties
    <3>2. QED
      BY <2>7, <3>1
  <2>9. queue \in Seq(FrameUpTo(b)) /\ (m = out => queue = k.queue)
    <3>1. queue \in Seq(FrameUpTo(b))
      BY <2>1, <2>7, ConcatProperties
    <3>2. ASSUME m = out PROVE queue = k.queue
      <4>1. Notices(m - out) = <<>>
        BY <3>2, <2>4, <2>7, EmptySeq
      <4>2. QED
        BY <4>1, <2>1, ConcatEmptySeq
    <3>3. QED
      BY <3>1, <3>2
  <2>10. full \in BOOLEAN /\ (~full => Len(sock) < HighWater)
    BY <2>2, <2>4, <2>8
  <2>11. ~k.paused /\ out # m => full /\ out # 0
    BY <2>2, <2>4, <2>8
  <2> HIDE DEF sock, full, queue
  <2>12. Good(k1, b) /\ k1.open /\ (out # m => k1.needDrain)
    <3>1. CASE out = 0
      <4>1. k1 = k
        BY <3>1
      <4>2. out # m => k.needDrain
        BY <1>2, <2>1, <2>11, <3>1, Zenon DEF Sound
      <4>3. QED
        BY <1>2, <4>1, <4>2
    <3>2. CASE out # 0
      <4>1. k1 = [k EXCEPT !.sock = sock, !.paused = full, !.stall = full,
                           !.needDrain = @ \/ full]
        BY <3>2
      <4> HIDE DEF k1
      <4>2. k1 \in ConnectionUpTo(b)
        BY <2>1, <2>8, <2>10, <4>1 DEF ConnectionUpTo
      <4>3. /\ k1.open = k.open /\ k1.queue = k.queue
            /\ k1.paused = full /\ k1.stall = full /\ k1.sock = sock
            /\ k1.needDrain = (k.needDrain \/ full)
        BY <2>1, <4>1 DEF ConnectionUpTo
      <4>4. ~k.paused
        BY <2>4, <3>2
      <4>5. Sound(k1) /\ k1.open /\ (out # m => k1.needDrain)
        BY <1>2, <2>1, <2>10, <2>11, <4>3, <4>4, Zenon DEF Sound
      <4>6. QED
        BY <4>2, <4>5 DEF Good
    <3>3. QED
      BY <3>1, <3>2
  <2> HIDE DEF k1
  <2>13. Good(Close(k1), b)
    BY <2>12, CloseGood
  <2>14. Good(k2, b)
    <3>1. k1 \in ConnectionUpTo(b) /\ Sound(k1)
      BY <2>12 DEF Good
    <3>2. k2 \in ConnectionUpTo(b)
      BY <2>9, <3>1 DEF ConnectionUpTo
    <3>3. /\ k2.open = k1.open /\ k2.paused = k1.paused /\ k2.stall = k1.stall
          /\ k2.sock = k1.sock /\ k2.needDrain = k1.needDrain /\ k2.queue = queue
      BY <3>1 DEF ConnectionUpTo
    <3>4. m = out => queue = k1.queue
      <4>1. k1.queue = k.queue
        BY <2>1 DEF ConnectionUpTo, k1
      <4>2. QED
        BY <2>9, <4>1
    <3> HIDE DEF k2
    <3>5. Sound(k2)
      BY <2>12, <3>1, <3>3, <3>4, Zenon DEF Sound
    <3>6. QED
      BY <3>2, <3>5 DEF Good
  <2>15. QED
    BY <2>6, <2>13, <2>14
<1>3. QED
  BY <1>1, <1>2

\* The browser takes a frame off the socket.
LEMMA DeliverGood ==
  ASSUME NEW b \in Nat, NEW k, Good(k, b), k.sock # <<>>
  PROVE  Good([k EXCEPT !.sock = Tail(@)], b) /\ Head(k.sock) \in FrameUpTo(b)
<1> DEFINE sock == Tail(k.sock)
           k1 == [k EXCEPT !.sock = sock]
<1>1. k \in ConnectionUpTo(b) /\ Sound(k) /\ k.sock \in Seq(FrameUpTo(b))
  BY DEF Good, ConnectionUpTo
<1>2. /\ sock \in Seq(FrameUpTo(b)) /\ Head(k.sock) \in FrameUpTo(b)
      /\ Len(k.sock) < HighWater => Len(sock) < HighWater
  BY <1>1, StreamAssumption, HeadTailProperties, LenProperties
<1> HIDE DEF sock
<1>3. k1 \in ConnectionUpTo(b)
  BY <1>1, <1>2 DEF ConnectionUpTo
<1>4. /\ k1.open = k.open /\ k1.paused = k.paused /\ k1.stall = k.stall
      /\ k1.sock = sock /\ k1.needDrain = k.needDrain /\ k1.queue = k.queue
  BY <1>1 DEF ConnectionUpTo
<1>5. Sound(k1)
  BY <1>1, <1>2, <1>4, Zenon DEF Sound
<1>6. QED
  BY <1>2, <1>3, <1>5 DEF Good, sock

-----------------------------------------------------------------------------
\* Every connection is sound, and neither it nor its browser is past the frontier,
\* unless the browser's id comes from an earlier process.
ConnInv ==
    \A c \in Clients : /\ Good(conn[c], known)
                       /\ c \in elsewhere \/ lastId[c] \in (0..known) \cup {NoId}

IInv == TypeOK /\ ConnInv

\* A connection whose ids are ledgers is a Connection.
LEMMA GoodIsTyped ==
  ASSUME NEW b \in Ledgers, NEW k, Good(k, b)
  PROVE  k \in Connection
<1>1. b \in Nat /\ MaxLedger \in Nat /\ b <= MaxLedger
  BY StreamAssumption DEF Ledgers
<1>2. Good(k, MaxLedger)
  BY <1>1, GoodLater
<1>3. QED
  BY <1>2 DEF Good, ConnectionUpTo, Connection, FrameUpTo, Frame, Ledgers

\* A step that changes one connection, through a method that keeps it good.
LEMMA BecomesKeeps ==
  ASSUME IInv, NEW c \in Clients, NEW k, Good(k, known), Becomes(c, k)
  PROVE  IInv'
<1>1. k \in Connection
  BY GoodIsTyped DEF IInv, TypeOK
<1>2. TypeOK'
  BY <1>1 DEF IInv, TypeOK, Becomes, serverVars, browserVars, historyVars
<1>3. ConnInv'
  BY DEF IInv, TypeOK, ConnInv, Becomes, serverVars, browserVars, historyVars
<1>4. QED
  BY <1>2, <1>3 DEF IInv

\* A step that moves the frontier forward and may change every connection.
LEMMA FanOutKeeps ==
  ASSUME IInv, known' \in Ledgers, known <= known', UNCHANGED browserVars,
         wire' \in Seq(Note), notes' \in Nat, reorgs' \in Nat, outages' \in Nat,
         UNCHANGED <<restarts, elsewhere>>,
         lastReorg' \in Ledgers, owed' \in [Clients -> SUBSET NoteIds],
         due' \in [Clients -> SUBSET NoteIds], waiting' \subseteq Clients,
         NEW F, conn' = F, F = [c \in Clients |-> F[c]],
         \A c \in Clients : Good(F[c], known')
  PROVE  IInv'
<1>1. \A c \in Clients : F[c] \in Connection
  BY GoodIsTyped
<1>2. conn' \in [Clients -> Connection]
  BY <1>1
<1>3. TypeOK'
  BY <1>2 DEF IInv, TypeOK, browserVars
<1>4. ConnInv'
  <2>1. known \in Nat /\ known' \in Nat
    <3>1. known \in Ledgers /\ known' \in Ledgers /\ MaxLedger \in Nat
      BY StreamAssumption DEF IInv, TypeOK
    <3>2. QED
      BY <3>1 DEF Ledgers
  <2>2. \A c \in Clients : c \in elsewhere' \/ lastId'[c] \in (0..known') \cup {NoId}
    BY <2>1 DEF IInv, ConnInv, browserVars
  <2>3. QED
    BY <2>2 DEF ConnInv
<1>5. QED
  BY <1>3, <1>4 DEF IInv

-----------------------------------------------------------------------------
LEMMA InvInit == Init => IInv
<1> SUFFICES ASSUME Init PROVE IInv
  OBVIOUS
<1>1. 0 \in Ledgers /\ 0 \in 0..0
  BY StreamAssumption DEF Ledgers
<1>2. Good(NoConnection, 0)
  BY EmptySeq, StreamAssumption DEF Good, NoConnection, ConnectionUpTo, Sound
<1>3. NoConnection \in Connection
  BY <1>1, <1>2, GoodIsTyped
<1>4. TypeOK
  BY <1>1, <1>3, EmptySeq DEF Init, TypeOK
<1>5. ConnInv
  BY <1>2 DEF Init, ConnInv
<1>6. QED
  BY <1>4, <1>5 DEF IInv

\* Every step keeps the invariant.
LEMMA InvNext == IInv /\ [Next]_vars => IInv'
<1> SUFFICES ASSUME IInv, [Next]_vars PROVE IInv'
  OBVIOUS
<1>1. TypeOK /\ ConnInv
  BY DEF IInv
<1>2. known \in Nat /\ known \in Ledgers /\ MaxLedger \in Nat /\ 0 \in Ledgers /\ 0 \in 0..known
  <2>1. known \in Ledgers /\ MaxLedger \in Nat
    BY <1>1, StreamAssumption DEF TypeOK
  <2>2. QED
    BY <2>1 DEF Ledgers
<1>3. \A c \in Clients : Good(conn[c], known) /\ conn[c] \in Connection
  BY <1>1 DEF ConnInv, TypeOK
<1>4. ASSUME NEW channel \in ChannelSet, NEW ledger \in Ledgers,
             NEW kind \in {"change", "malformed"}, Publish(channel, ledger, kind)
      PROVE  IInv'
  <2>1. notes \in Nat /\ notes' = notes + 1 /\ notes' \in NoteIds /\ wire \in Seq(Note)
    <3>1. notes \in Nat /\ wire \in Seq(Note)
      BY <1>1 DEF TypeOK
    <3>2. notes' = notes + 1
      BY <1>4 DEF Publish
    <3>3. QED
      BY <3>1, <3>2 DEF NoteIds
  <2>2. [n |-> notes + 1, channel |-> channel, ledger |-> ledger, kind |-> kind] \in Note
    BY <2>1, <1>4 DEF Note
  <2>3. wire' \in Seq(Note)
    BY <1>4, <2>1, <2>2, AppendProperties DEF Publish
  <2>4. TypeOK'
    <3>1. notes' \in Nat
      BY <2>1 DEF NoteIds
    <3>2. UNCHANGED <<reorgs, outages, restarts, known, lastReorg, conn, browserVars, historyVars>>
      BY <1>4 DEF Publish
    <3>3. QED
      BY <1>1, <2>3, <3>1, <3>2 DEF TypeOK, browserVars, historyVars
  <2>5. ConnInv'
    BY <1>1, <1>4 DEF ConnInv, Publish, browserVars, historyVars
  <2>6. QED
    BY <2>4, <2>5 DEF IInv
<1>5. ASSUME NEW ledger \in Ledgers, BroadcastReorg(ledger)
      PROVE  IInv'
  <2> DEFINE Copy(i) == [n |-> notes + i, channel |-> Channels[i], ledger |-> ledger,
                         kind |-> "reorg"]
             copies == [i \in 1..Len(Channels) |-> Copy(i)]
  <2>1. notes \in Nat /\ reorgs \in Nat /\ wire \in Seq(Note) /\ waiting \subseteq Clients
    BY <1>1 DEF TypeOK
  <2>2. Channels \in Seq(STRING) /\ Len(Channels) \in Nat /\ DOMAIN Channels = 1..Len(Channels)
    BY StreamAssumption, LenProperties
  <2>3. \A i \in 1..Len(Channels) : Channels[i] \in ChannelSet /\ notes + i \in NoteIds
    BY <2>1, <2>2 DEF ChannelSet, NoteIds
  <2>4. \A i \in 1..Len(Channels) : Copy(i) \in Note
    BY <2>3, <1>5 DEF Note
  <2>5. copies \in [1..Len(Channels) -> Note]
    BY <2>4
  <2>6. copies \in Seq(Note)
    BY <2>2, <2>5, SeqDef
  <2>7. /\ wire' = wire \o copies
        /\ reorgs' = reorgs + 1
        /\ notes' = notes + Len(Channels)
    BY <1>5 DEF BroadcastReorg
  <2> HIDE DEF copies
  <2>8. wire' \in Seq(Note)
    BY <2>1, <2>6, <2>7, ConcatProperties
  <2>9. reorgs' \in Nat /\ notes' \in Nat
    BY <2>1, <2>2, <2>7
  <2>10. waiting' \subseteq Clients
    BY <1>5, <2>1 DEF BroadcastReorg
  <2>11. TypeOK'
    BY <1>1, <1>5, <2>8, <2>9, <2>10 DEF TypeOK, BroadcastReorg, browserVars
  <2>12. ConnInv'
    BY <1>1, <1>5 DEF ConnInv, BroadcastReorg, browserVars
  <2>13. QED
    BY <2>11, <2>12 DEF IInv
<1>6. CASE Dispatch
  <2> DEFINE note == Head(wire)
             valid == note.kind # "malformed"
             stale == note.kind = "reorg" /\ lastReorg # 0 /\ note.ledger <= lastReorg
             to == {c \in Clients : /\ valid /\ ~stale
                                    /\ conn[c].open /\ note.channel \in Subscribed[c]}
             F == [c \in Clients |->
                     IF c \in to THEN SendMessage(conn[c], note.ledger, note.n) ELSE conn[c]]
  <2>1. note \in Note /\ wire' \in Seq(Note)
    BY <1>1, <1>6, HeadTailProperties DEF Dispatch, TypeOK
  <2>2. note.ledger \in Ledgers /\ note.n \in NoteIds
    BY <2>1 DEF Note
  <2>3. known' = IF valid THEN Later(known, note.ledger) ELSE known
    BY <1>6 DEF Dispatch
  <2>4. /\ known' \in Ledgers /\ known <= known'
        /\ valid => note.ledger \in 0..known'
    BY <1>2, <2>2, <2>3 DEF Later, Ledgers
  <2>5. conn' = F
    BY <1>6 DEF Dispatch
  <2>6. \A c \in Clients : Good(F[c], known')
    <3> SUFFICES ASSUME NEW c \in Clients PROVE Good(F[c], known')
      OBVIOUS
    <3>1. known' \in Nat
      BY <1>2, <2>4 DEF Ledgers
    <3>2. Good(conn[c], known')
      BY <1>2, <1>3, <2>4, <3>1, GoodLater
    <3>3. CASE c \in to
      <4>1. note.ledger \in 0..known' /\ note.n \in NoteIds \cup {0}
        BY <2>2, <2>4, <3>3
      <4>2. Good(SendMessage(conn[c], note.ledger, note.n), known')
        BY <3>1, <3>2, <4>1, SendMessageGood
      <4>3. QED
        BY <3>3, <4>2
    <3>4. CASE c \notin to
      BY <3>2, <3>4
    <3>5. QED
      BY <3>3, <3>4
  <2>7. lastReorg' \in Ledgers
    BY <1>1, <1>6, <2>2 DEF Dispatch, TypeOK
  <2>8. owed' \in [Clients -> SUBSET NoteIds] /\ due' \in [Clients -> SUBSET NoteIds]
    BY <1>1, <1>6, <2>2 DEF Dispatch, TypeOK
  <2>9. waiting' \subseteq Clients
    BY <1>1, <1>6 DEF Dispatch, TypeOK
  <2>10. /\ notes' \in Nat /\ reorgs' \in Nat /\ outages' \in Nat
         /\ UNCHANGED browserVars /\ UNCHANGED <<restarts, elsewhere>>
    BY <1>1, <1>6 DEF Dispatch, TypeOK
  <2>11. F = [c \in Clients |-> F[c]]
    OBVIOUS
  <2> HIDE DEF F
  <2>12. QED
    BY <2>1, <2>4, <2>5, <2>6, <2>7, <2>8, <2>9, <2>10, <2>11, FanOutKeeps
<1>7. ASSUME NEW cursor \in Ledgers, Outage(cursor)
      PROVE  IInv'
  <2> DEFINE Taken(c) == {i \in 1..Len(Channels) : Channels[i] \in Subscribed[c]}
             F == [c \in Clients |-> TellDisconnect(conn[c], Cardinality(Taken(c)))]
  <2>1. known' = Later(known, cursor)
    BY <1>7 DEF Outage
  <2>2. known' \in Ledgers /\ known' \in Nat /\ known <= known'
    BY <1>2, <1>7, <2>1 DEF Later, Ledgers
  <2>3. conn' = F
    BY <1>7 DEF Outage
  <2>4. \A c \in Clients : Good(F[c], known')
    <3> SUFFICES ASSUME NEW c \in Clients PROVE Good(F[c], known')
      OBVIOUS
    <3>1. Len(Channels) \in Nat
      BY StreamAssumption, LenProperties
    <3>2. IsFiniteSet(1..Len(Channels))
      BY <3>1, FS_Interval
    <3>3. IsFiniteSet(Taken(c))
      BY <3>2, FS_Subset
    <3>4. Cardinality(Taken(c)) \in Nat
      BY <3>3, FS_CardinalityType
    <3>5. Good(conn[c], known')
      BY <1>2, <1>3, <2>2, GoodLater
    <3>6. QED
      BY <2>2, <3>4, <3>5, TellDisconnectGood
  <2>5. wire' \in Seq(Note)
    BY <1>7, EmptySeq DEF Outage
  <2>6. /\ notes' \in Nat /\ reorgs' \in Nat /\ outages' \in Nat /\ lastReorg' \in Ledgers
        /\ owed' \in [Clients -> SUBSET NoteIds] /\ due' \in [Clients -> SUBSET NoteIds]
        /\ waiting' \subseteq Clients /\ UNCHANGED browserVars /\ UNCHANGED <<restarts, elsewhere>>
    <3>1. /\ outages' = outages + 1 /\ waiting' = {}
          /\ UNCHANGED <<notes, reorgs, restarts, lastReorg, browserVars, owed, due, elsewhere>>
      BY <1>7 DEF Outage
    <3>2. /\ notes \in Nat /\ reorgs \in Nat /\ outages \in Nat /\ lastReorg \in Ledgers
          /\ owed \in [Clients -> SUBSET NoteIds] /\ due \in [Clients -> SUBSET NoteIds]
      BY <1>1 DEF TypeOK
    <3>3. QED
      BY <3>1, <3>2
  <2>7. F = [c \in Clients |-> F[c]]
    OBVIOUS
  <2> HIDE DEF F
  <2>8. QED
    BY <2>2, <2>3, <2>4, <2>5, <2>6, <2>7, FanOutKeeps
<1>8. ASSUME NEW c \in Clients, Start(c)
      PROVE  IInv'
  <2> DEFINE asks == lastId[c] # NoId /\ known # 0
             k0 == [NoConnection EXCEPT !.open = TRUE, !.sent = known]
             k1 == IF asks THEN SendMessage(k0, 0, 0) ELSE k0
             k2 == SendMessage(k1, 0, 0)
  <2>1. Good(k0, known)
    <3>1. /\ k0.open = TRUE /\ k0.paused = FALSE /\ k0.queue = <<>> /\ k0.sock = <<>>
          /\ k0.stall = FALSE
      BY DEF NoConnection
    <3>2. known \in 0..known /\ Len(<<>>) < HighWater /\ <<>> \in Seq(FrameUpTo(known))
      BY <1>2, StreamAssumption, EmptySeq
    <3>3. k0 \in ConnectionUpTo(known)
      BY <3>2 DEF ConnectionUpTo, NoConnection
    <3> HIDE DEF k0
    <3>4. Sound(k0)
      BY <3>1, <3>2 DEF Sound
    <3>5. QED
      BY <3>3, <3>4 DEF Good
  <2> HIDE DEF k0
  <2>2. Good(k1, known)
    <3>1. Good(SendMessage(k0, 0, 0), known)
      BY <1>2, <2>1, SendMessageGood
    <3>2. QED
      BY <2>1, <3>1
  <2> HIDE DEF k1
  <2>3. Good(k2, known)
    BY <1>2, <2>2, SendMessageGood
  <2>4. conn' = [conn EXCEPT ![c] = k2]
    BY <1>8 DEF Start, k1, k0
  <2> HIDE DEF k2
  <2>5. k2 \in Connection
    BY <1>2, <2>3, GoodIsTyped
  <2>6. conn' \in [Clients -> Connection]
    BY <1>1, <2>4, <2>5 DEF TypeOK
  <2>7. /\ told' \in [Clients -> {"nothing", "missed", "caught up"}]
        /\ due' \in [Clients -> SUBSET NoteIds]
        /\ owed' \in [Clients -> SUBSET NoteIds]
        /\ awake' \in [Clients -> BOOLEAN]
        /\ waiting' \subseteq Clients
    BY <1>1, <1>8 DEF Start, TypeOK
  <2>8. UNCHANGED <<wire, notes, reorgs, outages, restarts, known, lastReorg, lastId, seen, elsewhere>>
    BY <1>8 DEF Start, serverVars
  <2>9. TypeOK'
    BY <1>1, <2>6, <2>7, <2>8 DEF TypeOK
  <2>10. ConnInv'
    BY <1>1, <2>3, <2>4, <2>8 DEF ConnInv, TypeOK
  <2>11. QED
    BY <2>9, <2>10 DEF IInv
<1>9. ASSUME NEW c \in Clients, HeartbeatTick(c)
      PROVE  IInv'
  <2>1. Good(SendMessage(conn[c], 0, 0), known)
    BY <1>2, <1>3, SendMessageGood
  <2>2. Good([conn[c] EXCEPT !.retry = TRUE], known)
    BY <1>3 DEF Good, ConnectionUpTo, Sound
  <2>3. \/ Becomes(c, [conn[c] EXCEPT !.retry = TRUE])
        \/ Becomes(c, SendMessage(conn[c], 0, 0))
    BY <1>9 DEF HeartbeatTick
  <2>4. QED
    BY <2>1, <2>2, <2>3, BecomesKeeps
<1>10. ASSUME NEW c \in Clients, HeartbeatRetry(c)
       PROVE  IInv'
  <2> DEFINE f == [id |-> conn[c].sent, n |-> 0]
             k == WriteFrame(conn[c], f)
             k1 == [k EXCEPT !.retry = k.paused]
  <2>1. f \in FrameUpTo(known)
    BY <1>3 DEF Good, ConnectionUpTo, FrameUpTo
  <2>2. Good(k, known)
    BY <1>2, <1>3, <2>1, WriteFrameGood
  <2>3. Becomes(c, k1)
    BY <1>10 DEF HeartbeatRetry
  <2> HIDE DEF k
  <2>4. Good(k1, known)
    BY <2>2 DEF Good, ConnectionUpTo, Sound
  <2>5. QED
    BY <2>3, <2>4, BecomesKeeps
<1>11. ASSUME NEW c \in Clients, Drain(c)
       PROVE  IInv'
  <2>1. Good(FlushQueue(conn[c]), known)
    BY <1>2, <1>3, <1>11, FlushQueueGood DEF Drain
  <2>2. QED
    BY <1>11, <2>1, BecomesKeeps DEF Drain
<1>12. ASSUME NEW c \in Clients, StallFires(c) \/ SocketDone(c)
       PROVE  IInv'
  <2>1. Good(Close(conn[c]), known)
    BY <1>2, <1>3, CloseGood
  <2>2. QED
    BY <1>12, <2>1, BecomesKeeps DEF StallFires, SocketDone
<1>13. ASSUME NEW c \in Clients, Deliver(c)
       PROVE  IInv'
  <2> DEFINE frame == Head(conn[c].sock)
             k == [conn[c] EXCEPT !.sock = Tail(@)]
  <2>1. Good(k, known) /\ frame \in FrameUpTo(known)
    BY <1>2, <1>3, <1>13, DeliverGood DEF Deliver
  <2>2. conn' = [conn EXCEPT ![c] = k]
    BY <1>1, <1>3, <1>13 DEF Deliver, TypeOK
  <2>3. /\ lastId' = [lastId EXCEPT ![c] = frame.id]
        /\ seen' = [seen EXCEPT ![c] = @ \cup ({frame.n} \ {0})]
        /\ elsewhere' = elsewhere \ {c}
        /\ UNCHANGED <<wire, notes, reorgs, outages, restarts, known, lastReorg, awake, told,
                       owed, due, waiting>>
    BY <1>13 DEF Deliver, serverVars
  <2> HIDE DEF k, frame
  <2>4. k \in Connection
    BY <1>2, <2>1, GoodIsTyped
  <2>5. frame.id \in 0..known /\ frame.id \in Ledgers /\ frame.n \in NoteIds \cup {0}
    BY <1>2, <2>1 DEF FrameUpTo, Ledgers
  <2>6. TypeOK'
    BY <1>1, <2>2, <2>3, <2>4, <2>5 DEF TypeOK
  <2>7. ConnInv'
    BY <1>1, <2>1, <2>2, <2>3, <2>5 DEF ConnInv, TypeOK
  <2>8. QED
    BY <2>6, <2>7 DEF IInv
<1>14. ASSUME NEW c \in Clients, Sleep(c)
       PROVE  IInv'
  <2>1. TypeOK'
    BY <1>1, <1>14 DEF Sleep, TypeOK, serverVars, historyVars
  <2>2. ConnInv'
    BY <1>1, <1>14 DEF Sleep, ConnInv, serverVars, historyVars
  <2>3. QED
    BY <2>1, <2>2 DEF IInv
<1>15. CASE UNCHANGED vars
  <2>1. TypeOK'
    BY <1>1, <1>15 DEF TypeOK, vars, serverVars, browserVars, historyVars
  <2>2. ConnInv'
    BY <1>1, <1>15 DEF ConnInv, vars, serverVars, browserVars, historyVars
  <2>3. QED
    BY <2>1, <2>2 DEF IInv
<1>16. ASSUME NEW cursor \in Ledgers, Restart(cursor)
       PROVE  IInv'
  <2>1. cursor \in Nat /\ 0 \in 0..cursor
    BY <1>2 DEF Ledgers
  <2>2. Good(NoConnection, cursor)
    BY <2>1, EmptySeq, StreamAssumption DEF Good, NoConnection, ConnectionUpTo, Sound
  <2>3. NoConnection \in Connection
    BY <2>2, GoodIsTyped
  <2>4. /\ restarts' = restarts + 1 /\ wire' = <<>> /\ known' = cursor /\ lastReorg' = 0
        /\ conn' = [c \in Clients |-> NoConnection]
        /\ waiting' = {} /\ elsewhere' = {c \in Clients : lastId[c] # NoId}
        /\ UNCHANGED <<notes, reorgs, outages, awake, lastId, seen, told, owed, due>>
    BY <1>16 DEF Restart, browserVars
  <2>5. TypeOK'
    <3>1. conn' \in [Clients -> Connection] /\ elsewhere' \subseteq Clients
      BY <2>3, <2>4
    <3>2. restarts \in Nat
      BY <1>1 DEF TypeOK
    <3>3. restarts' \in Nat
      BY <2>4, <3>2
    <3>4. wire' \in Seq(Note)
      BY <2>4, EmptySeq
    <3>5. QED
      BY <1>1, <1>2, <2>4, <3>1, <3>3, <3>4 DEF TypeOK
  <2>6. ConnInv'
    BY <2>2, <2>4 DEF ConnInv
  <2>7. QED
    BY <2>5, <2>6 DEF IInv
<1>17. QED
  BY <1>2, <1>4, <1>5, <1>6, <1>7, <1>8, <1>9, <1>10, <1>11, <1>12, <1>13, <1>14, <1>15, <1>16
  DEF Next, ClientStep

LEMMA InvHolds == Spec => []IInv
  BY InvInit, InvNext, PTL DEF Spec

-----------------------------------------------------------------------------
\* Every reachable state is well typed, whatever the channels, the limits and the
\* bounds: ids stay ledgers and queues stay sequences of frames.
THEOREM StreamTypeCorrect == Spec => []TypeOK
<1>1. IInv => TypeOK
  BY DEF IInv
<1>2. QED
  BY <1>1, InvHolds, PTL

\* No pause without its stall timer and its 'drain', no queued frame without a
\* 'drain' to flush it, for every queue limit and high-water mark (writeFrame,
\* enqueue, flushQueue and the forced heartbeat of stream.ts).
THEOREM BackpressureNeverWedges == Spec => []NeverWedged
<1>1. IInv => NeverWedged
  BY DEF IInv, ConnInv, Good, Sound, NeverWedged
<1>2. QED
  BY <1>1, InvHolds, PTL

\* No id that the running process has sent or queued, and none that a browser got from
\* it, is above its knownLedger, through any number of outages and of replacements of
\* the process; the id a browser brings from an earlier process is not covered (start,
\* sendMessage and connect of stream.ts).
THEOREM IdsStayBehind == Spec => []IdsBehindFrontier
<1>1. IInv => IdsBehindFrontier
  <2> SUFFICES ASSUME IInv, NEW c \in Clients
               PROVE  /\ conn[c].sent <= known
                      /\ lastId[c] # NoId /\ c \notin elsewhere => lastId[c] <= known
                      /\ \A i \in DOMAIN conn[c].sock : conn[c].sock[i].id <= known
                      /\ \A i \in DOMAIN conn[c].queue : conn[c].queue[i].id <= known
    BY DEF IdsBehindFrontier
  <2>1. /\ Good(conn[c], known)
        /\ c \in elsewhere \/ lastId[c] \in (0..known) \cup {NoId}
    BY DEF IInv, ConnInv
  <2>2. /\ conn[c].sock \in Seq(FrameUpTo(known)) /\ conn[c].queue \in Seq(FrameUpTo(known))
        /\ conn[c].sent \in 0..known
    BY <2>1 DEF Good, ConnectionUpTo
  <2>3. \A s \in Seq(FrameUpTo(known)) : \A i \in DOMAIN s : s[i].id \in 0..known
    <3>1. ASSUME NEW s \in Seq(FrameUpTo(known)), NEW i \in DOMAIN s
          PROVE  s[i].id \in 0..known
      <4>1. i \in 1..Len(s)
        BY LenProperties
      <4>2. s[i] \in FrameUpTo(known)
        BY <4>1, ElementOfSeq
      <4>3. QED
        BY <4>2 DEF FrameUpTo
    <3>2. QED
      BY <3>1
  <2>4. known \in Nat
    <3>1. known \in Ledgers /\ MaxLedger \in Nat
      BY StreamAssumption DEF IInv, TypeOK
    <3>2. QED
      BY <3>1 DEF Ledgers
  <2>5. QED
    BY <2>1, <2>2, <2>3, <2>4
<1>2. QED
  BY <1>1, InvHolds, PTL

-----------------------------------------------------------------------------
\* Frames are neither lost nor sent twice.

\* No two frames of a sequence carry one message.
Unique(s) == \A i, j \in DOMAIN s : s[i].n = s[j].n /\ i # j => s[i].n = 0

\* What a connection has still to send, and that it has each message once.
Messages(k) == MessagesOf(k.sock) \cup MessagesOf(k.queue)
Tidy(k) == Unique(k.sock) /\ Unique(k.queue) /\ MessagesOf(k.sock) \cap MessagesOf(k.queue) = {}

\* A method that is given message n, or none (0), keeps the others, and keeps n too if
\* it keeps the client.
Carries(k, k2, n) ==
    /\ Messages(k2) \subseteq Messages(k) \cup ({n} \ {0})
    /\ k2.open => k.open /\ Messages(k) \cup ({n} \ {0}) \subseteq Messages(k2)
    /\ Tidy(k) /\ n \notin Messages(k) => Tidy(k2)

\* A concatenation holds the messages of both parts, each once if no part repeats one
\* and they share none.
LEMMA Joined ==
  ASSUME NEW S, NEW s \in Seq(S), NEW t \in Seq(S)
  PROVE  /\ MessagesOf(s \o t) = MessagesOf(s) \cup MessagesOf(t)
         /\ Unique(s \o t) <=> Unique(s) /\ Unique(t) /\ MessagesOf(s) \cap MessagesOf(t) = {}
<1> DEFINE u == s \o t
<1>1. /\ Len(s) \in Nat /\ Len(t) \in Nat /\ DOMAIN s = 1..Len(s) /\ DOMAIN t = 1..Len(t)
      /\ u \in Seq(S) /\ DOMAIN u = 1..(Len(s) + Len(t))
      /\ \A i \in 1..Len(s) : u[i] = s[i]
      /\ \A j \in 1..Len(t) : u[Len(s) + j] = t[j]
  BY LenProperties, ConcatProperties
<1>2. \A i \in DOMAIN u : i \in 1..Len(s) \/ \E j \in 1..Len(t) : i = Len(s) + j
  <2> SUFFICES ASSUME NEW i \in 1..(Len(s) + Len(t)), ~(i \in 1..Len(s))
               PROVE  \E j \in 1..Len(t) : i = Len(s) + j
    BY <1>1
  <2>1. i - Len(s) \in 1..Len(t) /\ i = Len(s) + (i - Len(s))
    BY <1>1
  <2>2. QED
    BY <2>1
<1>3. /\ \A i \in DOMAIN s : i \in DOMAIN u /\ u[i] = s[i]
      /\ \A j \in DOMAIN t : Len(s) + j \in DOMAIN u /\ u[Len(s) + j] = t[j]
  BY <1>1
<1>4. /\ \A i \in DOMAIN s, j \in DOMAIN t : i # Len(s) + j
      /\ \A i, j \in DOMAIN t : i # j => Len(s) + i # Len(s) + j
  BY <1>1
<1> HIDE DEF u
<1>5. MessagesOf(u) = MessagesOf(s) \cup MessagesOf(t)
  <2>1. ASSUME NEW m \in MessagesOf(u) PROVE m \in MessagesOf(s) \cup MessagesOf(t)
    <3>1. PICK i \in DOMAIN u : m = u[i].n /\ m # 0
      BY <2>1 DEF MessagesOf
    <3>2. CASE i \in 1..Len(s)
      BY <1>1, <3>1, <3>2 DEF MessagesOf
    <3>3. CASE \E j \in 1..Len(t) : i = Len(s) + j
      BY <1>1, <3>1, <3>3 DEF MessagesOf
    <3>4. QED
      BY <1>2, <3>1, <3>2, <3>3
  <2>2. ASSUME NEW m \in MessagesOf(s) PROVE m \in MessagesOf(u)
    <3>1. PICK i \in DOMAIN s : m = s[i].n /\ m # 0
      BY <2>2 DEF MessagesOf
    <3>2. i \in DOMAIN u /\ u[i].n = m
      BY <1>3, <3>1
    <3>3. QED
      BY <3>1, <3>2 DEF MessagesOf
  <2>3. ASSUME NEW m \in MessagesOf(t) PROVE m \in MessagesOf(u)
    <3>1. PICK j \in DOMAIN t : m = t[j].n /\ m # 0
      BY <2>3 DEF MessagesOf
    <3>2. Len(s) + j \in DOMAIN u /\ u[Len(s) + j].n = m
      BY <1>3, <3>1
    <3>3. QED
      BY <3>1, <3>2 DEF MessagesOf
  <2>4. QED
    BY <2>1, <2>2, <2>3
<1>6. ASSUME Unique(u) PROVE Unique(s) /\ Unique(t) /\ MessagesOf(s) \cap MessagesOf(t) = {}
  <2>1. Unique(s)
    BY <1>3, <1>6 DEF Unique
  <2>2. Unique(t)
    <3> SUFFICES ASSUME NEW i \in DOMAIN t, NEW j \in DOMAIN t, t[i].n = t[j].n, i # j PROVE t[i].n = 0
      BY DEF Unique
    <3>1. Len(s) + i \in DOMAIN u /\ Len(s) + j \in DOMAIN u /\ Len(s) + i # Len(s) + j
      BY <1>3, <1>4
    <3>2. u[Len(s) + i] = t[i] /\ u[Len(s) + j] = t[j]
      BY <1>3
    <3>3. QED
      BY <1>6, <3>1, <3>2 DEF Unique
  <2>3. ASSUME NEW m \in MessagesOf(s), m \in MessagesOf(t) PROVE FALSE
    <3>1. PICK i \in DOMAIN s : m = s[i].n /\ m # 0
      BY <2>3 DEF MessagesOf
    <3>2. PICK j \in DOMAIN t : m = t[j].n
      BY <2>3 DEF MessagesOf
    <3>3. i \in DOMAIN u /\ Len(s) + j \in DOMAIN u /\ i # Len(s) + j /\ u[i] = s[i] /\ u[Len(s) + j] = t[j]
      BY <1>3, <1>4
    <3>4. QED
      BY <1>6, <3>1, <3>2, <3>3 DEF Unique
  <2>4. QED
    BY <2>1, <2>2, <2>3
<1>7. ASSUME Unique(s), Unique(t), MessagesOf(s) \cap MessagesOf(t) = {} PROVE Unique(u)
  <2> SUFFICES ASSUME NEW i \in DOMAIN u, NEW j \in DOMAIN u, u[i].n = u[j].n, i # j, u[i].n # 0 PROVE FALSE
    BY DEF Unique
  <2>1. CASE i \in 1..Len(s) /\ j \in 1..Len(s)
    BY <1>1, <1>7, <2>1 DEF Unique
  <2>2. ASSUME NEW a \in 1..Len(s), NEW e \in 1..Len(t), u[a].n = u[Len(s) + e].n, u[a].n # 0 PROVE FALSE
    <3>1. a \in DOMAIN s /\ e \in DOMAIN t /\ s[a].n = t[e].n /\ s[a].n # 0
      BY <1>1, <2>2
    <3>2. s[a].n \in MessagesOf(s) /\ s[a].n \in MessagesOf(t)
      BY <3>1 DEF MessagesOf
    <3>3. QED
      BY <1>7, <3>2
  <2>3. CASE \E a, e \in 1..Len(t) : i = Len(s) + a /\ j = Len(s) + e
    <3>1. PICK a \in 1..Len(t), e \in 1..Len(t) : i = Len(s) + a /\ j = Len(s) + e
      BY <2>3
    <3>2. a \in DOMAIN t /\ e \in DOMAIN t /\ a # e /\ t[a].n = t[e].n /\ t[a].n # 0
      BY <1>1, <3>1
    <3>3. QED
      BY <1>7, <3>2 DEF Unique
  <2>4. QED
    BY <1>2, <2>1, <2>2, <2>3
<1>8. QED
  BY <1>5, <1>6, <1>7 DEF u

\* One frame, and frames about the connection.
LEMMA OneFrame ==
  ASSUME NEW f
  PROVE  MessagesOf(<<f>>) = {f.n} \ {0} /\ Unique(<<f>>)
  BY DEF MessagesOf, Unique

LEMMA NoFrames == MessagesOf(<<>>) = {} /\ Unique(<<>>)
  BY DEF MessagesOf, Unique

LEMMA NoticesOnly ==
  ASSUME NEW j \in Nat, NEW f, f.n = 0
  PROVE  MessagesOf([i \in 1..j |-> f]) = {} /\ Unique([i \in 1..j |-> f])
  BY DEF MessagesOf, Unique

LEMMA OneMore ==
  ASSUME NEW S, NEW s \in Seq(S), NEW f \in S
  PROVE  /\ MessagesOf(Append(s, f)) = MessagesOf(s) \cup ({f.n} \ {0})
         /\ Unique(s) /\ f.n \notin MessagesOf(s) => Unique(Append(s, f))
<1>1. Append(s, f) = s \o <<f>> /\ <<f>> \in Seq(S)
  BY AppendIsConcat
<1> DEFINE t == <<f>>
<1> HIDE DEF t
<1>2. /\ MessagesOf(s \o t) = MessagesOf(s) \cup MessagesOf(t)
      /\ Unique(s \o t) <=> Unique(s) /\ Unique(t) /\ MessagesOf(s) \cap MessagesOf(t) = {}
  BY <1>1, Joined DEF t
<1>3. Append(s, f) = s \o t /\ MessagesOf(t) = {f.n} \ {0} /\ Unique(t)
  BY <1>1, OneFrame DEF t
<1>4. QED
  BY <1>2, <1>3

-----------------------------------------------------------------------------
\* Each method of a StreamClient, as in the lemmas on Good.

LEMMA CloseCarries ==
  ASSUME NEW b \in Nat, NEW k, Good(k, b)
  PROVE  Carries(k, Close(k), 0)
<1>1. Close(k).sock = k.sock /\ Close(k).queue = <<>> /\ Close(k).open = FALSE
  BY DEF Good, ConnectionUpTo, Close
<1>2. QED
  BY <1>1, NoFrames DEF Carries, Messages, Tidy

LEMMA WriteFrameCarries ==
  ASSUME NEW b \in Nat, NEW k, Good(k, b), NEW f \in FrameUpTo(b)
  PROVE  Carries(k, WriteFrame(k, f), f.n)
<1> DEFINE k2 == WriteFrame(k, f)
<1>1. k2.sock = Append(k.sock, f) /\ k2.queue = k.queue /\ k2.open = k.open
  BY DEF Good, ConnectionUpTo, WriteFrame
<1>2. k.sock \in Seq(FrameUpTo(b))
  BY DEF Good, ConnectionUpTo
<1> HIDE DEF k2
<1>3. /\ MessagesOf(k2.sock) = MessagesOf(k.sock) \cup ({f.n} \ {0})
      /\ Unique(k.sock) /\ f.n \notin MessagesOf(k.sock) => Unique(k2.sock)
  BY <1>1, <1>2, OneMore
<1>4. Carries(k, k2, f.n)
  BY <1>1, <1>3 DEF Carries, Messages, Tidy
<1>5. QED
  BY <1>4 DEF k2

LEMMA EnqueueCarries ==
  ASSUME NEW b \in Nat, NEW k, Good(k, b), NEW f \in FrameUpTo(b)
  PROVE  Carries(k, Enqueue(k, f), f.n)
<1>1. CASE Len(k.queue) >= QueueLimit
  <2>1. Enqueue(k, f) = Close(k) /\ Close(k).open = FALSE
    BY <1>1 DEF Enqueue, Good, ConnectionUpTo, Close
  <2>2. Carries(k, Close(k), 0) /\ 0 \notin Messages(k)
    BY CloseCarries DEF Messages, MessagesOf
  <2>3. QED
    BY <2>1, <2>2 DEF Carries
<1>2. CASE ~(Len(k.queue) >= QueueLimit)
  <2> DEFINE k2 == Enqueue(k, f)
  <2>1. k2.sock = k.sock /\ k2.queue = Append(k.queue, f) /\ k2.open = k.open
    BY <1>2 DEF Enqueue, Good, ConnectionUpTo
  <2>2. k.queue \in Seq(FrameUpTo(b))
    BY DEF Good, ConnectionUpTo
  <2> HIDE DEF k2
  <2>3. /\ MessagesOf(k2.queue) = MessagesOf(k.queue) \cup ({f.n} \ {0})
        /\ Unique(k.queue) /\ f.n \notin MessagesOf(k.queue) => Unique(k2.queue)
    BY <2>1, <2>2, OneMore
  <2>4. Carries(k, k2, f.n)
    BY <2>1, <2>3 DEF Carries, Messages, Tidy
  <2>5. QED
    BY <2>4 DEF k2
<1>3. QED
  BY <1>1, <1>2

LEMMA SendMessageCarries ==
  ASSUME NEW b \in Nat, NEW k, Good(k, b), NEW ledger \in 0..b, NEW n \in NoteIds \cup {0}
  PROVE  Carries(k, SendMessage(k, ledger, n), n)
<1> DEFINE sent == Later(k.sent, ledger)
           frame == [id |-> sent, n |-> n]
           k1 == [k EXCEPT !.sent = sent]
<1>1. sent \in 0..b
  BY DEF Later, Good, ConnectionUpTo
<1>2. frame \in FrameUpTo(b) /\ frame.n = n
  BY <1>1 DEF FrameUpTo
<1>3. Good(k1, b) /\ k1.sock = k.sock /\ k1.queue = k.queue /\ k1.open = k.open
  BY <1>1 DEF Good, ConnectionUpTo, Sound
<1>4. SendMessage(k, ledger, n) = IF ~k.open THEN k
                                  ELSE IF k.paused THEN Enqueue(k1, frame)
                                  ELSE WriteFrame(k1, frame)
  BY DEF SendMessage
<1> HIDE DEF sent, frame, k1
<1>5. Carries(k1, Enqueue(k1, frame), n) /\ Carries(k1, WriteFrame(k1, frame), n)
  BY <1>2, <1>3, EnqueueCarries, WriteFrameCarries
<1>6. Messages(k1) = Messages(k) /\ (Tidy(k1) <=> Tidy(k))
  BY <1>3 DEF Messages, Tidy
<1>7. \A k2 : Carries(k1, k2, n) => Carries(k, k2, n)
  BY <1>3, <1>6 DEF Carries
<1>8. CASE ~k.open
  BY <1>4, <1>8 DEF Carries
<1>9. CASE k.open
  BY <1>4, <1>5, <1>7, <1>9
<1>10. QED
  BY <1>8, <1>9

LEMMA FlushQueueCarries ==
  ASSUME NEW b \in Nat, NEW k, Good(k, b), k.sock = <<>>
  PROVE  Carries(k, FlushQueue(k), 0)
<1> DEFINE q == k.queue
           out == IF Len(q) < HighWater THEN Len(q) ELSE HighWater
           sock == SubSeq(q, 1, out)
           rest == SubSeq(q, out + 1, Len(q))
           k2 == FlushQueue(k)
<1>1. k \in ConnectionUpTo(b) /\ q \in Seq(FrameUpTo(b)) /\ Len(q) \in Nat /\ HighWater \in Nat \ {0}
  BY StreamAssumption, LenProperties DEF Good, ConnectionUpTo
<1>2. out \in 0..Len(q) /\ \A i \in 1..Len(q) : q[i] \in FrameUpTo(b)
  BY <1>1, ElementOfSeq
<1>3. k2.sock = sock /\ k2.queue = rest /\ k2.open = k.open
  <2>1. Len(k.sock) = 0 /\ HighWater - Len(k.sock) = HighWater
    BY <1>1, EmptySeq
  <2>2. sock \in Seq(FrameUpTo(b))
    <3> HIDE DEF out
    <3>1. 1 \in Int /\ out \in Int /\ \A i \in 1..out : q[i] \in FrameUpTo(b)
      BY <1>1, <1>2
    <3>2. QED
      BY <3>1, SubSeqProperties
  <2>3. k.sock \o sock = sock
    BY <2>2, ConcatEmptySeq
  <2>4. QED
    BY <1>1, <2>1, <2>3 DEF FlushQueue, ConnectionUpTo
<1> HIDE DEF out
<1>4. /\ sock \in Seq(FrameUpTo(b)) /\ Len(sock) = out /\ (\A i \in 1..out : sock[i] = q[i])
      /\ rest \in Seq(FrameUpTo(b)) /\ Len(rest) = Len(q) - out /\ (\A i \in 1..(Len(q) - out) : rest[i] = q[out + i])
  <2>1. /\ 1 \in Int /\ out \in Int /\ \A i \in 1..out : q[i] \in FrameUpTo(b)
        /\ out + 1 \in Int /\ Len(q) \in Int /\ \A i \in (out + 1)..Len(q) : q[i] \in FrameUpTo(b)
    BY <1>1, <1>2
  <2>2. sock \in Seq(FrameUpTo(b)) /\ Len(sock) = out /\ \A i \in 1..out : sock[i] = q[i]
    BY <1>1, <1>2, <2>1, SubSeqProperties
  <2>3. rest \in Seq(FrameUpTo(b)) /\ Len(rest) = Len(q) - out /\ \A i \in 1..(Len(q) - out) : rest[i] = q[out + i]
    BY <1>1, <1>2, <2>1, SubSeqProperties
  <2>4. QED
    BY <2>2, <2>3
<1> HIDE DEF sock, rest, k2
<1>5. sock \o rest = q
  <2>1. /\ sock \o rest \in Seq(FrameUpTo(b)) /\ Len(sock \o rest) = Len(q)
        /\ \A i \in 1..Len(q) : (sock \o rest)[i] = IF i <= out THEN sock[i] ELSE rest[i - out]
    <3>1. /\ sock \o rest \in Seq(FrameUpTo(b)) /\ Len(sock \o rest) = Len(sock) + Len(rest)
          /\ \A i \in 1..(Len(sock) + Len(rest)) :
                (sock \o rest)[i] = IF i <= Len(sock) THEN sock[i] ELSE rest[i - Len(sock)]
      BY <1>4, ConcatProperties
    <3>2. Len(sock) + Len(rest) = Len(q) /\ Len(sock) = out
      BY <1>1, <1>2, <1>4
    <3>3. QED
      BY <3>1, <3>2
  <2>2. \A i \in 1..Len(q) : (sock \o rest)[i] = q[i]
    <3> TAKE i \in 1..Len(q)
    <3>1. CASE i <= out
      <4>1. i \in 1..out
        BY <1>1, <1>2, <3>1
      <4>2. sock[i] = q[i]
        BY <1>4, <4>1
      <4>3. (sock \o rest)[i] = sock[i]
        BY <2>1, <3>1
      <4>4. QED
        BY <4>2, <4>3
    <3>2. CASE ~(i <= out)
      <4>1. i - out \in 1..(Len(q) - out) /\ out + (i - out) = i
        BY <1>1, <1>2, <3>2
      <4>2. rest[i - out] = q[out + (i - out)]
        BY <1>4, <4>1
      <4>3. QED
        BY <2>1, <3>2, <4>1, <4>2
    <3>3. QED
      BY <3>1, <3>2
  <2>3. QED
    BY <1>1, <2>1, <2>2, SeqEqual
<1>6. /\ MessagesOf(q) = MessagesOf(sock) \cup MessagesOf(rest)
      /\ Unique(q) <=> Unique(sock) /\ Unique(rest) /\ MessagesOf(sock) \cap MessagesOf(rest) = {}
  <2>1. /\ MessagesOf(sock \o rest) = MessagesOf(sock) \cup MessagesOf(rest)
        /\ Unique(sock \o rest) <=> Unique(sock) /\ Unique(rest) /\ MessagesOf(sock) \cap MessagesOf(rest) = {}
    BY <1>4, Joined
  <2>2. QED
    BY <1>5, <2>1
<1>7. Carries(k, k2, 0)
  BY <1>3, <1>6, NoFrames DEF Carries, Messages, Tidy
<1>8. QED
  BY <1>7 DEF k2

LEMMA TellDisconnectCarries ==
  ASSUME NEW b \in Nat, NEW k, Good(k, b), NEW m \in Nat
  PROVE  Carries(k, TellDisconnect(k, m), 0)
<1>1. CASE ~k.open
  <2>1. TellDisconnect(k, m) = k
    BY <1>1 DEF TellDisconnect
  <2>2. QED
    BY <1>1, <2>1 DEF Carries
<1>2. CASE k.open
  <2> DEFINE room == IF k.paused THEN 0 ELSE HighWater - Len(k.sock)
             out == IF m < room THEN m ELSE room
             notice == [id |-> k.sent, n |-> 0]
             Notices(j) == [i \in 1..j |-> notice]
             sock == k.sock \o Notices(out)
             full == Len(sock) >= HighWater
             k1 == IF out = 0 THEN k
                   ELSE [k EXCEPT !.sock = sock, !.paused = full, !.stall = full,
                                  !.needDrain = @ \/ full]
             queue == k.queue \o Notices(m - out)
             k2 == [k1 EXCEPT !.queue = queue]
  <2>1. /\ k \in ConnectionUpTo(b) /\ k.sock \in Seq(FrameUpTo(b)) /\ k.queue \in Seq(FrameUpTo(b))
        /\ k.sent \in 0..b /\ HighWater \in Nat \ {0} /\ Len(k.sock) \in Nat
    BY StreamAssumption, LenProperties DEF Good, ConnectionUpTo
  <2>2. ~k.paused => Len(k.sock) < HighWater
    BY <1>2 DEF Good, Sound
  <2>3. out \in Nat /\ m - out \in Nat
    BY <2>1, <2>2
  <2>4. notice \in FrameUpTo(b) /\ notice.n = 0
    BY <2>1 DEF FrameUpTo
  <2>5. TellDisconnect(k, m) = IF Len(k.queue) + (m - out) > QueueLimit THEN Close(k1) ELSE k2
    BY <1>2 DEF TellDisconnect
  <2> HIDE DEF out, room, notice
  <2>6. /\ Notices(out) \in Seq(FrameUpTo(b)) /\ Notices(m - out) \in Seq(FrameUpTo(b))
        /\ MessagesOf(Notices(out)) = {} /\ Unique(Notices(out))
        /\ MessagesOf(Notices(m - out)) = {} /\ Unique(Notices(m - out))
    BY <2>3, <2>4, Copies, NoticesOnly
  <2> HIDE DEF Notices
  <2>7. /\ MessagesOf(sock) = MessagesOf(k.sock) /\ (Unique(k.sock) => Unique(sock))
        /\ MessagesOf(queue) = MessagesOf(k.queue) /\ (Unique(k.queue) => Unique(queue))
    <3> DEFINE z == Notices(out)
               y == Notices(m - out)
    <3> HIDE DEF z, y
    <3>1. /\ z \in Seq(FrameUpTo(b)) /\ y \in Seq(FrameUpTo(b))
          /\ MessagesOf(z) = {} /\ Unique(z) /\ MessagesOf(y) = {} /\ Unique(y)
      BY <2>6 DEF z, y
    <3>2. /\ MessagesOf(k.sock \o z) = MessagesOf(k.sock) \cup MessagesOf(z)
          /\ Unique(k.sock \o z) <=> Unique(k.sock) /\ Unique(z) /\ MessagesOf(k.sock) \cap MessagesOf(z) = {}
      BY <2>1, <3>1, Joined
    <3>3. /\ MessagesOf(k.queue \o y) = MessagesOf(k.queue) \cup MessagesOf(y)
          /\ Unique(k.queue \o y) <=> Unique(k.queue) /\ Unique(y) /\ MessagesOf(k.queue) \cap MessagesOf(y) = {}
      BY <2>1, <3>1, Joined
    <3>4. sock = k.sock \o z /\ queue = k.queue \o y
      BY DEF z, y
    <3>5. QED
      BY <3>1, <3>2, <3>3, <3>4
  <2> HIDE DEF sock, queue, full
  <2>8. /\ k1.open = k.open /\ k1.queue = k.queue
        /\ k1.sock = k.sock \/ k1.sock = sock
        /\ DOMAIN k1 = DOMAIN k
    BY <2>1 DEF ConnectionUpTo
  <2>9. /\ Close(k1).open = FALSE /\ Close(k1).sock = k1.sock /\ Close(k1).queue = <<>>
        /\ k2.open = k.open /\ k2.sock = k1.sock /\ k2.queue = queue
    <3>1. DOMAIN k1 = {"open", "paused", "queue", "sock", "needDrain", "stall", "retry", "sent"}
      BY <2>1, <2>8 DEF ConnectionUpTo
    <3> HIDE DEF k1
    <3>2. QED
      BY <2>8, <3>1 DEF Close
  <2> HIDE DEF k1, k2
  <2>10. Carries(k, k2, 0) /\ Carries(k, Close(k1), 0)
    BY <1>2, <2>7, <2>8, <2>9, NoFrames DEF Carries, Messages, Tidy
  <2>11. QED
    BY <2>5, <2>10
<1>3. QED
  BY <1>1, <1>2

-----------------------------------------------------------------------------
\* What an open connection owes its browser, and what was already on the wire before
\* everything that still is.
Held(k, got, want) ==
    k.open => want \subseteq got \cup Messages(k) /\ Messages(k) \cap got = {} /\ Tidy(k)

Sent(m) == m <= notes /\ \A i \in 1..Len(wire) : m < wire[i].n

\* NOTIFYs are numbered in order, so the next one to be dispatched is new to every client.
FrameInv ==
    /\ \A i \in 1..Len(wire) : wire[i].n <= notes
    /\ \A i, j \in 1..Len(wire) : i < j => wire[i].n < wire[j].n
    /\ \A c \in Clients : /\ Held(conn[c], seen[c], owed[c])
                          /\ \A m \in seen[c] \cup Messages(conn[c]) : Sent(m)

LEMMA FrameInit == Init => FrameInv
<1> SUFFICES ASSUME Init PROVE FrameInv
  OBVIOUS
<1>1. Len(wire) = 0
  BY DEF Init
<1>2. Messages(NoConnection) = {} /\ NoConnection.open = FALSE
  BY NoFrames DEF Messages, NoConnection
<1>3. \A c \in Clients : conn[c] = NoConnection /\ seen[c] = {} /\ owed[c] = {}
  BY DEF Init
<1>4. QED
  BY <1>1, <1>2, <1>3 DEF FrameInv, Held

\* What the wire and the history say of the numbers, as facts about Nat.
LEMMA FrameTypes ==
  ASSUME TypeOK
  PROVE  /\ wire \in Seq(Note) /\ Len(wire) \in Nat /\ notes \in Nat
         /\ \A i \in 1..Len(wire) : wire[i] \in Note /\ wire[i].n \in Nat \ {0}
         /\ \A c \in Clients : seen[c] \subseteq Nat \ {0} /\ owed[c] \subseteq Nat \ {0}
         /\ \A c \in Clients : Messages(conn[c]) \subseteq Nat \ {0}
<1>1. wire \in Seq(Note) /\ Len(wire) \in Nat /\ notes \in Nat
  BY LenProperties DEF TypeOK
<1>2. \A i \in 1..Len(wire) : wire[i] \in Note /\ wire[i].n \in Nat \ {0}
  <2>1. \A i \in 1..Len(wire) : wire[i] \in Note
    BY <1>1, ElementOfSeq
  <2>2. \A x \in Note : x.n \in Nat \ {0}
    BY DEF Note, NoteIds
  <2>3. QED
    BY <2>1, <2>2
<1>3. \A c \in Clients : seen[c] \subseteq Nat \ {0} /\ owed[c] \subseteq Nat \ {0}
  BY DEF TypeOK, NoteIds
<1>4. ASSUME NEW t \in Seq(Frame) PROVE MessagesOf(t) \subseteq Nat \ {0}
  <2>1. \A i \in DOMAIN t : t[i] \in Frame
    BY LenProperties, ElementOfSeq
  <2>2. \A f \in Frame : f.n \in Nat
    BY DEF Frame, NoteIds
  <2>3. QED
    BY <2>1, <2>2 DEF MessagesOf
<1>5. \A c \in Clients : conn[c].sock \in Seq(Frame) /\ conn[c].queue \in Seq(Frame)
  BY DEF TypeOK, Connection
<1>6. \A c \in Clients : Messages(conn[c]) \subseteq Nat \ {0}
  BY <1>4, <1>5 DEF Messages
<1>7. QED
  BY <1>1, <1>2, <1>3, <1>6

\* A step that takes nothing off the wire for a client, and may empty it.
LEMMA CarriedOn ==
  ASSUME IInv, FrameInv, UNCHANGED <<notes, seen, owed>>, wire' = wire \/ wire' = <<>>,
         \A c \in Clients : Carries(conn[c], conn'[c], 0)
  PROVE  FrameInv'
<1>1. \A c \in Clients : 0 \notin Messages(conn[c])
  BY FrameTypes DEF IInv
<1>2. /\ \A i \in 1..Len(wire') : wire'[i].n <= notes
      /\ \A i, j \in 1..Len(wire') : i < j => wire'[i].n < wire'[j].n
      /\ \A m : Sent(m) => Sent(m)'
  BY DEF FrameInv, Sent
<1>3. ASSUME NEW c \in Clients
      PROVE  Held(conn'[c], seen[c], owed[c]) /\ Messages(conn'[c]) \subseteq Messages(conn[c])
  BY <1>1 DEF FrameInv, Held, Carries
<1>4. QED
  BY <1>2, <1>3 DEF FrameInv, Held

LEMMA SameFrames ==
  ASSUME NEW k, NEW k2, k2.sock = k.sock, k2.queue = k.queue, k2.open = k.open
  PROVE  Carries(k, k2, 0)
<1>1. Messages(k2) = Messages(k) /\ (Tidy(k) => Tidy(k2))
  BY DEF Messages, Tidy
<1>2. QED
  BY <1>1 DEF Carries

\* One client's connection changes through a method.
LEMMA BecomesCarries ==
  ASSUME IInv, FrameInv, NEW c \in Clients, NEW k, Carries(conn[c], k, 0), Becomes(c, k)
  PROVE  FrameInv'
<1>1. conn' = [conn EXCEPT ![c] = k] /\ UNCHANGED <<wire, notes, seen, owed>>
  BY DEF Becomes, serverVars, browserVars, historyVars
<1>2. \A d \in Clients : Carries(conn[d], conn'[d], 0)
  <2> TAKE d \in Clients
  <2>1. conn'[d] = IF d = c THEN k ELSE conn[d]
    BY <1>1 DEF IInv, TypeOK
  <2>2. Carries(conn[d], conn[d], 0)
    BY SameFrames
  <2>3. QED
    BY <2>1, <2>2
<1>3. QED
  BY <1>1, <1>2, CarriedOn

\* A step that appends to the wire.
LEMMA PublishKeeps ==
  ASSUME IInv, FrameInv, UNCHANGED <<conn, seen, owed>>, NEW more \in Seq(Note), wire' = wire \o more,
         notes' \in Nat, notes <= notes',
         \A i \in 1..Len(more) : more[i].n > notes /\ more[i].n <= notes',
         \A i, j \in 1..Len(more) : i < j => more[i].n < more[j].n
  PROVE  FrameInv'
<1>1. /\ wire \in Seq(Note) /\ Len(wire) \in Nat /\ notes \in Nat
      /\ \A i \in 1..Len(wire) : wire[i].n \in Nat
      /\ \A c \in Clients : seen[c] \cup Messages(conn[c]) \subseteq Nat
  BY FrameTypes DEF IInv
<1>2. Len(more) \in Nat /\ \A i \in 1..Len(more) : more[i].n \in Nat
  <2>1. Len(more) \in Nat /\ \A i \in 1..Len(more) : more[i] \in Note
    BY LenProperties, ElementOfSeq
  <2>2. \A x \in Note : x.n \in Nat
    BY DEF Note, NoteIds
  <2>3. QED
    BY <2>1, <2>2
<1>3. /\ Len(wire') = Len(wire) + Len(more)
      /\ \A i \in 1..(Len(wire) + Len(more)) : wire'[i] = IF i <= Len(wire) THEN wire[i] ELSE more[i - Len(wire)]
  BY <1>1, ConcatProperties
<1>4. ASSUME NEW i \in 1..Len(wire')
      PROVE  \/ i \in 1..Len(wire) /\ wire'[i] = wire[i]
             \/ i > Len(wire) /\ i - Len(wire) \in 1..Len(more) /\ wire'[i] = more[i - Len(wire)]
  BY <1>1, <1>2, <1>3
<1>5. \A i \in 1..Len(wire') : wire'[i].n <= notes'
  <2> TAKE i \in 1..Len(wire')
  <2>1. CASE i \in 1..Len(wire) /\ wire'[i] = wire[i]
    <3>1. wire[i].n <= notes /\ wire[i].n \in Nat
      BY <1>1, <2>1 DEF FrameInv
    <3>2. QED
      BY <1>1, <2>1, <3>1
  <2>2. CASE i - Len(wire) \in 1..Len(more) /\ wire'[i] = more[i - Len(wire)]
    BY <2>2
  <2>3. QED
    BY <1>4, <2>1, <2>2
<1>6. ASSUME NEW i \in 1..Len(wire'), NEW j \in 1..Len(wire'), i < j PROVE wire'[i].n < wire'[j].n
  <2>1. CASE i \in 1..Len(wire) /\ wire'[i] = wire[i] /\ j \in 1..Len(wire) /\ wire'[j] = wire[j]
    BY <1>6, <2>1 DEF FrameInv
  <2>2. CASE /\ i \in 1..Len(wire) /\ wire'[i] = wire[i]
             /\ j - Len(wire) \in 1..Len(more) /\ wire'[j] = more[j - Len(wire)]
    <3>1. wire[i].n <= notes /\ wire[i].n \in Nat /\ more[j - Len(wire)].n > notes /\ more[j - Len(wire)].n \in Nat
      BY <1>1, <1>2, <2>2 DEF FrameInv
    <3>2. QED
      BY <1>1, <2>2, <3>1
  <2>3. CASE /\ i - Len(wire) \in 1..Len(more) /\ wire'[i] = more[i - Len(wire)]
             /\ j - Len(wire) \in 1..Len(more) /\ wire'[j] = more[j - Len(wire)]
    <3>1. i - Len(wire) < j - Len(wire)
      BY <1>1, <1>2, <1>3, <1>6
    <3>2. QED
      BY <2>3, <3>1
  <2>4. CASE i > Len(wire) /\ j \in 1..Len(wire)
    BY <1>1, <1>2, <1>3, <1>6, <2>4
  <2>5. QED
    BY <1>4, <2>1, <2>2, <2>3, <2>4
<1>7. ASSUME NEW m \in Nat, Sent(m) PROVE Sent(m)'
  <2>1. m <= notes'
    BY <1>1, <1>7 DEF Sent
  <2>2. ASSUME NEW i \in 1..Len(wire') PROVE m < wire'[i].n
    <3>1. CASE i \in 1..Len(wire) /\ wire'[i] = wire[i]
      BY <1>7, <3>1 DEF Sent
    <3>2. CASE i - Len(wire) \in 1..Len(more) /\ wire'[i] = more[i - Len(wire)]
      <4>1. more[i - Len(wire)].n > notes /\ more[i - Len(wire)].n \in Nat /\ m <= notes
        BY <1>2, <1>7, <3>2 DEF Sent
      <4>2. QED
        BY <1>1, <3>2, <4>1
    <3>3. QED
      BY <1>4, <3>1, <3>2
  <2>3. QED
    BY <2>1, <2>2 DEF Sent
<1>8. ASSUME NEW c \in Clients PROVE Held(conn[c], seen[c], owed[c])' /\ \A m \in (seen[c] \cup Messages(conn[c]))' : Sent(m)'
  <2>1. Held(conn[c], seen[c], owed[c])' /\ \A m \in seen[c] \cup Messages(conn[c]) : Sent(m)
    BY DEF FrameInv, Held
  <2>2. \A m \in seen[c] \cup Messages(conn[c]) : Sent(m)'
    BY <1>1, <1>7, <2>1
  <2>3. QED
    BY <2>1, <2>2
<1>9. QED
  BY <1>5, <1>6, <1>8 DEF FrameInv

\* The next NOTIFY is fanned out to some of the clients.
LEMMA DispatchKeeps ==
  ASSUME IInv, FrameInv, Dispatch
  PROVE  FrameInv'
<1> DEFINE note == Head(wire)
           n == wire[1].n
           valid == note.kind # "malformed"
           stale == note.kind = "reorg" /\ lastReorg # 0 /\ note.ledger <= lastReorg
           to == {c \in Clients : /\ valid /\ ~stale
                                  /\ conn[c].open /\ note.channel \in Subscribed[c]}
<1>1. /\ wire # <<>> /\ wire' = Tail(wire) /\ UNCHANGED <<notes, seen>>
      /\ conn' = [c \in Clients |->
                    IF c \in to THEN SendMessage(conn[c], note.ledger, note.n) ELSE conn[c]]
      /\ owed' = [c \in Clients |-> IF c \in to THEN owed[c] \cup {note.n} ELSE owed[c]]
      /\ known' = IF valid THEN Later(known, note.ledger) ELSE known
  BY DEF Dispatch, browserVars
<1>2. /\ wire \in Seq(Note) /\ Len(wire) \in Nat /\ notes \in Nat
      /\ \A i \in 1..Len(wire) : wire[i] \in Note /\ wire[i].n \in Nat \ {0}
      /\ \A c \in Clients : seen[c] \subseteq Nat \ {0} /\ owed[c] \subseteq Nat \ {0}
      /\ \A c \in Clients : Messages(conn[c]) \subseteq Nat \ {0}
  BY FrameTypes DEF IInv
<1>3. /\ Len(wire) > 0 /\ note = wire[1] /\ note \in Note /\ n \in Nat \ {0}
      /\ Len(wire') = Len(wire) - 1
      /\ \A i \in 1..Len(wire') : wire'[i] = wire[i + 1]
  <2>1. Len(wire) > 0 /\ 1 \in 1..Len(wire)
    BY <1>1, <1>2, EmptySeq
  <2>2. /\ Head(wire) = wire[1] /\ Len(Tail(wire)) = Len(wire) - 1
        /\ \A i \in 1..Len(Tail(wire)) : Tail(wire)[i] = wire[i + 1]
    BY <1>1, <1>2, HeadTailProperties
  <2>3. QED
    BY <1>1, <1>2, <2>1, <2>2
<1>4. \A i \in 1..Len(wire') : i + 1 \in 1..Len(wire) /\ 1 < i + 1
  BY <1>2, <1>3
<1>5. ASSUME NEW c \in Clients, c \in to PROVE Carries(conn[c], conn'[c], n)
  <2>1. known \in Ledgers /\ MaxLedger \in Nat /\ note.ledger \in Ledgers
    BY <1>3, StreamAssumption DEF IInv, TypeOK, Note
  <2>2. known \in Nat /\ known' \in Nat /\ known <= known' /\ note.ledger \in 0..known'
    BY <1>1, <1>5, <2>1 DEF Later, Ledgers
  <2>3. Good(conn[c], known')
    BY <2>2, GoodLater DEF IInv, ConnInv
  <2>4. n \in NoteIds \cup {0} /\ note.n = n
    BY <1>3 DEF NoteIds
  <2>5. conn'[c] = SendMessage(conn[c], note.ledger, n)
    BY <1>1, <1>5, <2>4
  <2> HIDE DEF n, note
  <2>6. QED
    BY <2>2, <2>3, <2>4, <2>5, SendMessageCarries
<1>6. \A c \in Clients : c \notin to => conn'[c] = conn[c] /\ owed'[c] = owed[c]
  BY <1>1
<1>7. \A c \in Clients : c \in to => owed'[c] = owed[c] \cup {n} /\ conn[c].open
  BY <1>1, <1>3
<1> HIDE DEF to, n, note
<1>8. \A i \in 1..Len(wire') : wire'[i].n <= notes
  BY <1>3, <1>4 DEF FrameInv
<1>9. ASSUME NEW i \in 1..Len(wire'), NEW j \in 1..Len(wire'), i < j PROVE wire'[i].n < wire'[j].n
  <2>1. i + 1 \in 1..Len(wire) /\ j + 1 \in 1..Len(wire) /\ i + 1 < j + 1
    BY <1>4, <1>9
  <2>2. QED
    BY <1>3, <2>1 DEF FrameInv
<1>10. \A m : m = n => Sent(m)'
  <2>1. n <= notes
    BY <1>2, <1>3 DEF FrameInv, n
  <2>2. ASSUME NEW i \in 1..Len(wire') PROVE n < wire'[i].n
    <3>1. i + 1 \in 1..Len(wire) /\ 1 \in 1..Len(wire) /\ 1 < i + 1 /\ wire'[i] = wire[i + 1]
      BY <1>2, <1>3, <1>4
    <3>2. QED
      BY <3>1 DEF FrameInv, n
  <2>3. QED
    BY <1>1, <2>1, <2>2 DEF Sent
<1>11. ASSUME NEW m, Sent(m) PROVE Sent(m)' /\ m < n
  <2>1. m < n
    BY <1>2, <1>3, <1>11 DEF Sent, n
  <2>2. ASSUME NEW i \in 1..Len(wire') PROVE m < wire'[i].n
    BY <1>3, <1>4, <1>11 DEF Sent
  <2>3. QED
    BY <1>1, <1>11, <2>1, <2>2 DEF Sent
<1>12. ASSUME NEW c \in Clients
       PROVE  Held(conn'[c], seen[c], owed'[c]) /\ \A m \in seen[c] \cup Messages(conn'[c]) : Sent(m)'
  <2>1. Held(conn[c], seen[c], owed[c]) /\ \A m \in seen[c] \cup Messages(conn[c]) : Sent(m)
    BY DEF FrameInv
  <2>2. n \notin seen[c] /\ n \notin Messages(conn[c])
    <3>1. \A m \in seen[c] \cup Messages(conn[c]) : m \in Nat /\ m < n
      BY <1>2, <1>11, <2>1
    <3>2. ~(n < n)
      BY <1>3
    <3>3. QED
      BY <3>1, <3>2
  <2>3. CASE c \in to
    <3>1. Carries(conn[c], conn'[c], n) /\ owed'[c] = owed[c] \cup {n} /\ conn[c].open /\ n # 0
      BY <1>3, <1>5, <1>7, <2>3
    <3>2. Messages(conn'[c]) \subseteq Messages(conn[c]) \cup {n} /\ Tidy(conn'[c])
      BY <2>1, <2>2, <3>1 DEF Carries, Held
    <3>3. conn'[c].open => Messages(conn[c]) \cup {n} \subseteq Messages(conn'[c])
      BY <3>1 DEF Carries
    <3>4. \A m \in seen[c] \cup Messages(conn'[c]) : Sent(m)'
      BY <1>10, <1>11, <2>1, <3>2
    <3>5. Held(conn'[c], seen[c], owed'[c])
      BY <2>1, <2>2, <3>1, <3>2, <3>3 DEF Held
    <3>6. QED
      BY <3>4, <3>5
  <2>4. CASE c \notin to
    BY <1>6, <1>11, <2>1, <2>4
  <2>5. QED
    BY <2>3, <2>4
<1>13. QED
  BY <1>1, <1>8, <1>9, <1>12 DEF FrameInv, Held

\* A new connection has sent nothing yet.
LEMMA StartKeeps ==
  ASSUME IInv, FrameInv, NEW c \in Clients, Start(c)
  PROVE  FrameInv'
<1> DEFINE asks == lastId[c] # NoId /\ known # 0
           k0 == [NoConnection EXCEPT !.open = TRUE, !.sent = known]
           k1 == IF asks THEN SendMessage(k0, 0, 0) ELSE k0
           k2 == SendMessage(k1, 0, 0)
<1>0. known \in Nat /\ 0 \in 0..known /\ 0 \in NoteIds \cup {0}
  <2>1. known \in Ledgers /\ MaxLedger \in Nat
    BY StreamAssumption DEF IInv, TypeOK
  <2>2. QED
    BY <2>1 DEF Ledgers
<1>1. Good(k0, known) /\ Messages(k0) = {} /\ Tidy(k0)
  <2>1. /\ k0.open = TRUE /\ k0.paused = FALSE /\ k0.queue = <<>> /\ k0.sock = <<>>
        /\ k0.stall = FALSE
    BY DEF NoConnection
  <2>2. known \in 0..known /\ Len(<<>>) < HighWater /\ <<>> \in Seq(FrameUpTo(known))
    BY <1>0, StreamAssumption, EmptySeq
  <2>3. k0 \in ConnectionUpTo(known)
    BY <2>2 DEF ConnectionUpTo, NoConnection
  <2> HIDE DEF k0
  <2>4. Sound(k0)
    BY <2>1, <2>2 DEF Sound
  <2>5. Messages(k0) = {} /\ Tidy(k0)
    BY <2>1, NoFrames DEF Messages, Tidy
  <2>6. QED
    BY <2>3, <2>4, <2>5 DEF Good
<1>2. conn' = [conn EXCEPT ![c] = k2] /\ owed' = [owed EXCEPT ![c] = {}] /\ UNCHANGED <<wire, notes, seen>>
  BY DEF Start, serverVars
<1> HIDE DEF k0
<1>3. Good(k1, known) /\ Messages(k1) = {} /\ Tidy(k1)
  <2>1. Good(SendMessage(k0, 0, 0), known) /\ Carries(k0, SendMessage(k0, 0, 0), 0)
    BY <1>0, <1>1, SendMessageGood, SendMessageCarries
  <2>2. Messages(SendMessage(k0, 0, 0)) = {} /\ Tidy(SendMessage(k0, 0, 0))
    BY <1>1, <2>1 DEF Carries
  <2>3. QED
    BY <1>1, <2>1, <2>2
<1> HIDE DEF k1
<1>4. Messages(k2) = {} /\ Tidy(k2)
  <2>1. Carries(k1, k2, 0)
    BY <1>0, <1>3, SendMessageCarries
  <2>2. QED
    BY <1>3, <2>1 DEF Carries
<1> HIDE DEF k2
<1>5. ASSUME NEW d \in Clients
      PROVE  Held(conn'[d], seen[d], owed'[d]) /\ \A m \in seen[d] \cup Messages(conn'[d]) : Sent(m)
  <2>1. CASE d = c
    <3>1. conn'[d] = k2 /\ owed'[d] = {}
      BY <1>2, <2>1 DEF IInv, TypeOK
    <3>2. QED
      BY <1>4, <3>1 DEF FrameInv, Held
  <2>2. CASE d # c
    <3>1. conn'[d] = conn[d] /\ owed'[d] = owed[d]
      BY <1>2, <2>2 DEF IInv, TypeOK
    <3>2. QED
      BY <3>1 DEF FrameInv
  <2>3. QED
    BY <2>1, <2>2
<1>6. QED
  BY <1>2, <1>5 DEF FrameInv, Held, Sent

\* The browser takes the first frame off its socket.
LEMMA DeliverKeeps ==
  ASSUME IInv, FrameInv, NEW c \in Clients, Deliver(c)
  PROVE  FrameInv'
<1> DEFINE k == conn[c]
           f == Head(k.sock)
           rest == Tail(k.sock)
           k2 == [k EXCEPT !.sock = rest]
<1>1. /\ k.sock # <<>> /\ conn' = [conn EXCEPT ![c] = k2]
      /\ seen' = [seen EXCEPT ![c] = seen[c] \cup ({f.n} \ {0})]
      /\ UNCHANGED <<wire, notes, owed>>
  BY DEF Deliver, serverVars, IInv, TypeOK
<1>2. k \in Connection /\ k.sock \in Seq(Frame) /\ k.queue \in Seq(Frame)
  BY DEF IInv, TypeOK, Connection
<1>3. /\ f \in Frame /\ rest \in Seq(Frame) /\ <<f>> \in Seq(Frame) /\ k.sock = <<f>> \o rest
  <2>1. f \in Frame /\ rest \in Seq(Frame)
    BY <1>1, <1>2, HeadTailProperties
  <2>2. k.sock = <<f>> \o rest
    BY <1>1, <1>2, HeadTailProperties
  <2>3. QED
    BY <2>1, <2>2
<1>4. k2.sock = rest /\ k2.queue = k.queue /\ k2.open = k.open
  BY <1>2 DEF Connection
<1> HIDE DEF f, rest, k2, k
<1>5. /\ MessagesOf(k.sock) = ({f.n} \ {0}) \cup MessagesOf(rest)
      /\ Unique(k.sock) => Unique(rest) /\ f.n \notin MessagesOf(rest)
  <2> DEFINE t == <<f>>
  <2>1. MessagesOf(t) = {f.n} \ {0} /\ t \in Seq(Frame) /\ k.sock = t \o rest
    BY <1>3, OneFrame
  <2> HIDE DEF t
  <2>2. /\ MessagesOf(t \o rest) = MessagesOf(t) \cup MessagesOf(rest)
        /\ Unique(t \o rest) <=> Unique(t) /\ Unique(rest) /\ MessagesOf(t) \cap MessagesOf(rest) = {}
    BY <1>3, <2>1, Joined
  <2>3. 0 \notin MessagesOf(rest)
    BY DEF MessagesOf
  <2>4. QED
    BY <2>1, <2>2, <2>3
<1>6. /\ Messages(k) = Messages(k2) \cup ({f.n} \ {0})
      /\ Tidy(k) => Tidy(k2) /\ f.n \notin Messages(k2)
  <2>1. 0 \notin MessagesOf(k.queue)
    BY DEF MessagesOf
  <2>2. QED
    BY <1>4, <1>5, <2>1 DEF Messages, Tidy
<1>7. ASSUME NEW d \in Clients
      PROVE  Held(conn'[d], seen'[d], owed[d]) /\ \A m \in seen'[d] \cup Messages(conn'[d]) : Sent(m)
  <2>0. Held(conn[d], seen[d], owed[d]) /\ \A m \in seen[d] \cup Messages(conn[d]) : Sent(m)
    BY DEF FrameInv
  <2>1. CASE d = c
    <3>1. conn'[d] = k2 /\ seen'[d] = seen[d] \cup ({f.n} \ {0}) /\ conn[d] = k
      BY <1>1, <2>1 DEF IInv, TypeOK, k
    <3>2. \A m \in seen'[d] \cup Messages(conn'[d]) : Sent(m)
      BY <1>6, <2>0, <3>1
    <3>3. Held(conn'[d], seen'[d], owed[d])
      BY <1>4, <1>6, <2>0, <3>1 DEF Held
    <3>4. QED
      BY <3>2, <3>3
  <2>2. CASE d # c
    <3>1. conn'[d] = conn[d] /\ seen'[d] = seen[d]
      BY <1>1, <2>2 DEF IInv, TypeOK
    <3>2. QED
      BY <2>0, <3>1
  <2>3. QED
    BY <2>1, <2>2
<1>8. QED
  BY <1>1, <1>7 DEF FrameInv, Held, Sent

LEMMA FrameStep == IInv /\ FrameInv /\ [Next]_vars => FrameInv'
<1> SUFFICES ASSUME IInv, FrameInv, [Next]_vars PROVE FrameInv'
  OBVIOUS
<1>0. /\ known \in Nat /\ 0 \in 0..known /\ 0 \in NoteIds \cup {0}
      /\ \A c \in Clients : Good(conn[c], known)
  <2>1. known \in Ledgers /\ MaxLedger \in Nat
    BY StreamAssumption DEF IInv, TypeOK
  <2>2. QED
    BY <2>1 DEF Ledgers, IInv, ConnInv
<1>1. ASSUME NEW channel \in ChannelSet, NEW ledger \in Ledgers,
             NEW kind \in {"change", "malformed"}, Publish(channel, ledger, kind)
      PROVE  FrameInv'
  <2> DEFINE note == [n |-> notes + 1, channel |-> channel, ledger |-> ledger, kind |-> kind]
  <2>1. /\ notes' = notes + 1 /\ wire' = Append(wire, note) /\ UNCHANGED <<conn, seen, owed>>
    BY <1>1 DEF Publish, browserVars, historyVars
  <2>2. notes \in Nat /\ wire \in Seq(Note)
    BY DEF IInv, TypeOK
  <2>3. note \in Note /\ note.n = notes + 1
    BY <1>1, <2>2 DEF Note, NoteIds
  <2> HIDE DEF note
  <2>4. wire' = wire \o <<note>> /\ <<note>> \in Seq(Note) /\ Len(<<note>>) = 1 /\ <<note>>[1] = note
    BY <2>1, <2>2, <2>3, AppendIsConcat
  <2> DEFINE more == <<note>>
  <2>5. \A i \in 1..Len(more) : i = 1
    BY <2>4
  <2> HIDE DEF more
  <2>6. /\ more \in Seq(Note) /\ wire' = wire \o more
        /\ \A i \in 1..Len(more) : more[i].n > notes /\ more[i].n <= notes'
        /\ \A i, j \in 1..Len(more) : i < j => more[i].n < more[j].n
    BY <2>1, <2>2, <2>3, <2>4, <2>5 DEF more
  <2>7. notes' \in Nat /\ notes <= notes'
    BY <2>1, <2>2
  <2>8. QED
    BY <2>1, <2>6, <2>7, PublishKeeps
<1>2. ASSUME NEW ledger \in Ledgers, BroadcastReorg(ledger)
      PROVE  FrameInv'
  <2> DEFINE Copy(i) == [n |-> notes + i, channel |-> Channels[i], ledger |-> ledger,
                         kind |-> "reorg"]
             more == [i \in 1..Len(Channels) |-> Copy(i)]
  <2>1. /\ wire' = wire \o more /\ notes' = notes + Len(Channels) /\ UNCHANGED <<conn, seen, owed>>
    BY <1>2 DEF BroadcastReorg, browserVars
  <2>2. /\ notes \in Nat /\ Len(Channels) \in Nat /\ DOMAIN Channels = 1..Len(Channels)
    BY StreamAssumption, LenProperties DEF IInv, TypeOK
  <2>3. \A i \in 1..Len(Channels) : Copy(i) \in Note
    BY <1>2, <2>2 DEF Note, NoteIds, ChannelSet
  <2>4. more \in [1..Len(Channels) -> Note] /\ DOMAIN more = 1..Len(Channels)
    BY <2>3
  <2>5. \A i \in 1..Len(Channels) : more[i].n = notes + i
    OBVIOUS
  <2> HIDE DEF more
  <2>6. more \in Seq(Note)
    BY <2>2, <2>4, SeqDef
  <2>7. Len(more) = Len(Channels)
    BY <2>2, <2>4, <2>6, LenProperties
  <2>8. /\ \A i \in 1..Len(more) : more[i].n > notes /\ more[i].n <= notes'
        /\ \A i, j \in 1..Len(more) : i < j => more[i].n < more[j].n
    BY <2>1, <2>2, <2>5, <2>7, SMTT(30)
  <2>9. notes' \in Nat /\ notes <= notes'
    BY <2>1, <2>2
  <2>10. QED
    BY <2>1, <2>6, <2>8, <2>9, PublishKeeps
<1>3. CASE Dispatch
  BY <1>3, DispatchKeeps
<1>4. ASSUME NEW cursor \in Ledgers, Outage(cursor)
      PROVE  FrameInv'
  <2> DEFINE Taken(c) == {i \in 1..Len(Channels) : Channels[i] \in Subscribed[c]}
  <2>1. /\ wire' = <<>> /\ UNCHANGED <<notes, seen, owed>>
        /\ conn' = [c \in Clients |-> TellDisconnect(conn[c], Cardinality(Taken(c)))]
    BY <1>4 DEF Outage, browserVars
  <2>2. ASSUME NEW c \in Clients PROVE Carries(conn[c], conn'[c], 0)
    <3>1. IsFiniteSet(1..Len(Channels))
      BY StreamAssumption, LenProperties, FS_Interval
    <3>2. Taken(c) \in SUBSET (1..Len(Channels))
      OBVIOUS
    <3>3. IsFiniteSet(Taken(c))
      BY <3>1, <3>2, FS_Subset
    <3>4. Cardinality(Taken(c)) \in Nat
      BY <3>3, FS_CardinalityType
    <3>5. conn'[c] = TellDisconnect(conn[c], Cardinality(Taken(c)))
      BY <2>1
    <3> HIDE DEF Taken
    <3>6. QED
      BY <1>0, <3>4, <3>5, TellDisconnectCarries
  <2>3. QED
    BY <2>1, <2>2, CarriedOn
<1>5. ASSUME NEW c \in Clients, Start(c) PROVE FrameInv'
  BY <1>5, StartKeeps
<1>6. ASSUME NEW c \in Clients, HeartbeatTick(c) PROVE FrameInv'
  <2>1. Carries(conn[c], SendMessage(conn[c], 0, 0), 0)
    BY <1>0, SendMessageCarries
  <2>2. Carries(conn[c], [conn[c] EXCEPT !.retry = TRUE], 0)
    BY <1>0, SameFrames DEF Good, ConnectionUpTo
  <2>3. \/ Becomes(c, [conn[c] EXCEPT !.retry = TRUE])
        \/ Becomes(c, SendMessage(conn[c], 0, 0))
    BY <1>6 DEF HeartbeatTick
  <2>4. QED
    BY <2>1, <2>2, <2>3, BecomesCarries
<1>7. ASSUME NEW c \in Clients, HeartbeatRetry(c) PROVE FrameInv'
  <2> DEFINE f == [id |-> conn[c].sent, n |-> 0]
             k == WriteFrame(conn[c], f)
             k1 == [k EXCEPT !.retry = k.paused]
  <2>1. f \in FrameUpTo(known) /\ f.n = 0
    BY <1>0 DEF Good, ConnectionUpTo, FrameUpTo
  <2>2. Becomes(c, k1)
    BY <1>7 DEF HeartbeatRetry
  <2> HIDE DEF f
  <2>3. Carries(conn[c], k, 0) /\ Good(k, known)
    BY <1>0, <2>1, WriteFrameCarries, WriteFrameGood
  <2> HIDE DEF k
  <2>4. k1.sock = k.sock /\ k1.queue = k.queue /\ k1.open = k.open
    BY <2>3 DEF Good, ConnectionUpTo
  <2> HIDE DEF k1
  <2>5. Carries(conn[c], k1, 0)
    BY <2>3, <2>4 DEF Carries, Messages, Tidy
  <2>6. QED
    BY <2>2, <2>5, BecomesCarries
<1>8. ASSUME NEW c \in Clients, Drain(c) PROVE FrameInv'
  <2>1. Carries(conn[c], FlushQueue(conn[c]), 0)
    BY <1>0, <1>8, FlushQueueCarries DEF Drain
  <2>2. QED
    BY <1>8, <2>1, BecomesCarries DEF Drain
<1>9. ASSUME NEW c \in Clients, StallFires(c) \/ SocketDone(c) PROVE FrameInv'
  <2>1. Carries(conn[c], Close(conn[c]), 0)
    BY <1>0, CloseCarries
  <2>2. QED
    BY <1>9, <2>1, BecomesCarries DEF StallFires, SocketDone
<1>10. ASSUME NEW c \in Clients, Deliver(c) PROVE FrameInv'
  BY <1>10, DeliverKeeps
<1>11. CASE UNCHANGED <<wire, notes, conn, seen, owed>>
  BY <1>11 DEF FrameInv, Held, Sent
<1>12. ASSUME NEW c \in Clients, Sleep(c) PROVE FrameInv'
  BY <1>11, <1>12 DEF Sleep, serverVars, historyVars
<1>13. CASE UNCHANGED vars
  BY <1>11, <1>13 DEF vars, serverVars, browserVars, historyVars
<1>14. 0 \in Ledgers
  BY StreamAssumption DEF Ledgers
<1>15. ASSUME NEW cursor \in Ledgers, Restart(cursor) PROVE FrameInv'
  <2>1. /\ wire' = <<>> /\ UNCHANGED <<notes, seen, owed>>
        /\ conn' = [c \in Clients |-> NoConnection]
    BY <1>15 DEF Restart, browserVars
  <2>2. NoConnection.open = FALSE /\ NoConnection.sock = <<>> /\ NoConnection.queue = <<>>
    BY DEF NoConnection
  <2>3. Messages(NoConnection) = {} /\ Tidy(NoConnection)
    BY <2>2, NoFrames DEF Messages, Tidy
  <2>4. ASSUME NEW c \in Clients PROVE Carries(conn[c], conn'[c], 0)
    BY <2>1, <2>2, <2>3 DEF Carries
  <2>5. QED
    BY <2>1, <2>4, CarriedOn
<1>16. QED
  BY <1>1, <1>2, <1>3, <1>4, <1>5, <1>6, <1>7, <1>8, <1>9, <1>10, <1>12, <1>13, <1>14, <1>15 DEF Next, ClientStep

(***************************************************************************)
(* Backpressure loses and repeats nothing: whatever was fanned out to an   *)
(* open client is received, in its buffer or in its queue, and nothing of  *)
(* it twice, for every queue limit, high-water mark and number of          *)
(* channels (sendMessage, writeFrame, enqueue, flushQueue and the forced   *)
(* heartbeat of stream.ts).                                                *)
(***************************************************************************)
THEOREM FramesAreKept == Spec => []FramesKept
<1>1. IInv /\ FrameInv => FramesKept
  <2> SUFFICES ASSUME IInv, FrameInv, NEW c \in Clients, conn[c].open
               PROVE  /\ owed[c] \subseteq seen[c] \cup MessagesOf(conn[c].sock \o conn[c].queue)
                      /\ MessagesOf(conn[c].sock \o conn[c].queue) \cap seen[c] = {}
                      /\ Unique(conn[c].sock \o conn[c].queue)
    BY DEF FramesKept, Unique
  <2> DEFINE s == conn[c].sock
             q == conn[c].queue
  <2>1. s \in Seq(Frame) /\ q \in Seq(Frame)
    BY DEF IInv, TypeOK, Connection
  <2>2. /\ owed[c] \subseteq seen[c] \cup MessagesOf(s) \cup MessagesOf(q)
        /\ (MessagesOf(s) \cup MessagesOf(q)) \cap seen[c] = {}
        /\ Unique(s) /\ Unique(q) /\ MessagesOf(s) \cap MessagesOf(q) = {}
    BY DEF FrameInv, Held, Messages, Tidy
  <2> HIDE DEF s, q
  <2>3. /\ MessagesOf(s \o q) = MessagesOf(s) \cup MessagesOf(q)
        /\ Unique(s \o q) <=> Unique(s) /\ Unique(q) /\ MessagesOf(s) \cap MessagesOf(q) = {}
    BY <2>1, Joined
  <2>4. QED
    BY <2>2, <2>3 DEF s, q
<1>2. QED
  BY <1>1, InvInit, InvNext, FrameInit, FrameStep, PTL DEF Spec
=============================================================================
