--------------------------- MODULE StreamListener ---------------------------
(***************************************************************************)
(* The one LISTEN connection the SSE streams of a process share            *)
(* (SharedListener in src/api/stream.ts), its loss, reconnect and          *)
(* shutdown, and the admission of a stream request, which waits for it.    *)
(*                                                                         *)
(* JavaScript runs to the next await, so a step is what happens between    *)
(* two awaits.  What a client is sent is in module Stream.                 *)
(***************************************************************************)
EXTENDS Naturals, FiniteSets

CONSTANTS
    Requests,        \* stream requests; one that was refused or left may come again
    Ips, IpOf,       \* the address of each
    MaxConnections,  \* streamLimits.maxConnections
    MaxPerIp,        \* streamLimits.maxConnectionsPerIp
    MaxLosses,       \* bound on losses of an established connection
    MaxFailures      \* bound on connects that fail

ASSUME ListenerAssumption ==
    /\ IsFiniteSet(Requests) /\ IpOf \in [Requests -> Ips]
    /\ MaxConnections \in Nat /\ MaxPerIp \in Nat
    /\ MaxLosses \in Nat /\ MaxFailures \in Nat

VARIABLES
    client,       \* this.client: "none", or a connection that is "live" or "dead"
    setup,        \* this.connecting: the step connect() is at, "none" when null
    reconnecting, \* this.reconnecting
    timer,        \* this.reconnectTimer is set
    timerWaits,   \* the timer's ensureStarted awaits the connect under way
    stopped,      \* this.stopped
    closing,      \* shutdown(): "no", "waiting" for reconnecting, "done"
    request,      \* what each request is doing
    saw,          \* ipCount, as each request read it
    connected,    \* connectedClients
    byIp,         \* connectionsByIp
    losses, failures

\* History.
VARIABLES
    intruded,     \* a request began a connect while the lost connection was being ended
    overlapped,   \* a handshake waited while another one, or a close, changed the counts
    served        \* the listener came up, and no shutdown since

listener == <<client, setup, reconnecting, timer, timerWaits, stopped, closing>>
admission == <<request, saw, connected, byIp, overlapped>>
vars == <<listener, admission, losses, failures, intruded, served>>

TypeOK ==
    /\ client \in {"none", "live", "dead"}
    /\ setup \in {"none", "connect", "listen"}
    /\ reconnecting \in BOOLEAN /\ timer \in BOOLEAN /\ timerWaits \in BOOLEAN /\ stopped \in BOOLEAN
    /\ closing \in {"no", "waiting", "done"}
    /\ request \in [Requests -> {"away", "connecting", "ready", "open"}]
    /\ saw \in [Requests -> 0..MaxPerIp]
    /\ connected \subseteq Requests
    /\ byIp \in [Ips -> 0..MaxPerIp]
    /\ losses \in 0..MaxLosses /\ failures \in 0..MaxFailures
    /\ intruded \in BOOLEAN /\ overlapped \in BOOLEAN /\ served \in BOOLEAN

Init ==
    /\ client = "none" /\ setup = "none" /\ closing = "no"
    /\ reconnecting = FALSE /\ timer = FALSE /\ timerWaits = FALSE /\ stopped = FALSE
    /\ request = [r \in Requests |-> "away"]
    /\ saw = [r \in Requests |-> 0]
    /\ connected = {}
    /\ byIp = [i \in Ips |-> 0]
    /\ losses = 0 /\ failures = 0
    /\ intruded = FALSE /\ overlapped = FALSE /\ served = FALSE

-----------------------------------------------------------------------------
\* SharedListener.

\* ensureStarted: every caller shares the one connect under way.
EnsureStarted ==
    /\ stopped' = FALSE
    /\ setup' = IF client = "none" /\ setup = "none" THEN "connect" ELSE setup

\* Faulty variant: schedules nothing while the lost connection's state lingers.
MayReconnect_never(c, s) == FALSE
\* scheduleReconnect's early return, for the state its caller leaves.
MayReconnect(c, s) == ~stopped /\ c = "none" /\ s = "none"

\* client.connect() resolved; the frontier is seeded and the channels LISTENed.
ConnectStep ==
    /\ setup = "connect"
    /\ setup' = "listen"
    /\ UNCHANGED <<client, reconnecting, timer, timerWaits, stopped, closing, admission,
                   losses, failures, intruded, served>>

\* The callers of ensureStarted go on.
ConnectOk ==
    /\ setup = "listen"
    /\ client' = "live" /\ setup' = "none"
    /\ timerWaits' = FALSE
    /\ served' = ~stopped
    /\ request' = [r \in Requests |-> IF request[r] = "connecting" THEN "ready" ELSE request[r]]
    /\ UNCHANGED <<reconnecting, timer, stopped, closing, saw, connected, byIp, overlapped,
                   losses, failures, intruded>>

\* connect() rejects: its requests are answered 500, and the timer, if it waits
\* on this connect, schedules the next try.
ConnectFails ==
    /\ setup # "none" /\ failures < MaxFailures
    /\ failures' = failures + 1
    /\ setup' = "none"
    /\ timerWaits' = FALSE
    /\ timer' = (timer \/ (timerWaits /\ MayReconnect(client, "none")))
    /\ request' = [r \in Requests |-> IF request[r] = "connecting" THEN "away" ELSE request[r]]
    /\ UNCHANGED <<client, reconnecting, stopped, closing, saw, connected, byIp, overlapped,
                   losses, intruded, served>>

\* The 'error' handler: while an earlier lost connection is still being ended,
\* the event is ignored and this.client stays.
ConnectionLost ==
    /\ client = "live" /\ losses < MaxLosses
    /\ losses' = losses + 1
    /\ client' = IF reconnecting THEN "dead" ELSE "none"
    /\ reconnecting' = TRUE
    /\ UNCHANGED <<setup, timer, timerWaits, stopped, closing, admission, failures, intruded, served>>

\* deadClient.end() settled: finally lowers the flag and schedules a reconnect.
EndSettled ==
    /\ reconnecting
    /\ reconnecting' = FALSE
    /\ timer' = (timer \/ MayReconnect(client, setup))
    /\ UNCHANGED <<client, setup, timerWaits, stopped, closing, admission, losses, failures, intruded, served>>

TimerFires ==
    /\ timer
    /\ timer' = FALSE
    /\ IF stopped THEN UNCHANGED <<setup, stopped, timerWaits>>
       ELSE EnsureStarted /\ timerWaits' = (client = "none")
    /\ UNCHANGED <<client, reconnecting, closing, admission, losses, failures, intruded, served>>

Shutdown ==
    /\ closing = "no"
    /\ closing' = "waiting"
    /\ UNCHANGED <<client, setup, reconnecting, timer, timerWaits, stopped, admission,
                   losses, failures, intruded, served>>

\* Faulty variant: waits for the listener to be back, not for the lost one to go.
ReconnectPending_untilLive == reconnecting \/ client # "live"
ReconnectPending == reconnecting

\* The wait is over: no reconnect is pending any more and the connection is ended.
\* A connect under way is left to finish.
ShutdownEnds ==
    /\ closing = "waiting" /\ ~ReconnectPending
    /\ stopped' = TRUE /\ timer' = FALSE
    /\ client' = "none"
    /\ closing' = "done"
    /\ served' = FALSE
    /\ UNCHANGED <<setup, reconnecting, timerWaits, admission, losses, failures, intruded>>

-----------------------------------------------------------------------------
\* GET /api/stream.

Waiting == {r \in Requests : request[r] \in {"connecting", "ready"}}

\* Both caps are checked and ipCount is read, then the listener is awaited.
Handshake(r) ==
    /\ request[r] = "away"
    /\ Cardinality(connected) < MaxConnections
    /\ byIp[IpOf[r]] < MaxPerIp
    /\ saw' = [saw EXCEPT ![r] = byIp[IpOf[r]]]
    /\ EnsureStarted
    /\ request' = [request EXCEPT ![r] = IF client = "none" THEN "connecting" ELSE "ready"]
    /\ intruded' = (intruded \/ (reconnecting /\ client = "none"))
    /\ overlapped' = (overlapped \/ Waiting # {})
    /\ UNCHANGED <<client, reconnecting, timer, timerWaits, closing, connected, byIp, losses, failures, served>>

Admit(r) ==
    /\ request[r] = "ready"
    /\ request' = [request EXCEPT ![r] = "open"]
    /\ connected' = connected \cup {r}
    /\ byIp' = [byIp EXCEPT ![IpOf[r]] = saw[r] + 1]
    /\ UNCHANGED <<listener, saw, overlapped, losses, failures, intruded, served>>

\* Faulty variant: the entry of an address is kept once it is at one.
Released_keepsOne(n) == IF n <= 1 THEN n ELSE n - 1
\* `n <= 1` deletes the entry, which reads as 0.
Released(n) == IF n <= 1 THEN 0 ELSE n - 1

\* doClose: on a socket event, a stall, or the drain at shutdown.
Leave(r) ==
    /\ request[r] = "open"
    /\ request' = [request EXCEPT ![r] = "away"]
    /\ connected' = connected \ {r}
    /\ byIp' = [byIp EXCEPT ![IpOf[r]] = Released(byIp[IpOf[r]])]
    /\ overlapped' = (overlapped \/ Waiting # {})
    /\ saw' = [saw EXCEPT ![r] = 0]
    /\ UNCHANGED <<listener, losses, failures, intruded, served>>

Next ==
    \/ ConnectStep \/ ConnectOk \/ ConnectFails \/ ConnectionLost \/ EndSettled \/ TimerFires
    \/ Shutdown \/ ShutdownEnds
    \/ \E r \in Requests : Handshake(r) \/ Admit(r) \/ Leave(r)

Spec == Init /\ [][Next]_vars

-----------------------------------------------------------------------------
(***************************************************************************)
(* After a loss the LISTEN connection comes back without another request   *)
(* (stream.ts 265-292, 380-386), unless a shutdown has begun or a request  *)
(* began a connect of its own while the lost connection was being ended:   *)
(* scheduleReconnect then leaves the reconnect to that request's connect,  *)
(* which nothing repeats if it fails.                                      *)
(***************************************************************************)
ListenerReturns == (served /\ client # "live") ~> (client = "live" \/ closing # "no" \/ intruded)

(***************************************************************************)
(* A shutdown that waits for a reconnect gets its turn (stream.ts 393-398).*)
(***************************************************************************)
ShutdownReturns == closing = "waiting" ~> closing = "done"

OfIp(i) == {r \in connected : IpOf[r] = i}

(***************************************************************************)
(* When no two handshakes, and no handshake and a close, overlap, the      *)
(* count of an address is the number of its open streams and both caps     *)
(* hold, whatever the listener does meanwhile (stream.ts 753-756, 814-846).*)
(***************************************************************************)
AdmissionExact ==
    ~overlapped =>
        /\ \A i \in Ips : byIp[i] = Cardinality(OfIp(i)) /\ byIp[i] <= MaxPerIp
        /\ Cardinality(connected) <= MaxConnections
=============================================================================
