--------------------------- MODULE RecoveryProofs ---------------------------
(***************************************************************************)
(* What the components of Recovery never do, for every instance: the       *)
(* admission of streams next to a listener that comes and goes             *)
(* (StreamListener), the history that never turns empty again              *)
(* (HistoryCache), the figures that never go back (StatsRoute), and the    *)
(* types of all of them side by side.                                      *)
(***************************************************************************)
EXTENDS Recovery, Sequences, FiniteSetTheorems, TLAPS

-----------------------------------------------------------------------------
\* StreamListener.

LEMMA ListenerType == Init => TypeOK
<1> SUFFICES ASSUME Init PROVE TypeOK
  OBVIOUS
<1>1. 0 \in 0..MaxPerIp /\ 0 \in 0..MaxLosses /\ 0 \in 0..MaxFailures
  BY ListenerAssumption
<1> QED
  BY <1>1 DEF Init, TypeOK

\* What the steps of the connection may do to a request: it goes on or is refused
\* while it waits for the connection.
Onwards ==
    \A r \in Requests :
        \/ request'[r] = request[r]
        \/ request[r] = "connecting" /\ request'[r] \in {"ready", "away"}

ListenerStep ==
    ConnectStep \/ ConnectOk \/ ConnectFails \/ ConnectionLost \/ EndSettled \/ TimerFires
    \/ Shutdown \/ ShutdownEnds

LEMMA ListenerMoves ==
    ASSUME TypeOK, ListenerStep
    PROVE  TypeOK' /\ Onwards /\ UNCHANGED <<saw, connected, byIp, overlapped>>
<1>0. losses \in 0..MaxLosses /\ failures \in 0..MaxFailures /\ MaxLosses \in Nat /\ MaxFailures \in Nat
  BY ListenerAssumption DEF TypeOK
<1>1. CASE ConnectStep
  BY <1>1 DEF ConnectStep, TypeOK, admission, Onwards
<1>2. CASE ConnectOk
  <2>1. served' \in BOOLEAN
    BY <1>2 DEF ConnectOk
  <2> QED
    BY <1>2, <2>1 DEF ConnectOk, TypeOK, Onwards
<1>3. CASE ConnectFails
  <2>1. timer' \in BOOLEAN /\ failures' \in 0..MaxFailures
    BY <1>0, <1>3 DEF ConnectFails, TypeOK
  <2> QED
    BY <1>3, <2>1 DEF ConnectFails, TypeOK, Onwards
<1>4. CASE ConnectionLost
  <2>1. losses' \in 0..MaxLosses
    BY <1>0, <1>4 DEF ConnectionLost
  <2> QED
    BY <1>4, <2>1 DEF ConnectionLost, TypeOK, admission, Onwards
<1>5. CASE EndSettled
  <2>1. timer' \in BOOLEAN
    BY <1>5 DEF EndSettled, TypeOK
  <2> QED
    BY <1>5, <2>1 DEF EndSettled, TypeOK, admission, Onwards
<1>6. CASE TimerFires
  <2>1. timerWaits' \in BOOLEAN /\ stopped' \in BOOLEAN /\ setup' \in {"none", "connect", "listen"}
    BY <1>6 DEF TimerFires, EnsureStarted, TypeOK
  <2> QED
    BY <1>6, <2>1 DEF TimerFires, TypeOK, admission, Onwards
<1>7. CASE Shutdown
  BY <1>7 DEF Shutdown, TypeOK, admission, Onwards
<1>8. CASE ShutdownEnds
  BY <1>8 DEF ShutdownEnds, TypeOK, admission, Onwards
<1> QED
  BY <1>1, <1>2, <1>3, <1>4, <1>5, <1>6, <1>7, <1>8 DEF ListenerStep

\* A stream is counted while it is open.  While no two handshakes, and no handshake
\* and a close, overlap, at most one request waits, and what it read still holds.
AdmissionInv ==
    /\ TypeOK /\ AdmissionExact
    /\ \A r \in Requests : request[r] = "open" <=> r \in connected
    /\ \A r \in Waiting : saw[r] < MaxPerIp
    /\ ~overlapped =>
        \A r \in Waiting : /\ \A q \in Waiting : q = r
                           /\ saw[r] = byIp[IpOf[r]]
                           /\ Cardinality(connected) < MaxConnections

LEMMA OpenFinite ==
    ASSUME TypeOK
    PROVE  /\ IsFiniteSet(connected) /\ Cardinality(connected) \in Nat
           /\ \A i \in Ips : IsFiniteSet(OfIp(i)) /\ Cardinality(OfIp(i)) \in Nat
<1>1. IsFiniteSet(connected)
  BY ListenerAssumption, FS_Subset DEF TypeOK
<1>2. ASSUME NEW i \in Ips PROVE IsFiniteSet(OfIp(i))
  <2>1. OfIp(i) \in SUBSET connected
    BY DEF OfIp
  <2> QED
    BY <1>1, <2>1, FS_Subset
<1> QED
  BY <1>1, <1>2, FS_CardinalityType

LEMMA AdmissionInit == Init => AdmissionInv
<1> SUFFICES ASSUME Init PROVE AdmissionInv
  OBVIOUS
<1>1. connected = {} /\ Waiting = {} /\ \A i \in Ips : byIp[i] = 0 /\ OfIp(i) = {}
  BY DEF Init, Waiting, OfIp
<1>2. Cardinality({}) = 0 /\ 0 <= MaxPerIp /\ 0 <= MaxConnections
  BY FS_EmptySet, ListenerAssumption
<1>3. AdmissionExact
  BY <1>1, <1>2 DEF AdmissionExact
<1> QED
  BY <1>1, <1>3, ListenerType DEF Init, AdmissionInv

LEMMA HandshakeStep ==
    ASSUME AdmissionInv, NEW r \in Requests, Handshake(r)
    PROVE  AdmissionInv'
<1>0. /\ TypeOK /\ MaxPerIp \in Nat /\ MaxConnections \in Nat
      /\ IpOf[r] \in Ips /\ byIp[IpOf[r]] \in 0..MaxPerIp
      /\ saw \in [Requests -> 0..MaxPerIp] /\ request \in [Requests -> {"away", "connecting", "ready", "open"}]
  BY ListenerAssumption DEF AdmissionInv, TypeOK
<1>1. /\ saw' = [saw EXCEPT ![r] = byIp[IpOf[r]]] /\ byIp[IpOf[r]] < MaxPerIp
      /\ request' = [request EXCEPT ![r] = IF client = "none" THEN "connecting" ELSE "ready"]
      /\ connected' = connected /\ byIp' = byIp /\ request[r] = "away"
      /\ Cardinality(connected) < MaxConnections
  BY DEF Handshake
<1>2. TypeOK'
  <2>1. saw' \in [Requests -> 0..MaxPerIp]
    BY <1>0, <1>1
  <2>2. intruded' \in BOOLEAN /\ overlapped' \in BOOLEAN /\ stopped' \in BOOLEAN /\ setup' \in {"none", "connect", "listen"}
    BY <1>0 DEF Handshake, EnsureStarted, TypeOK
  <2> QED
    BY <1>0, <2>1, <2>2 DEF Handshake, TypeOK
<1>3. overlapped' = (overlapped \/ Waiting # {})
  BY DEF Handshake
<1>4. ~overlapped' => ~overlapped /\ Waiting = {}
  BY <1>0, <1>3 DEF TypeOK
<1>5. AdmissionExact'
  BY <1>1, <1>4 DEF AdmissionInv, AdmissionExact, OfIp
<1>6. \A q \in Requests : /\ q # r => request'[q] = request[q] /\ saw'[q] = saw[q]
                          /\ q = r => request'[q] \in {"connecting", "ready"} /\ saw'[q] = byIp[IpOf[r]]
  BY <1>0, <1>1
<1>7. Waiting' = Waiting \cup {r}
  BY <1>0, <1>6 DEF Waiting
<1>8. \A q \in Requests : request'[q] = "open" <=> q \in connected'
  BY <1>1, <1>6 DEF AdmissionInv
<1>9. \A q \in Waiting' : saw'[q] < MaxPerIp
  BY <1>0, <1>1, <1>6, <1>7 DEF AdmissionInv, Waiting
<1>10. ~overlapped' => \A q \in Waiting' : q = r /\ saw'[q] = byIp'[IpOf[q]] /\ Cardinality(connected') < MaxConnections
  BY <1>1, <1>4, <1>6, <1>7
<1> QED
  BY <1>2, <1>5, <1>8, <1>9, <1>10 DEF AdmissionInv

\* What the count of an address says, when one of its streams opens or closes.
LEMMA CountOpen ==
    ASSUME TypeOK, NEW r \in Requests, r \notin connected, connected' = connected \cup {r}
    PROVE  /\ Cardinality(connected') = Cardinality(connected) + 1
           /\ \A i \in Ips : Cardinality(OfIp(i)') = Cardinality(OfIp(i)) + (IF i = IpOf[r] THEN 1 ELSE 0)
<1>1. Cardinality(connected') = Cardinality(connected) + 1
  BY OpenFinite, FS_AddElement
<1>2. ASSUME NEW i \in Ips
      PROVE  Cardinality(OfIp(i)') = Cardinality(OfIp(i)) + (IF i = IpOf[r] THEN 1 ELSE 0)
  <2>1. IsFiniteSet(OfIp(i)) /\ Cardinality(OfIp(i)) \in Nat /\ r \notin OfIp(i)
    BY OpenFinite DEF OfIp
  <2>2. CASE i = IpOf[r]
    <3>1. OfIp(i)' = OfIp(i) \cup {r}
      BY <2>2 DEF OfIp
    <3> QED
      BY <2>1, <2>2, <3>1, FS_AddElement
  <2>3. CASE i # IpOf[r]
    <3>1. OfIp(i)' = OfIp(i)
      BY <2>3 DEF OfIp
    <3> QED
      BY <2>1, <2>3, <3>1
  <2> QED
    BY <2>2, <2>3
<1> QED
  BY <1>1, <1>2

LEMMA CountClosed ==
    ASSUME TypeOK, NEW r \in connected, connected' = connected \ {r}
    PROVE  /\ Cardinality(connected') = Cardinality(connected) - 1
           /\ \A i \in Ips : Cardinality(OfIp(i)') = Cardinality(OfIp(i)) - (IF i = IpOf[r] THEN 1 ELSE 0)
<1>1. Cardinality(connected') = Cardinality(connected) - 1
  BY OpenFinite, FS_RemoveElement
<1>2. ASSUME NEW i \in Ips
      PROVE  Cardinality(OfIp(i)') = Cardinality(OfIp(i)) - (IF i = IpOf[r] THEN 1 ELSE 0)
  <2>1. IsFiniteSet(OfIp(i)) /\ Cardinality(OfIp(i)) \in Nat
    BY OpenFinite
  <2>2. CASE i = IpOf[r]
    <3>1. OfIp(i)' = OfIp(i) \ {r} /\ r \in OfIp(i)
      BY <2>2 DEF OfIp
    <3> QED
      BY <2>1, <2>2, <3>1, FS_RemoveElement
  <2>3. CASE i # IpOf[r]
    <3>1. OfIp(i)' = OfIp(i)
      BY <2>3 DEF OfIp
    <3> QED
      BY <2>1, <2>3, <3>1
  <2> QED
    BY <2>2, <2>3
<1> QED
  BY <1>1, <1>2

LEMMA AdmitStep ==
    ASSUME AdmissionInv, NEW r \in Requests, Admit(r)
    PROVE  AdmissionInv'
<1>0. /\ TypeOK /\ MaxPerIp \in Nat /\ MaxConnections \in Nat /\ r \in Waiting
      /\ IpOf[r] \in Ips /\ byIp \in [Ips -> 0..MaxPerIp] /\ saw[r] \in 0..MaxPerIp
      /\ saw \in [Requests -> 0..MaxPerIp] /\ request \in [Requests -> {"away", "connecting", "ready", "open"}]
  BY ListenerAssumption DEF AdmissionInv, TypeOK, Admit, Waiting
<1>1. /\ request[r] = "ready" /\ request' = [request EXCEPT ![r] = "open"]
      /\ connected' = connected \cup {r} /\ r \notin connected
      /\ byIp' = [byIp EXCEPT ![IpOf[r]] = saw[r] + 1]
      /\ saw' = saw
  BY DEF Admit, AdmissionInv
<1>2. saw[r] + 1 \in 0..MaxPerIp
  BY <1>0 DEF AdmissionInv
<1>3. TypeOK'
  <2>1. byIp' \in [Ips -> 0..MaxPerIp]
    BY <1>0, <1>1, <1>2
  <2> QED
    BY <1>0, <2>1 DEF Admit, TypeOK, listener
<1>4. Waiting' = Waiting \ {r}
  BY <1>0, <1>1 DEF Waiting
<1>5. (overlapped' <=> overlapped) /\ overlapped' \in BOOLEAN
  BY <1>0 DEF Admit, TypeOK
<1>6. ASSUME ~overlapped PROVE /\ \A i \in Ips : byIp'[i] = Cardinality(OfIp(i)') /\ byIp'[i] <= MaxPerIp
                               /\ Cardinality(connected') <= MaxConnections /\ Waiting' = {}
  <2>1. /\ Cardinality(connected') = Cardinality(connected) + 1
        /\ \A i \in Ips : Cardinality(OfIp(i)') = Cardinality(OfIp(i)) + (IF i = IpOf[r] THEN 1 ELSE 0)
    BY <1>0, <1>1, CountOpen
  <2>2. saw[r] = byIp[IpOf[r]] /\ Cardinality(connected) < MaxConnections /\ \A q \in Waiting : q = r
    BY <1>0, <1>6 DEF AdmissionInv
  <2>3. \A i \in Ips : byIp[i] = Cardinality(OfIp(i)) /\ byIp[i] \in 0..MaxPerIp
    BY <1>0, <1>6 DEF AdmissionInv, AdmissionExact
  <2>4. Cardinality(connected) \in Nat
    BY <1>0, OpenFinite
  <2>5. ASSUME NEW i \in Ips PROVE byIp'[i] = Cardinality(OfIp(i)') /\ byIp'[i] <= MaxPerIp
    BY <1>0, <1>1, <1>2, <2>1, <2>2, <2>3
  <2> QED
    BY <1>0, <1>4, <2>1, <2>2, <2>4, <2>5
<1>7. AdmissionExact'
  BY <1>5, <1>6 DEF AdmissionExact
<1>8. \A q \in Requests : request'[q] = "open" <=> q \in connected'
  BY <1>0, <1>1 DEF AdmissionInv
<1>9. \A q \in Waiting' : saw'[q] < MaxPerIp
  BY <1>1, <1>4 DEF AdmissionInv
<1> QED
  BY <1>3, <1>5, <1>6, <1>7, <1>8, <1>9 DEF AdmissionInv

LEMMA LeaveStep ==
    ASSUME AdmissionInv, NEW r \in Requests, Leave(r)
    PROVE  AdmissionInv'
<1>0. /\ TypeOK /\ MaxPerIp \in Nat /\ MaxConnections \in Nat
      /\ IpOf[r] \in Ips /\ byIp \in [Ips -> 0..MaxPerIp]
      /\ saw \in [Requests -> 0..MaxPerIp] /\ request \in [Requests -> {"away", "connecting", "ready", "open"}]
  BY ListenerAssumption DEF AdmissionInv, TypeOK
<1>1. /\ request[r] = "open" /\ request' = [request EXCEPT ![r] = "away"]
      /\ connected' = connected \ {r} /\ r \in connected
      /\ byIp' = [byIp EXCEPT ![IpOf[r]] = Released(byIp[IpOf[r]])]
      /\ saw' = [saw EXCEPT ![r] = 0] /\ overlapped' = (overlapped \/ Waiting # {})
  BY DEF Leave, AdmissionInv
<1>2. TypeOK'
  <2>1. Released(byIp[IpOf[r]]) \in 0..MaxPerIp
    BY <1>0 DEF Released
  <2>2. saw' \in [Requests -> 0..MaxPerIp] /\ overlapped' \in BOOLEAN /\ byIp' \in [Ips -> 0..MaxPerIp]
    BY <1>0, <1>1, <2>1
  <2> QED
    BY <1>0, <2>2 DEF Leave, TypeOK, listener
<1>3. ~overlapped' => ~overlapped /\ Waiting = {}
  BY <1>0, <1>1 DEF TypeOK
<1>4. Waiting' = Waiting /\ r \notin Waiting
  BY <1>0, <1>1 DEF Waiting
<1>5. ASSUME ~overlapped PROVE /\ \A i \in Ips : byIp'[i] = Cardinality(OfIp(i)') /\ byIp'[i] <= MaxPerIp
                               /\ Cardinality(connected') <= MaxConnections
  <2>1. /\ Cardinality(connected') = Cardinality(connected) - 1
        /\ \A i \in Ips : Cardinality(OfIp(i)') = Cardinality(OfIp(i)) - (IF i = IpOf[r] THEN 1 ELSE 0)
    BY <1>0, <1>1, CountClosed
  <2>2. /\ \A i \in Ips : byIp[i] = Cardinality(OfIp(i)) /\ byIp[i] \in 0..MaxPerIp
        /\ Cardinality(connected) <= MaxConnections
    BY <1>0, <1>5 DEF AdmissionInv, AdmissionExact
  <2>3. Cardinality(connected) \in Nat /\ Cardinality(OfIp(IpOf[r])) > 0
    <3>1. r \in OfIp(IpOf[r]) /\ IsFiniteSet(OfIp(IpOf[r])) /\ Cardinality(OfIp(IpOf[r])) \in Nat
      BY <1>0, <1>1, OpenFinite DEF OfIp
    <3>2. Cardinality(OfIp(IpOf[r])) # 0
      BY <3>1, FS_EmptySet
    <3> QED
      BY <1>0, <3>1, <3>2, OpenFinite
  <2>4. Released(byIp[IpOf[r]]) = byIp[IpOf[r]] - 1
    BY <1>0, <2>2, <2>3 DEF Released
  <2>5. ASSUME NEW i \in Ips PROVE byIp'[i] = Cardinality(OfIp(i)') /\ byIp'[i] <= MaxPerIp
    BY <1>0, <1>1, <2>1, <2>2, <2>4
  <2> QED
    BY <1>0, <2>1, <2>2, <2>3, <2>5
<1>6. AdmissionExact'
  BY <1>3, <1>5 DEF AdmissionExact
<1>7. \A q \in Requests : request'[q] = "open" <=> q \in connected'
  BY <1>0, <1>1 DEF AdmissionInv
<1>8. \A q \in Waiting' : saw'[q] < MaxPerIp
  BY <1>0, <1>1, <1>4 DEF AdmissionInv, Waiting
<1> QED
  BY <1>2, <1>3, <1>4, <1>6, <1>7, <1>8 DEF AdmissionInv

LEMMA AdmissionStep == AdmissionInv /\ [Next]_vars => AdmissionInv'
<1> SUFFICES ASSUME AdmissionInv, [Next]_vars PROVE AdmissionInv'
  OBVIOUS
<1>1. ASSUME TypeOK', Onwards, UNCHANGED <<saw, connected, byIp, overlapped>> PROVE AdmissionInv'
  <2>1. Waiting' \subseteq Waiting
    BY <1>1 DEF Onwards, Waiting
  <2>2. \A q \in Requests : request'[q] = "open" <=> q \in connected'
    BY <1>1 DEF Onwards, AdmissionInv
  <2>3. AdmissionExact'
    BY <1>1 DEF AdmissionInv, AdmissionExact, OfIp
  <2> QED
    BY <1>1, <2>1, <2>2, <2>3 DEF AdmissionInv
<1>2. CASE ListenerStep
  BY <1>1, <1>2, ListenerMoves DEF AdmissionInv
<1>3. CASE UNCHANGED vars
  <2>1. TypeOK' /\ Onwards /\ UNCHANGED <<saw, connected, byIp, overlapped>>
    BY <1>3 DEF vars, listener, admission, TypeOK, AdmissionInv, Onwards
  <2> QED
    BY <1>1, <2>1
<1> QED
  BY <1>2, <1>3, HandshakeStep, AdmitStep, LeaveStep DEF Next, ListenerStep

(***************************************************************************)
(* When no two handshakes, and no handshake and a close, overlap, the      *)
(* count of an address is the number of its open streams and both caps     *)
(* hold, whatever the listener does meanwhile, for every number of         *)
(* requests, addresses and every value of the caps (stream.ts 753-756,     *)
(* 814-846).                                                               *)
(***************************************************************************)
THEOREM AdmissionIsExact == Spec => []AdmissionExact
<1>1. AdmissionInv => AdmissionExact
  BY DEF AdmissionInv
<1> QED
  BY <1>1, AdmissionInit, AdmissionStep, PTL DEF Spec

-----------------------------------------------------------------------------
\* HistoryCache.

\* No copy of an empty history is kept, so a request that began after the first
\* loan finds none, and one that asks the database reads what is there by then.
HistoryInv ==
    /\ History!TypeOK
    /\ tx # "none" => history < MaxCommits
    /\ shared # History!Absent => shared.value > 0
    /\ \A a \in Apis : local[a] # History!Absent => local[a].value > 0
    /\ \A a \in Apis :
        /\ lookup[a].since <= history
        /\ lookup[a].step = "share" => lookup[a].value > 0
        /\ lookup[a].step \in {"set", "answered"} /\ lookup[a].since > 0 => lookup[a].value > 0

LEMMA HistoryConstants == TTL \in Nat \ {0} /\ MaxCommits \in Nat /\ MaxFaults \in Nat
  BY RecoveryAssumption

LEMMA HistoryInit == History!Init => HistoryInv
<1> SUFFICES ASSUME History!Init PROVE HistoryInv
  OBVIOUS
<1>1. /\ history = 0 /\ tx = "none" /\ shared = History!Absent
      /\ \A a \in Apis : local[a] = History!Absent /\ lookup[a] = History!Idle
  BY DEF History!Init
<1>2. History!Absent \in History!Entries /\ History!Idle \in History!Lookups /\ 0 \in History!Versions /\ 0 \in 0..MaxFaults
  BY HistoryConstants DEF History!Entries, History!Idle, History!Lookups, History!Versions
<1>3. History!TypeOK
  BY <1>2 DEF History!Init, History!TypeOK
<1> QED
  BY <1>1, <1>3, HistoryConstants DEF HistoryInv, History!Idle

\* What one request's step may do: only its own lookup and its process's copy change,
\* or the shared copy, and nothing empty is cached.
LEMMA LookupStep ==
    ASSUME HistoryInv, NEW a \in Apis, NEW l \in History!Lookups, lookup' = [lookup EXCEPT ![a] = l],
           l.since <= history, l.step = "share" => l.value > 0,
           l.step \in {"set", "answered"} /\ l.since > 0 => l.value > 0,
           shared' \in History!Entries, shared' # History!Absent => shared'.value > 0,
           local' \in [Apis -> History!Entries],
           \A b \in Apis : local'[b] # History!Absent => local'[b].value > 0,
           redisFaults' \in 0..MaxFaults, UNCHANGED <<history, tx, rebuilt>>
    PROVE  HistoryInv'
<1>1. lookup \in [Apis -> History!Lookups]
  BY DEF HistoryInv, History!TypeOK
<1>2. lookup' \in [Apis -> History!Lookups] /\ \A b \in Apis : lookup'[b] = IF b = a THEN l ELSE lookup[b]
  BY <1>1
<1>3. History!TypeOK'
  BY <1>2 DEF HistoryInv, History!TypeOK
<1> QED
  BY <1>2, <1>3 DEF HistoryInv

\* A step that leaves every lookup alone.
LEMMA FolderMove ==
    ASSUME HistoryInv, history' \in 0..MaxCommits, history <= history',
           tx' \in {"none", "changed", "invalidated"}, tx' # "none" => history' < MaxCommits,
           rebuilt' \in BOOLEAN, redisFaults' \in 0..MaxFaults,
           shared' \in History!Entries, shared' # History!Absent => shared'.value > 0,
           local' \in [Apis -> History!Entries],
           \A b \in Apis : local'[b] # History!Absent => local'[b].value > 0,
           lookup' = lookup
    PROVE  HistoryInv'
<1>1. History!TypeOK'
  BY DEF HistoryInv, History!TypeOK, History!Versions
<1>2. \A a \in Apis : lookup[a].since \in Nat /\ history \in Nat /\ history' \in Nat
  BY HistoryConstants DEF HistoryInv, History!TypeOK, History!Lookups, History!Versions
<1> QED
  BY <1>1, <1>2 DEF HistoryInv

LEMMA CachedMeans ==
    ASSUME NEW v \in History!Versions
    PROVE  /\ History!Cached(v) \in History!Entries
           /\ History!Cached(v) = History!Absent <=> v = 0
           /\ History!Cached(v) # History!Absent => History!Cached(v).value > 0
<1>1. TTL \in 1..TTL /\ v \in Nat
  BY HistoryConstants DEF History!Versions
<1> QED
  BY <1>1 DEF History!Cached, History!Entries, History!Absent

LEMMA AgedMeans ==
    ASSUME NEW e \in History!Entries, e # History!Absent => e.value > 0
    PROVE  /\ History!Aged(e) \in History!Entries
           /\ History!Aged(e) # History!Absent => History!Aged(e).value > 0
<1>1. CASE e = History!Absent
  BY <1>1 DEF History!Aged, History!Absent, History!Entries
<1>2. CASE e \in [value : History!Versions, left : 1..TTL] /\ e # History!Absent
  <2>1. e.left \in 1..TTL /\ e.value > 0 /\ TTL \in Nat
    BY <1>2, HistoryConstants
  <2>2. CASE e.left <= 1
    BY <2>2 DEF History!Aged, History!Entries
  <2>3. CASE ~(e.left <= 1)
    <3>1. History!Aged(e) = [e EXCEPT !.left = e.left - 1] /\ e.left - 1 \in 1..TTL
      BY <2>1, <2>3 DEF History!Aged
    <3> QED
      BY <1>2, <2>1, <3>1 DEF History!Entries
  <2> QED
    BY <2>2, <2>3
<1> QED
  BY <1>1, <1>2 DEF History!Entries

LEMMA HistoryRequests ==
    ASSUME HistoryInv, NEW a \in Apis,
           History!Begin(a) \/ History!RequestStep(a) \/ History!GetFails(a) \/ History!ShareFails(a)
    PROVE  HistoryInv'
<1>0. /\ lookup[a] \in History!Lookups /\ history \in History!Versions /\ history \in Nat
      /\ lookup[a].since \in Nat /\ lookup[a].value \in Nat
      /\ shared \in History!Entries /\ local \in [Apis -> History!Entries]
      /\ redisFaults \in 0..MaxFaults /\ MaxFaults \in Nat
  BY HistoryConstants DEF HistoryInv, History!TypeOK, History!Versions, History!Lookups
<1>1. /\ \A b \in Apis : local[b] # History!Absent => local[b].value > 0
      /\ shared # History!Absent => shared.value > 0
      /\ lookup[a].since <= history
      /\ lookup[a].step = "share" => lookup[a].value > 0
      /\ lookup[a].step \in {"set", "answered"} /\ lookup[a].since > 0 => lookup[a].value > 0
  BY DEF HistoryInv
<1>2. ASSUME NEW v \in History!Versions, lookup[a].since > 0 => v > 0, History!Answer(a, v),
             shared' \in History!Entries, shared' # History!Absent => shared'.value > 0, local' = local,
             redisFaults' \in 0..MaxFaults, UNCHANGED <<history, tx, rebuilt>>
      PROVE  HistoryInv'
  <2> DEFINE l == [lookup[a] EXCEPT !.step = "answered", !.value = v]
  <2>1. l \in History!Lookups /\ l.since = lookup[a].since /\ l.step = "answered" /\ l.value = v
    BY <1>0 DEF History!Lookups
  <2>2. lookup' = [lookup EXCEPT ![a] = l]
    BY <1>2 DEF History!Answer
  <2> HIDE DEF l
  <2> QED
    BY <1>0, <1>1, <1>2, <2>1, <2>2, LookupStep
<1>3. ASSUME NEW s \in {"query", "share"}, s = "share" => lookup[a].value > 0, lookup' = [lookup EXCEPT ![a].step = s],
             local' \in [Apis -> History!Entries], \A b \in Apis : local'[b] # History!Absent => local'[b].value > 0,
             shared' = shared, redisFaults' \in 0..MaxFaults, UNCHANGED <<history, tx, rebuilt>>
      PROVE  HistoryInv'
  <2> DEFINE l == [lookup[a] EXCEPT !.step = s]
  <2>1. l \in History!Lookups /\ l.since = lookup[a].since /\ l.step = s /\ l.value = lookup[a].value
    BY <1>0 DEF History!Lookups
  <2>2. lookup' = [lookup EXCEPT ![a] = l]
    BY <1>3
  <2> HIDE DEF l
  <2> QED
    BY <1>0, <1>1, <1>3, <2>1, <2>2, LookupStep
<1>4. ASSUME History!GetLocal(a), redisFaults' \in 0..MaxFaults, UNCHANGED <<history, tx, rebuilt, shared, local>>
      PROVE  HistoryInv'
  <2>1. CASE local[a] = History!Absent
    BY <1>0, <1>1, <1>3, <1>4, <2>1 DEF History!GetLocal
  <2>2. CASE local[a] # History!Absent
    <3>1. local[a].value \in History!Versions /\ local[a].value > 0
      BY <1>0, <1>1, <2>2 DEF History!Entries
    <3> QED
      BY <1>0, <1>1, <1>2, <1>4, <2>2, <3>1 DEF History!GetLocal
  <2> QED
    BY <2>1, <2>2
<1>4a. ASSUME NEW l \in History!Lookups, l.step \in {"idle", "get", "set"}, l.since <= history,
              l.step = "set" /\ l.since > 0 => l.value > 0, lookup' = [lookup EXCEPT ![a] = l],
              UNCHANGED <<history, tx, rebuilt, shared, local, redisFaults>>
       PROVE  HistoryInv'
  <2>1. /\ l.step = "share" => l.value > 0
        /\ l.step \in {"set", "answered"} /\ l.since > 0 => l.value > 0
    BY <1>4a
  <2>2. /\ shared' \in History!Entries /\ (shared' # History!Absent => shared'.value > 0)
        /\ local' \in [Apis -> History!Entries] /\ redisFaults' \in 0..MaxFaults
        /\ \A b \in Apis : local'[b] # History!Absent => local'[b].value > 0
    BY <1>0, <1>1, <1>4a
  <2> QED
    BY <1>4a, <2>1, <2>2, LookupStep
<1>5. CASE History!Begin(a)
  <2> DEFINE l == [step |-> "get", since |-> history, value |-> 0]
  <2>1. l \in History!Lookups /\ l.since = history /\ l.step = "get"
    BY <1>0, HistoryConstants DEF History!Lookups, History!Idle, History!Versions
  <2>2. lookup' = [lookup EXCEPT ![a] = l] /\ UNCHANGED <<history, tx, rebuilt, shared, local, redisFaults>>
    BY <1>5 DEF History!Begin
  <2> HIDE DEF l
  <2>3. l.step \in {"idle", "get", "set"} /\ l.since <= history /\ (l.step = "set" /\ l.since > 0 => l.value > 0)
    BY <1>0, <1>1, <2>1
  <2> QED
    BY <1>4a, <2>1, <2>2, <2>3
<1>6. CASE History!Get(a)
  <2>1. UNCHANGED <<history, tx, rebuilt, shared, local, redisFaults>>
    BY <1>6 DEF History!Get
  <2>2. CASE shared = History!Absent
    BY <1>0, <1>4, <1>6, <2>1, <2>2 DEF History!Get
  <2>3. CASE shared # History!Absent
    <3>1. shared.value \in History!Versions /\ shared.value > 0
      BY <1>0, <1>1, <2>3 DEF History!Entries
    <3> QED
      BY <1>0, <1>1, <1>2, <1>6, <2>1, <2>3, <3>1 DEF History!Get
  <2> QED
    BY <2>2, <2>3
<1>7. CASE History!Query(a)
  <2> DEFINE l == [lookup[a] EXCEPT !.step = "set", !.value = history]
  <2>1. l \in History!Lookups /\ l.since = lookup[a].since /\ l.step = "set" /\ l.value = history
    BY <1>0 DEF History!Lookups
  <2>2. lookup' = [lookup EXCEPT ![a] = l] /\ UNCHANGED <<history, tx, rebuilt, shared, local, redisFaults>>
    BY <1>7 DEF History!Query
  <2> HIDE DEF l
  <2>3. l.step \in {"idle", "get", "set"} /\ l.since <= history /\ (l.step = "set" /\ l.since > 0 => l.value > 0)
    BY <1>0, <1>1, <2>1
  <2> QED
    BY <1>4a, <2>1, <2>2, <2>3
<1>8. CASE History!Set(a)
  <2> DEFINE v == lookup[a].value
             e == History!Cached(v)
  <2>1. v \in History!Versions /\ UNCHANGED <<history, tx, rebuilt, shared, redisFaults>>
        /\ (lookup[a].since > 0 => v > 0)
    BY <1>0, <1>1, <1>8 DEF History!Set, History!Lookups
  <2>2. e \in History!Entries /\ (e = History!Absent <=> v = 0) /\ (e # History!Absent => e.value > 0)
    BY <2>1, CachedMeans
  <2>3. CASE e = History!Absent
    BY <1>0, <1>1, <1>2, <1>8, <2>1, <2>3 DEF History!Set
  <2>4. CASE e # History!Absent
    <3>1. local' = [local EXCEPT ![a] = e] /\ lookup' = [lookup EXCEPT ![a].step = "share"] /\ v > 0
      BY <1>0, <1>8, <2>2, <2>4 DEF History!Set
    <3>2. local' \in [Apis -> History!Entries] /\ \A b \in Apis : local'[b] # History!Absent => local'[b].value > 0
      BY <1>0, <1>1, <2>2, <2>4, <3>1
    <3> QED
      BY <1>0, <1>3, <2>1, <3>1, <3>2
  <2> QED
    BY <2>3, <2>4
<1>9. CASE History!Share(a)
  <2>1. lookup[a].value \in History!Versions
    BY <1>0 DEF History!Lookups
  <2>2. shared' \in History!Entries /\ (shared' # History!Absent => shared'.value > 0)
    BY <1>9, <2>1, CachedMeans DEF History!Share
  <2> QED
    BY <1>0, <1>1, <1>2, <1>9, <2>1, <2>2 DEF History!Share
<1>10. CASE History!Done(a)
  <2>1. History!Idle \in History!Lookups /\ History!Idle.since = 0 /\ History!Idle.step = "idle"
    BY <1>0, HistoryConstants DEF History!Lookups, History!Idle, History!Versions
  <2>2. lookup' = [lookup EXCEPT ![a] = History!Idle] /\ UNCHANGED <<history, tx, rebuilt, shared, local, redisFaults>>
    BY <1>10 DEF History!Done
  <2>3. History!Idle.since <= history
    BY <1>0, <2>1
  <2> QED
    BY <1>4a, <2>1, <2>2, <2>3
<1>11. CASE History!GetFails(a)
  BY <1>0, <1>4, <1>11 DEF History!GetFails
<1>12. CASE History!ShareFails(a)
  <2>1. lookup[a].value \in History!Versions
    BY <1>0 DEF History!Lookups
  <2> QED
    BY <1>0, <1>1, <1>2, <1>12, <2>1 DEF History!ShareFails
<1> QED
  BY <1>5, <1>6, <1>7, <1>8, <1>9, <1>10, <1>11, <1>12 DEF History!RequestStep

LEMMA HistoryFolder ==
    ASSUME HistoryInv, History!FolderStep \/ History!Tick \/ UNCHANGED History!vars
    PROVE  HistoryInv'
<1>0. /\ history \in 0..MaxCommits /\ MaxCommits \in Nat /\ redisFaults \in 0..MaxFaults /\ MaxFaults \in Nat
      /\ rebuilt \in BOOLEAN /\ tx \in {"none", "changed", "invalidated"} /\ (tx # "none" => history < MaxCommits)
      /\ shared \in History!Entries /\ local \in [Apis -> History!Entries] /\ History!Absent \in History!Entries
      /\ shared # History!Absent => shared.value > 0
      /\ \A b \in Apis : local[b] # History!Absent => local[b].value > 0
  BY HistoryConstants DEF HistoryInv, History!TypeOK, History!Versions, History!Entries
<1>1. CASE History!Increment
  BY <1>0, <1>1, FolderMove DEF History!Increment
<1>2. CASE History!Invalidate
  BY <1>0, <1>2, FolderMove DEF History!Invalidate
<1>3. CASE History!InvalidateFails
  BY <1>0, <1>3, FolderMove DEF History!InvalidateFails
<1>4. CASE History!Commit
  BY <1>0, <1>4, FolderMove DEF History!Commit
<1>5. CASE History!Rollback
  BY <1>0, <1>5, FolderMove DEF History!Rollback
<1>6. CASE History!Reindex
  BY <1>0, <1>6, FolderMove DEF History!Reindex
<1>7. CASE History!ReindexInvalidates
  <2>1. rebuilt' \in BOOLEAN
    BY <1>7 DEF History!ReindexInvalidates
  <2> QED
    BY <1>0, <1>7, <2>1, FolderMove DEF History!ReindexInvalidates
<1>8. CASE History!ReindexDies
  <2>1. rebuilt' \in BOOLEAN
    BY <1>8 DEF History!ReindexDies
  <2> QED
    BY <1>0, <1>8, <2>1, FolderMove DEF History!ReindexDies
<1>9. CASE History!Tick
  <2>1. /\ shared' = History!Aged(shared) /\ local' = [a \in Apis |-> History!Aged(local[a])]
        /\ UNCHANGED <<history, tx, rebuilt, lookup, redisFaults>>
    BY <1>9 DEF History!Tick
  <2>2. shared' \in History!Entries /\ (shared' # History!Absent => shared'.value > 0)
    BY <1>0, <2>1, AgedMeans
  <2>3. ASSUME NEW b \in Apis
        PROVE  local'[b] \in History!Entries /\ (local'[b] # History!Absent => local'[b].value > 0)
    BY <1>0, <2>1, AgedMeans
  <2>4. local' \in [Apis -> History!Entries]
    BY <2>1, <2>3
  <2> QED
    BY <1>0, <2>1, <2>2, <2>3, <2>4, FolderMove
<1>10. CASE UNCHANGED History!vars
  BY <1>0, <1>10, FolderMove DEF History!vars
<1> QED
  BY <1>1, <1>2, <1>3, <1>4, <1>5, <1>6, <1>7, <1>8, <1>9, <1>10 DEF History!FolderStep

(***************************************************************************)
(* A request that begins after the first loan was committed never answers  *)
(* an empty history, whatever other requests cached or were caching before *)
(* it, for every number of API processes, faults and commits               *)
(* (history-cache.ts, set: an empty array is not kept).                    *)
(***************************************************************************)
THEOREM HistoryNeverEmptyAgain == History!Spec => []NeverEmptyAgain
<1>1. HistoryInv /\ [History!Next]_History!vars => HistoryInv'
  BY HistoryRequests, HistoryFolder DEF History!Next
<1>2. HistoryInv => NeverEmptyAgain
  BY DEF HistoryInv, NeverEmptyAgain, History!NeverEmptyAgain
<1> QED
  BY <1>1, <1>2, HistoryInit, PTL DEF History!Spec

-----------------------------------------------------------------------------
\* StatsRoute.

InGate == {r \in Requests : query[r] # "idle"}

\* With one recomputation at a time, the request in the gate is alone, and what it
\* read is no older than the cached figures: nobody else can have written them since.
StatsInv ==
    /\ Stats!TypeOK
    /\ \A r \in Requests : figures[r] <= totals
    /\ statsCache # Stats!Nothing => statsCache.value <= totals
    /\ Limit = 1 =>
        \A r \in InGate :
            /\ active = 1 /\ \A q \in InGate : q = r
            /\ query[r] = "read" /\ statsCache # Stats!Nothing => statsCache.value <= figures[r]

LEMMA StatsConstants == Limit \in Nat /\ StatsTTL \in Nat /\ MaxChanges \in Nat
  BY RecoveryAssumption

LEMMA StatsInit == Stats!Init => StatsInv
<1> SUFFICES ASSUME Stats!Init PROVE StatsInv
  OBVIOUS
<1>1. InGate = {}
  BY DEF Stats!Init, InGate
<1>2. Stats!TypeOK
  BY StatsConstants DEF Stats!Init, Stats!TypeOK, Stats!Cached, Stats!Answers
<1> QED
  BY <1>1, <1>2 DEF Stats!Init, StatsInv

\* A request leaves the gate.
LEMMA GateLeft ==
    ASSUME StatsInv, NEW r \in InGate, Stats!LeaveGate(r), UNCHANGED <<totals, figures>>,
           statsCache' \in Stats!Cached, statsCache' # Stats!Nothing => statsCache'.value <= totals
    PROVE  StatsInv'
<1>0. r \in Requests /\ query \in [Requests -> {"idle", "entered", "read"}] /\ active \in 0..Limit /\ Limit \in Nat
  BY StatsConstants DEF StatsInv, Stats!TypeOK, InGate
<1>1. active' \in 0..Limit
  BY <1>0 DEF Stats!LeaveGate, Stats!Release
<1>2. query' \in [Requests -> {"idle", "entered", "read"}] /\ InGate' = InGate \ {r}
  BY <1>0 DEF Stats!LeaveGate, InGate
<1>3. Stats!TypeOK'
  BY <1>0, <1>1, <1>2 DEF StatsInv, Stats!TypeOK, Stats!LeaveGate, Stats!Answers
<1>4. Limit = 1 => InGate' = {}
  BY <1>2 DEF StatsInv
<1> QED
  BY <1>3, <1>4 DEF StatsInv

LEMMA StatsStep ==
    StatsInv /\ [Stats!Next]_Stats!vars =>
        /\ StatsInv'
        /\ Limit = 1 /\ statsCache # Stats!Nothing => statsCache'.value >= statsCache.value
<1> DEFINE Onward == Limit = 1 /\ statsCache # Stats!Nothing => statsCache'.value >= statsCache.value
<1> SUFFICES ASSUME StatsInv, [Stats!Next]_Stats!vars PROVE StatsInv' /\ Onward
  OBVIOUS
<1>0. /\ Stats!TypeOK /\ totals \in 0..MaxChanges /\ MaxChanges \in Nat /\ StatsTTL \in Nat /\ Limit \in Nat
      /\ active \in 0..Limit /\ statsCache \in Stats!Cached
      /\ query \in [Requests -> {"idle", "entered", "read"}] /\ figures \in [Requests -> 0..MaxChanges]
      /\ answer \in [Requests -> Stats!Answers]
  BY StatsConstants DEF StatsInv, Stats!TypeOK
<1>1. statsCache.value \in Nat
  BY <1>0 DEF Stats!Cached, Stats!Nothing
<1>2. statsCache' = statsCache => Onward
  BY <1>1
<1>3. CASE Stats!Change
  <2>1. totals' \in 0..MaxChanges /\ totals' = totals + 1
    BY <1>0, <1>3 DEF Stats!Change
  <2>2. UNCHANGED <<statsCache, active, query, figures, answer>>
    BY <1>3 DEF Stats!Change
  <2>3. Stats!TypeOK'
    BY <1>0, <2>1, <2>2 DEF Stats!TypeOK
  <2>4. \A r \in Requests : figures'[r] <= totals'
    BY <1>0, <2>1, <2>2 DEF StatsInv
  <2>5. statsCache' # Stats!Nothing => statsCache'.value <= totals'
    BY <1>0, <1>1, <2>1, <2>2 DEF StatsInv
  <2> QED
    BY <1>2, <2>2, <2>3, <2>4, <2>5 DEF StatsInv, InGate
<1>4. CASE Stats!Tick
  <2>1. /\ statsCache' = [statsCache EXCEPT !.left = statsCache.left - 1] /\ statsCache.left > 0
        /\ UNCHANGED <<totals, active, query, figures, answer>>
    BY <1>4 DEF Stats!Tick
  <2>2. statsCache # Stats!Nothing /\ statsCache \in [value : 0..MaxChanges, left : 0..StatsTTL]
    BY <1>0, <2>1 DEF Stats!Cached, Stats!Nothing
  <2>3. statsCache' \in Stats!Cached /\ statsCache'.value = statsCache.value
    BY <1>0, <2>1, <2>2 DEF Stats!Cached
  <2>4. Stats!TypeOK'
    BY <1>0, <2>1, <2>3 DEF Stats!TypeOK
  <2>5. InGate' = InGate
    BY <2>1 DEF InGate
  <2> QED
    BY <1>1, <2>1, <2>2, <2>3, <2>4, <2>5 DEF StatsInv
<1>5. ASSUME NEW r \in Requests, Stats!Hit(r) \/ Stats!Shed(r) PROVE StatsInv' /\ Onward
  <2>1. UNCHANGED <<totals, statsCache, active, query, figures>> /\ answer' \in [Requests -> Stats!Answers]
    BY <1>0, <1>5 DEF Stats!Hit, Stats!Shed, Stats!Answers
  <2>2. Stats!TypeOK'
    BY <1>0, <2>1 DEF Stats!TypeOK
  <2> QED
    BY <1>2, <2>1, <2>2 DEF StatsInv, InGate
<1>6. ASSUME NEW r \in Requests, Stats!Enter(r) PROVE StatsInv' /\ Onward
  <2>1. /\ query[r] = "idle" /\ active < Limit /\ active' = active + 1
        /\ query' = [query EXCEPT ![r] = "entered"] /\ UNCHANGED <<totals, statsCache, figures, answer>>
    BY <1>6 DEF Stats!Enter, Stats!tryAcquire
  <2>2. Stats!TypeOK'
    BY <1>0, <2>1 DEF Stats!TypeOK
  <2>3. Limit = 1 => InGate = {} /\ active' = 1
    BY <1>0, <2>1 DEF StatsInv
  <2>4. InGate' = InGate \cup {r} /\ query'[r] = "entered"
    BY <1>0, <2>1 DEF InGate
  <2> QED
    BY <1>2, <2>1, <2>2, <2>3, <2>4 DEF StatsInv
<1>7. ASSUME NEW r \in Requests, Stats!Read(r) PROVE StatsInv' /\ Onward
  <2>1. /\ query[r] = "entered" /\ query' = [query EXCEPT ![r] = "read"]
        /\ figures' = [figures EXCEPT ![r] = totals] /\ UNCHANGED <<totals, statsCache, active, answer>>
    BY <1>7 DEF Stats!Read
  <2>2. Stats!TypeOK'
    BY <1>0, <2>1 DEF Stats!TypeOK
  <2>3. InGate' = InGate /\ r \in InGate
    BY <1>0, <2>1 DEF InGate
  <2>4. figures'[r] = totals /\ \A q \in Requests : q # r => figures'[q] = figures[q]
    BY <1>0, <2>1
  <2>5. \A q \in Requests : figures'[q] <= totals'
    BY <1>0, <2>1, <2>4 DEF StatsInv
  <2>6. Limit = 1 => \A q \in InGate : q = r /\ active = 1
    BY <2>3 DEF StatsInv
  <2>7. statsCache # Stats!Nothing => statsCache.value <= figures'[r]
    BY <2>4 DEF StatsInv
  <2> QED
    BY <1>2, <2>1, <2>2, <2>3, <2>5, <2>6, <2>7 DEF StatsInv
<1>8. ASSUME NEW r \in Requests, Stats!Computed(r) PROVE StatsInv' /\ Onward
  <2>1. /\ query[r] = "read" /\ statsCache' = [value |-> figures[r], left |-> StatsTTL]
        /\ Stats!LeaveGate(r) /\ UNCHANGED <<totals, figures>>
    BY <1>8 DEF Stats!Computed
  <2>2. figures[r] \in 0..MaxChanges /\ StatsTTL \in 0..StatsTTL /\ figures[r] <= totals
    BY <1>0 DEF StatsInv
  <2>3. statsCache' \in Stats!Cached /\ statsCache'.value = figures[r]
    BY <2>1, <2>2 DEF Stats!Cached
  <2>4. r \in InGate
    BY <2>1 DEF InGate
  <2>5. StatsInv'
    BY <2>1, <2>2, <2>3, <2>4, GateLeft
  <2>6. Onward
    BY <1>1, <2>1, <2>2, <2>3, <2>4 DEF StatsInv
  <2> QED
    BY <2>5, <2>6
<1>9. ASSUME NEW r \in Requests, Stats!ComputeFails(r) PROVE StatsInv' /\ Onward
  <2>1. r \in InGate /\ Stats!LeaveGate(r) /\ UNCHANGED <<totals, statsCache, figures>>
    BY <1>9 DEF Stats!ComputeFails, InGate
  <2>2. statsCache' \in Stats!Cached /\ (statsCache' # Stats!Nothing => statsCache'.value <= totals)
    BY <1>0, <2>1 DEF StatsInv
  <2> QED
    BY <1>2, <2>1, <2>2, GateLeft
<1>10. CASE UNCHANGED Stats!vars
  BY <1>0, <1>2, <1>10 DEF Stats!vars, StatsInv, InGate, Stats!TypeOK
<1> QED
  BY <1>3, <1>4, <1>5, <1>6, <1>7, <1>8, <1>9, <1>10 DEF Stats!Next, Stats!Compute

(***************************************************************************)
(* With the default of one recomputation at a time the cached figures of   *)
(* GET /stats never go back to older ones, for every number of requests    *)
(* and every time to live (routes 1564-1606, load-shedding.ts 12-46).      *)
(***************************************************************************)
THEOREM StatsNeverGoBack == Stats!Spec => CacheNeverGoesBack
<1>1. StatsInv /\ [Stats!Next]_Stats!vars => StatsInv'
  BY StatsStep
<1>2. StatsInv /\ [Stats!Next]_Stats!vars =>
        [(Limit = 1 /\ statsCache # Stats!Nothing) => statsCache'.value >= statsCache.value]_Stats!vars
  BY StatsStep
<1> QED
  BY <1>1, <1>2, StatsInit, PTL DEF Stats!Spec, CacheNeverGoesBack, Stats!CacheNeverGoesBack
-----------------------------------------------------------------------------
\* The components side by side.

AlarmTheorems == INSTANCE ReorgProofs
CacheTheorems == INSTANCE CacheProofs WITH db <- members

\* Two instances of one module say the same.
LEMMA AlarmOperators ==
    /\ \A S : Alarm!Max(S) = AlarmTheorems!Max(S)
    /\ \A S : Alarm!Cardinality(S) = AlarmTheorems!Cardinality(S)
    /\ \A h : Alarm!HashAt(h) = AlarmTheorems!HashAt(h)
    /\ \A h : Alarm!LedgerHashAnswers(h) = AlarmTheorems!LedgerHashAnswers(h)
    /\ \A E : Alarm!FirstPage(E) = AlarmTheorems!FirstPage(E)
    /\ \A E, k : Alarm!NextToken(E, k) = AlarmTheorems!NextToken(E, k)
    /\ \A E : Alarm!Ingest(E) = AlarmTheorems!Ingest(E)
<1>1. \A S : Alarm!Max(S) = AlarmTheorems!Max(S)
  BY DEF Alarm!Max, AlarmTheorems!Max
<1>2. \A S : Alarm!Cardinality(S) = AlarmTheorems!Cardinality(S)
  BY DEF Alarm!Cardinality, AlarmTheorems!Cardinality
<1>3. \A h : Alarm!HashAt(h) = AlarmTheorems!HashAt(h)
  BY <1>1 DEF Alarm!HashAt, AlarmTheorems!HashAt, Alarm!LedgerOf, AlarmTheorems!LedgerOf, Alarm!Branch,
     AlarmTheorems!Branch
<1>4. \A h : Alarm!LedgerHashAnswers(h) = AlarmTheorems!LedgerHashAnswers(h)
  BY <1>3 DEF Alarm!LedgerHashAnswers, AlarmTheorems!LedgerHashAnswers, Alarm!NoHash, AlarmTheorems!NoHash
<1>5. \A E : Alarm!FirstPage(E) = AlarmTheorems!FirstPage(E)
  BY <1>2 DEF Alarm!FirstPage, AlarmTheorems!FirstPage
<1>6. \A E, k : Alarm!NextToken(E, k) = AlarmTheorems!NextToken(E, k)
  BY <1>1 DEF Alarm!NextToken, AlarmTheorems!NextToken
<1>7. \A E : Alarm!Ingest(E) = AlarmTheorems!Ingest(E)
  BY <1>3 DEF Alarm!Ingest, AlarmTheorems!Ingest, Alarm!Heights, AlarmTheorems!Heights, Alarm!NoHash,
     AlarmTheorems!NoHash
<1> QED
  BY <1>1, <1>2, <1>3, <1>4, <1>5, <1>6, <1>7

LEMMA AlarmInstance == Alarm!Spec => AlarmTheorems!Spec
<1>1. Alarm!Init => AlarmTheorems!Init
  BY DEF Alarm!Init, AlarmTheorems!Init, Alarm!Heights, AlarmTheorems!Heights, Alarm!Positions,
       AlarmTheorems!Positions, Alarm!Branches, AlarmTheorems!Branches, Alarm!NoHash,
       AlarmTheorems!NoHash, Alarm!Hashes, AlarmTheorems!Hashes, Alarm!CursorRows,
       AlarmTheorems!CursorRows, Alarm!NoCursor, AlarmTheorems!NoCursor, Alarm!Steps,
       AlarmTheorems!Steps, Alarm!PageOf, AlarmTheorems!PageOf, Alarm!NoPage, AlarmTheorems!NoPage,
       Alarm!Branch, AlarmTheorems!Branch
<1>2. ASSUME NEW e \in BOOLEAN, Alarm!Extend(e) PROVE AlarmTheorems!Extend(e)
  BY <1>2 DEF Alarm!Extend, AlarmTheorems!Extend, Alarm!polling, AlarmTheorems!polling
<1>3. ASSUME NEW kept \in 0..(Len(chain) - 1), Alarm!Fork(kept) PROVE AlarmTheorems!Fork(kept)
  BY <1>3 DEF Alarm!Fork, AlarmTheorems!Fork, Alarm!Branch, AlarmTheorems!Branch, Alarm!NoHash,
       AlarmTheorems!NoHash, Alarm!Heights, AlarmTheorems!Heights
<1>4. Alarm!Settle => AlarmTheorems!Settle
  BY DEF Alarm!Settle, AlarmTheorems!Settle, Alarm!polling, AlarmTheorems!polling
<1>5. Alarm!StartWorker => AlarmTheorems!StartWorker
  BY DEF Alarm!StartWorker, AlarmTheorems!StartWorker, Alarm!RefusesToResume,
       AlarmTheorems!RefusesToResume, Alarm!world, AlarmTheorems!world, Alarm!polling,
       AlarmTheorems!polling
<1>6. Alarm!LoadCursor => AlarmTheorems!LoadCursor
  BY DEF Alarm!LoadCursor, AlarmTheorems!LoadCursor, Alarm!world, AlarmTheorems!world, Alarm!polling,
       AlarmTheorems!polling
<1>7. Alarm!CheckTip => AlarmTheorems!CheckTip
  BY DEF Alarm!CheckTip, AlarmTheorems!CheckTip, Alarm!Lags, AlarmTheorems!Lags, Alarm!Known,
       AlarmTheorems!Known, Alarm!Rewound, AlarmTheorems!Rewound, Alarm!world, AlarmTheorems!world,
       Alarm!polling, AlarmTheorems!polling
<1>8. Alarm!CheckHash => AlarmTheorems!CheckHash
  BY AlarmOperators DEF Alarm!CheckHash, AlarmTheorems!CheckHash, Alarm!Lags, AlarmTheorems!Lags,
       Alarm!Known, AlarmTheorems!Known, Alarm!StartPositions, AlarmTheorems!StartPositions,
       Alarm!Diverged, AlarmTheorems!Diverged, Alarm!NoHash, AlarmTheorems!NoHash, Alarm!world,
       AlarmTheorems!world
<1>9. Alarm!GetPage => AlarmTheorems!GetPage
  <2>1. Alarm!Lags = AlarmTheorems!Lags /\ \A lag : Alarm!Known(lag) = AlarmTheorems!Known(lag)
    BY DEF Alarm!Lags, AlarmTheorems!Lags, Alarm!Known, AlarmTheorems!Known
  <2>2. /\ Alarm!Froms = AlarmTheorems!Froms
        /\ \A f, k : Alarm!ScanEnds(f, k) = AlarmTheorems!ScanEnds(f, k)
        /\ \A f, k : Alarm!EventsUpTo(f, k) = AlarmTheorems!EventsUpTo(f, k)
        /\ \A h : Alarm!BelowFold(h) <=> AlarmTheorems!BelowFold(h)
    BY DEF Alarm!Froms, AlarmTheorems!Froms, Alarm!ScanEnds, AlarmTheorems!ScanEnds, Alarm!EventsUpTo,
         AlarmTheorems!EventsUpTo, Alarm!BelowFold, AlarmTheorems!BelowFold
  <2>3. Alarm!Forget <=> AlarmTheorems!Forget
    BY DEF Alarm!Forget, AlarmTheorems!Forget, Alarm!NoCursor, AlarmTheorems!NoCursor, Alarm!NoPage,
         AlarmTheorems!NoPage, Alarm!NoHash, AlarmTheorems!NoHash
  <2>4. \A E, k, t : Alarm!IngestPage(E, k, t) => AlarmTheorems!IngestPage(E, k, t)
    BY <2>2, AlarmOperators, Zenon DEF Alarm!IngestPage, AlarmTheorems!IngestPage
  <2> QED
    BY <2>1, <2>2, <2>3, <2>4, AlarmOperators, Zenon
    DEF Alarm!GetPage, AlarmTheorems!GetPage, Alarm!world, AlarmTheorems!world
<1>10. Alarm!SaveCursor => AlarmTheorems!SaveCursor
  BY AlarmOperators DEF Alarm!SaveCursor, AlarmTheorems!SaveCursor, Alarm!PinnedHashes,
       AlarmTheorems!PinnedHashes, Alarm!Moved, AlarmTheorems!Moved, Alarm!FoldedLedger,
       AlarmTheorems!FoldedLedger, Alarm!Forget, AlarmTheorems!Forget, Alarm!NoCursor,
       AlarmTheorems!NoCursor, Alarm!NoPage, AlarmTheorems!NoPage, Alarm!NoHash, AlarmTheorems!NoHash,
       Alarm!world, AlarmTheorems!world
<1>11. Alarm!RecordHalt => AlarmTheorems!RecordHalt
  BY DEF Alarm!RecordHalt, AlarmTheorems!RecordHalt, Alarm!Forget, AlarmTheorems!Forget, Alarm!NoCursor,
       AlarmTheorems!NoCursor, Alarm!NoPage, AlarmTheorems!NoPage, Alarm!NoHash, AlarmTheorems!NoHash,
       Alarm!world, AlarmTheorems!world
<1>12. Alarm!RecordHaltFails => AlarmTheorems!RecordHaltFails
  BY DEF Alarm!RecordHaltFails, AlarmTheorems!RecordHaltFails, Alarm!Forget, AlarmTheorems!Forget,
       Alarm!NoCursor, AlarmTheorems!NoCursor, Alarm!NoPage, AlarmTheorems!NoPage, Alarm!NoHash,
       AlarmTheorems!NoHash, Alarm!world, AlarmTheorems!world, Alarm!polling, AlarmTheorems!polling
<1>13. Alarm!PollFails => AlarmTheorems!PollFails
  BY DEF Alarm!PollFails, AlarmTheorems!PollFails, Alarm!Forget, AlarmTheorems!Forget, Alarm!NoCursor,
       AlarmTheorems!NoCursor, Alarm!NoPage, AlarmTheorems!NoPage, Alarm!NoHash, AlarmTheorems!NoHash,
       Alarm!world, AlarmTheorems!world, Alarm!polling, AlarmTheorems!polling
<1>14. Alarm!Die => AlarmTheorems!Die
  BY DEF Alarm!Die, AlarmTheorems!Die, Alarm!Forget, AlarmTheorems!Forget, Alarm!NoCursor,
       AlarmTheorems!NoCursor, Alarm!NoPage, AlarmTheorems!NoPage, Alarm!NoHash, AlarmTheorems!NoHash,
       Alarm!world, AlarmTheorems!world, Alarm!polling, AlarmTheorems!polling
<1>15. Alarm!ClearReorg => AlarmTheorems!ClearReorg
  BY DEF Alarm!ClearReorg, AlarmTheorems!ClearReorg, Alarm!world, AlarmTheorems!world
<1>16. Alarm!Reindex => AlarmTheorems!Reindex
  BY DEF Alarm!Reindex, AlarmTheorems!Reindex, Alarm!world, AlarmTheorems!world
<1>17. [Alarm!Next]_Alarm!vars => [AlarmTheorems!Next]_AlarmTheorems!vars
  BY <1>2, <1>3, <1>4, <1>5, <1>6, <1>7, <1>8, <1>9, <1>10, <1>11, <1>12, <1>13, <1>14, <1>15, <1>16
  DEF Alarm!Next, AlarmTheorems!Next, Alarm!Poll, AlarmTheorems!Poll, Alarm!vars, AlarmTheorems!vars
<1> QED
  BY <1>1, <1>17, PTL DEF Alarm!Spec, AlarmTheorems!Spec

LEMMA CacheInstance == Cache!Spec => CacheTheorems!Spec
<1>1. Cache!Init => CacheTheorems!Init
  BY DEF Cache!Init, CacheTheorems!Init, Cache!Folders, CacheTheorems!Folders,
       Cache!membersListCacheKey, CacheTheorems!membersListCacheKey, Cache!memberSummaryCacheKey,
       CacheTheorems!memberSummaryCacheKey, Cache!ListKeys, CacheTheorems!ListKeys, Cache!Keys,
       CacheTheorems!Keys, Cache!Absent, CacheTheorems!Absent, Cache!Idle, CacheTheorems!Idle
<1>2. [Cache!Next]_Cache!vars => [CacheTheorems!Next]_CacheTheorems!vars
  BY DEF Cache!Next, CacheTheorems!Next, Cache!vars, CacheTheorems!vars, Cache!Folders,
       CacheTheorems!Folders, Cache!membersListCacheKey, CacheTheorems!membersListCacheKey,
       Cache!memberSummaryCacheKey, CacheTheorems!memberSummaryCacheKey, Cache!ListKeys,
       CacheTheorems!ListKeys, Cache!Keys, CacheTheorems!Keys, Cache!Absent, CacheTheorems!Absent,
       Cache!Idle, CacheTheorems!Idle, Cache!Symbols, CacheTheorems!Symbols, Cache!MembersChannel,
       CacheTheorems!MembersChannel, Cache!Event, CacheTheorems!Event, Cache!Changes,
       CacheTheorems!Changes, Cache!Scan, CacheTheorems!Scan, Cache!DelList, CacheTheorems!DelList,
       Cache!DelSummary, CacheTheorems!DelSummary, Cache!Notify, CacheTheorems!Notify,
       Cache!AfterHit, CacheTheorems!AfterHit, Cache!Hit, CacheTheorems!Hit, Cache!Miss,
       CacheTheorems!Miss, Cache!Fetch, CacheTheorems!Fetch, Cache!Set, CacheTheorems!Set,
       Cache!SetFails, CacheTheorems!SetFails, Cache!Aged, CacheTheorems!Aged, Cache!Tick,
       CacheTheorems!Tick, Cache!AfterPage, CacheTheorems!AfterPage, Cache!AfterReplay,
       CacheTheorems!AfterReplay, Cache!AfterReindex, CacheTheorems!AfterReindex, Cache!WillDelete,
       CacheTheorems!WillDelete, Cache!Commit, CacheTheorems!Commit, Cache!Raised,
       CacheTheorems!Raised, Cache!Emitted, CacheTheorems!Emitted, Cache!FoldEvent,
       CacheTheorems!FoldEvent, Cache!ReplayEvent, CacheTheorems!ReplayEvent, Cache!Reindex,
       CacheTheorems!Reindex, Cache!Matching, CacheTheorems!Matching, Cache!Delete,
       CacheTheorems!Delete, Cache!DoJob, CacheTheorems!DoJob, Cache!Skipped, CacheTheorems!Skipped,
       Cache!Lose, CacheTheorems!Lose, Cache!JobFails, CacheTheorems!JobFails, Cache!Crash,
       CacheTheorems!Crash
<1> QED
  BY <1>1, <1>2, PTL DEF Cache!Spec, CacheTheorems!Spec

LEMMA ComponentsImplied == RecoverySpec => Spec /\ Alarm!Spec /\ Cache!Spec /\ History!Spec /\ Stats!Spec
<1> DEFINE all == <<vars, alarmVars, cacheVars, historyVars, statsVars, subject>>
<1>1. RecoveryInit => Init /\ Alarm!Init /\ Cache!Init /\ History!Init /\ Stats!Init
  BY DEF RecoveryInit
<1>2. [RecoveryNext]_all => [Next]_vars
  BY DEF RecoveryNext
<1>3. [RecoveryNext]_all => [Alarm!Next]_Alarm!vars
  BY DEF RecoveryNext, alarmVars, Alarm!vars
<1>4. [RecoveryNext]_all => [Cache!Next]_Cache!vars
  BY DEF RecoveryNext, cacheVars, Cache!vars
<1>5. [RecoveryNext]_all => [History!Next]_History!vars
  BY DEF RecoveryNext, historyVars, History!vars
<1>6. [RecoveryNext]_all => [Stats!Next]_Stats!vars
  BY DEF RecoveryNext, statsVars, Stats!vars
<1> QED
  BY <1>1, <1>2, <1>3, <1>4, <1>5, <1>6, PTL
  DEF RecoverySpec, Spec, Alarm!Spec, Cache!Spec, History!Spec, Stats!Spec

(***************************************************************************)
(* The types of the listener, the worker, the caches and the figures in    *)
(* every state of the composition, for every set of requests, chain, time  *)
(* to live and number of faults.                                           *)
(***************************************************************************)
THEOREM RecoveryTypeCorrect == RecoverySpec => []RecoveryTypeOK
<1>1. Spec => []TypeOK
  <2>1. AdmissionInv => TypeOK
    BY DEF AdmissionInv
  <2> QED
    BY <2>1, AdmissionInit, AdmissionStep, PTL DEF Spec
<1>2. History!Spec => []History!TypeOK
  <2>1. HistoryInv => History!TypeOK
    BY DEF HistoryInv
  <2>2. HistoryInv /\ [History!Next]_History!vars => HistoryInv'
    BY HistoryRequests, HistoryFolder DEF History!Next
  <2> QED
    BY <2>1, <2>2, HistoryInit, PTL DEF History!Spec
<1>3. Stats!Spec => []Stats!TypeOK
  <2>1. StatsInv => Stats!TypeOK
    BY DEF StatsInv
  <2>2. StatsInv /\ [Stats!Next]_Stats!vars => StatsInv'
    BY StatsStep
  <2> QED
    BY <2>1, <2>2, StatsInit, PTL DEF Stats!Spec
<1>4. AlarmTheorems!Spec => []AlarmTheorems!TypeOK
  BY RecoveryAssumption, AlarmTheorems!ReorgTypeCorrect
<1>5. AlarmTheorems!TypeOK => Alarm!TypeOK
  BY DEF Alarm!TypeOK, AlarmTheorems!TypeOK, Alarm!Heights, AlarmTheorems!Heights, Alarm!Positions,
       AlarmTheorems!Positions, Alarm!Branches, AlarmTheorems!Branches, Alarm!NoHash,
       AlarmTheorems!NoHash, Alarm!Hashes, AlarmTheorems!Hashes, Alarm!CursorRows,
       AlarmTheorems!CursorRows, Alarm!NoCursor, AlarmTheorems!NoCursor, Alarm!Steps,
       AlarmTheorems!Steps, Alarm!PageOf, AlarmTheorems!PageOf, Alarm!NoPage, AlarmTheorems!NoPage,
       Alarm!Branch, AlarmTheorems!Branch
<1>6. CacheTheorems!Spec => []CacheTheorems!TypeOK
  BY RecoveryAssumption, CacheTheorems!CacheTypeCorrect
<1>7. CacheTheorems!TypeOK => Cache!TypeOK
  BY DEF Cache!TypeOK, CacheTheorems!TypeOK, Cache!Folders, CacheTheorems!Folders,
       Cache!membersListCacheKey, CacheTheorems!membersListCacheKey, Cache!memberSummaryCacheKey,
       CacheTheorems!memberSummaryCacheKey, Cache!ListKeys, CacheTheorems!ListKeys, Cache!Keys,
       CacheTheorems!Keys, Cache!Absent, CacheTheorems!Absent, Cache!Versions, CacheTheorems!Versions,
       Cache!Entries, CacheTheorems!Entries, Cache!Idle, CacheTheorems!Idle, Cache!Lookups,
       CacheTheorems!Lookups, Cache!Ops, CacheTheorems!Ops
<1> QED
  BY <1>1, <1>2, <1>3, <1>4, <1>5, <1>6, <1>7, AlarmInstance, CacheInstance, ComponentsImplied, PTL
  DEF RecoveryTypeOK

(***************************************************************************)
(* What holds of each component alone holds of them side by side: the      *)
(* admission counts stay exact, a history never turns empty again, and the *)
(* figures never go back (stream.ts 814-846, history-cache.ts 50-79,       *)
(* routes 1564-1606).                                                      *)
(***************************************************************************)
THEOREM RecoverySafe == RecoverySpec => []AdmissionExact /\ []NeverEmptyAgain /\ CacheNeverGoesBack
<1> QED
  BY ComponentsImplied, AdmissionIsExact, HistoryNeverEmptyAgain, StatsNeverGoBack, PTL
=============================================================================
