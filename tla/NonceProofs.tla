---------------------------- MODULE NonceProofs -----------------------------
(***************************************************************************)
(* The nonce stores (MemoryNonces, PostgresNonces), for every capacity,    *)
(* time to live and number of concurrent challenges: the counts of the     *)
(* in-memory store, the overshoot of the table, and that both implement    *)
(* NonceStore.                                                             *)
(***************************************************************************)
EXTENDS Serving, FiniteSetTheorems, TLAPS

-----------------------------------------------------------------------------
\* Cardinalities.

\* The size of what is left when a part is taken out.
LEMMA CardRest ==
    ASSUME NEW S, IsFiniteSet(S), NEW T, T \subseteq S
    PROVE  /\ IsFiniteSet(S \ T) /\ IsFiniteSet(T)
           /\ Cardinality(S) \in Nat /\ Cardinality(T) \in Nat
           /\ Cardinality(S \ T) = Cardinality(S) - Cardinality(T)
           /\ Cardinality(T) <= Cardinality(S)
<1>1. S \cap T = T
  OBVIOUS
<1>2. QED
  BY <1>1, FS_Difference, FS_Subset, FS_CardinalityType

\* Adding and removing one element.
LEMMA CardOne ==
    ASSUME NEW S, IsFiniteSet(S), NEW x
    PROVE  /\ Cardinality(S) \in Nat
           /\ IsFiniteSet(S \cup {x}) /\ IsFiniteSet(S \ {x})
           /\ x \notin S => Cardinality(S \cup {x}) = Cardinality(S) + 1
           /\ x \in S => Cardinality(S \ {x}) = Cardinality(S) - 1 /\ Cardinality(S) > 0
<1>1. Cardinality(S) \in Nat
  BY FS_CardinalityType
<1>2. x \in S => Cardinality(S) # 0
  BY FS_EmptySet
<1>3. QED
  BY <1>1, <1>2, FS_AddElement, FS_RemoveElement

-----------------------------------------------------------------------------
\* The in-memory store.

\* Type correctness of the in-memory store.
LEMMA MemoryType == Init => TypeOK
<1> SUFFICES ASSUME Init PROVE TypeOK
  OBVIOUS
<1>1. 0 \in 0..MaxTime /\ 0 \in 0..(MaxTime + Ttl)
  BY MemoryAssumption
<1>2. accepted \in [Nonces \X Addresses -> Nat]
  BY DEF Init
<1> QED
  BY <1>1, <1>2 DEF Init, TypeOK

LEMMA MemoryTypeStep == TypeOK /\ [Next]_vars => TypeOK'
<1> SUFFICES ASSUME TypeOK, [Next]_vars PROVE TypeOK'
  OBVIOUS
<1>1. CASE Tick
  BY <1>1, MemoryAssumption DEF TypeOK, Tick
<1>2. ASSUME NEW a \in Addresses, NEW n \in Nonces, Issue(a, n) PROVE TypeOK'
  BY <1>2, MemoryAssumption DEF TypeOK, Issue
<1>3. ASSUME NEW a \in Addresses, NEW n \in Nonces, Consume(a, n) PROVE TypeOK'
  <2>1. accepted' \in [Nonces \X Addresses -> Nat]
    BY <1>3 DEF TypeOK, Consume
  <2>2. store' \subseteq Nonces /\ crossed' \in BOOLEAN
    BY <1>3 DEF TypeOK, Consume, AfterUse
  <2>3. counts' \in [Addresses -> Nat]
    BY <1>3 DEF TypeOK, Consume, OneLess
  <2> QED
    BY <1>3, <2>1, <2>2, <2>3 DEF TypeOK, Consume
<1>4. CASE Sweep
  <2>1. \A a \in Addresses : Cardinality(Of({n \in store : Expired(n)}, a)) \in Nat
    <3> TAKE a \in Addresses
    <3> DEFINE T == Of({n \in store : Expired(n)}, a)
    <3>1. IsFiniteSet(T)
      BY MemoryAssumption, FS_Subset DEF TypeOK, Of
    <3> QED
      BY <3>1, FS_CardinalityType
  <2>2. \A a \in Addresses : SweptCount(a, {n \in store : Expired(n)}) \in Nat
    BY <2>1 DEF SweptCount, TypeOK
  <2> QED
    BY <1>4, <2>2 DEF TypeOK, Sweep
<1>5. CASE Restart
  BY <1>5 DEF TypeOK, Restart
<1>6. CASE UNCHANGED vars
  BY <1>6 DEF TypeOK, vars
<1> QED
  BY <1>1, <1>2, <1>3, <1>4, <1>5, <1>6 DEF Next

\* What ties the map to the history: a nonce was issued to one address at most,
\* one in the map was issued, and one that was accepted is its own address's and
\* has left the map.
MemoryInv ==
    /\ TypeOK
    /\ \A n \in Nonces : \A a, b \in address[n] : a = b
    /\ \A n \in store : address[n] # {}
    /\ \A n \in Nonces, a \in Addresses :
          accepted[<<n, a>>] > 0 => n \notin store /\ a \in address[n]

LEMMA MemoryInvInit == Init => MemoryInv
  BY MemoryType DEF Init, MemoryInv

LEMMA MemoryInvStep == MemoryInv /\ [Next]_vars => MemoryInv'
<1> SUFFICES ASSUME MemoryInv, [Next]_vars PROVE MemoryInv'
  OBVIOUS
<1>0. TypeOK /\ TypeOK'
  BY MemoryTypeStep DEF MemoryInv
<1>1. CASE Tick
  BY <1>0, <1>1 DEF MemoryInv, Tick
<1>2. ASSUME NEW a \in Addresses, NEW n \in Nonces, Issue(a, n) PROVE MemoryInv'
  <2>1. /\ accepted' = accepted /\ store' = store \cup {n}
        /\ address'[n] = {a} /\ \A m \in Nonces : m # n => address'[m] = address[m]
    BY <1>0, <1>2 DEF Issue, TypeOK
  <2>2. \A b \in Addresses : ~(accepted[<<n, b>>] > 0)
    BY <1>2 DEF MemoryInv, Issue
  <2>3. \A m \in Nonces : \A b, c \in address'[m] : b = c
    BY <2>1 DEF MemoryInv
  <2>4. \A m \in store' : address'[m] # {}
    BY <1>0, <2>1 DEF MemoryInv, TypeOK
  <2>5. \A m \in Nonces, b \in Addresses :
            accepted'[<<m, b>>] > 0 => m \notin store' /\ b \in address'[m]
    <3> SUFFICES ASSUME NEW m \in Nonces, NEW b \in Addresses, accepted[<<m, b>>] > 0
                 PROVE  m \notin store' /\ b \in address'[m]
      BY <2>1
    <3>1. m # n /\ m \notin store /\ b \in address[m]
      BY <2>2 DEF MemoryInv
    <3> QED
      BY <2>1, <3>1
  <2> QED
    BY <1>0, <2>3, <2>4, <2>5 DEF MemoryInv
<1>3. ASSUME NEW a \in Addresses, NEW n \in Nonces, Consume(a, n) PROVE MemoryInv'
  <2>1. address' = address /\ store' = store \ {n}
    BY <1>3 DEF Consume, AfterUse
  <2>2. \A m \in Nonces, b \in Addresses :
            accepted'[<<m, b>>] > 0 => accepted[<<m, b>>] > 0 \/ (m = n /\ b = a /\ a \in address[n])
    <3>1. \/ accepted' = accepted
          \/ a \in address[n] /\ accepted' = [accepted EXCEPT ![<<n, a>>] = @ + 1]
      BY <1>3 DEF Consume
    <3>2. accepted \in [Nonces \X Addresses -> Nat]
      BY <1>0 DEF TypeOK
    <3>3. ASSUME NEW m \in Nonces, NEW b \in Addresses, <<m, b>> # <<n, a>>
          PROVE  accepted'[<<m, b>>] = accepted[<<m, b>>]
      <4>1. <<m, b>> \in Nonces \X Addresses
        OBVIOUS
      <4> QED
        BY <3>1, <3>2, <3>3, <4>1
    <3> QED
      BY <3>1, <3>3
  <2> QED
    BY <1>0, <2>1, <2>2 DEF MemoryInv, TypeOK
<1>4. CASE Sweep
  BY <1>0, <1>4 DEF MemoryInv, Sweep
<1>5. CASE Restart
  BY <1>0, <1>5 DEF MemoryInv, Restart
<1>6. CASE UNCHANGED vars
  BY <1>0, <1>6 DEF MemoryInv, vars
<1> QED
  BY <1>1, <1>2, <1>3, <1>4, <1>5, <1>6 DEF Next

\* The outstanding nonces of an address are finitely many.
LEMMA OfFinite ==
    ASSUME TypeOK, NEW S \in SUBSET Nonces, NEW a
    PROVE  /\ IsFiniteSet(S) /\ IsFiniteSet(Of(S, a))
           /\ Cardinality(S) \in Nat /\ Cardinality(Of(S, a)) \in Nat
<1>1. IsFiniteSet(S)
  BY MemoryAssumption, FS_Subset
<1>2. Of(S, a) \in SUBSET S
  BY DEF Of
<1> QED
  BY <1>1, <1>2, FS_Subset, FS_CardinalityType

LEMMA CountsExactStep == MemoryInv /\ CountsExact /\ [Next]_vars => CountsExact'
<1> SUFFICES ASSUME MemoryInv, CountsExact, [Next]_vars, ~crossed' PROVE CountsExact'
  BY DEF CountsExact
<1>0. TypeOK /\ TypeOK' /\ MaxPerAddress \in Nat /\ MaxEntries \in Nat
  BY MemoryTypeStep, MemoryAssumption DEF MemoryInv
<1>a. IsFiniteSet(store) /\ \A b \in Addresses : IsFiniteSet(Of(store, b)) /\ Cardinality(Of(store, b)) \in Nat
  BY <1>0, OfFinite DEF TypeOK
<1>1. CASE Tick
  BY <1>1 DEF CountsExact, Of, Tick
<1>2. ASSUME NEW a \in Addresses, NEW n \in Nonces, Issue(a, n) PROVE CountsExact'
  <2>1. ~crossed /\ n \notin store /\ store' = store \cup {n}
    BY <1>0, <1>2 DEF Issue, MemoryInv
  <2>2. /\ Of(store, a)' = Of(store, a) \cup {n} /\ n \notin Of(store, a)
        /\ \A b \in Addresses : b # a => Of(store, b)' = Of(store, b)
    BY <1>0, <1>2, <2>1 DEF Issue, Of, TypeOK
  <2>3. Cardinality(Of(store, a)') = Cardinality(Of(store, a)) + 1
    BY <2>2, <1>a, CardOne
  <2>4. Cardinality(store') = Cardinality(store) + 1 /\ Cardinality(store) \in Nat
    BY <2>1, <1>a, CardOne
  <2>5. /\ counts'[a] = counts[a] + 1 /\ counts[a] < MaxPerAddress /\ Cardinality(store) < MaxEntries
        /\ \A b \in Addresses : b # a => counts'[b] = counts[b]
    BY <1>0, <1>2 DEF Issue, MayIssue, TypeOK
  <2>6. ASSUME NEW b \in Addresses
        PROVE  counts'[b] = Cardinality(Of(store, b)') /\ counts'[b] <= MaxPerAddress
    <3>1. counts[b] = Cardinality(Of(store, b)) /\ counts[b] <= MaxPerAddress /\ counts[b] \in Nat
      BY <1>0, <2>1 DEF CountsExact, TypeOK
    <3>2. CASE b = a
      BY <1>0, <2>3, <2>5, <3>1, <3>2
    <3>3. CASE b # a
      BY <2>2, <2>5, <3>1, <3>3
    <3> QED
      BY <3>2, <3>3
  <2> QED
    BY <1>0, <2>4, <2>5, <2>6 DEF CountsExact
<1>3. ASSUME NEW a \in Addresses, NEW n \in Nonces, Consume(a, n) PROVE CountsExact'
  <2>1. ~crossed /\ n \in store /\ store' = store \ {n} /\ address' = address /\ a \in address[n]
    <3>1. n \in store /\ store' = store \ {n} /\ address' = address
      BY <1>3 DEF Consume, AfterUse
    <3>2. \/ crossed' = (crossed \/ a \notin address[n])
          \/ crossed' = crossed /\ a \in address[n]
      BY <1>3 DEF Consume
    <3>3. crossed \in BOOLEAN /\ crossed' \in BOOLEAN
      BY <1>0 DEF TypeOK
    <3> QED
      BY <3>1, <3>2, <3>3
  <2>2. \A b \in Addresses : b # a => b \notin address[n]
    BY <2>1, <1>0 DEF MemoryInv
  <2>3. /\ Of(store, a)' = Of(store, a) \ {n} /\ n \in Of(store, a)
        /\ \A b \in Addresses : b # a => Of(store, b)' = Of(store, b)
    BY <2>1, <2>2 DEF Of
  <2>4. Cardinality(Of(store, a)') = Cardinality(Of(store, a)) - 1 /\ Cardinality(Of(store, a)) > 0
    BY <2>3, <1>a, CardOne
  <2>5. Cardinality(store') = Cardinality(store) - 1 /\ Cardinality(store) \in Nat
    BY <2>1, <1>a, CardOne
  <2>6. /\ counts'[a] = OneLess(counts[a])
        /\ \A b \in Addresses : b # a => counts'[b] = counts[b]
    BY <1>0, <1>3 DEF Consume, TypeOK
  <2>7. ASSUME NEW b \in Addresses
        PROVE  counts'[b] = Cardinality(Of(store, b)') /\ counts'[b] <= MaxPerAddress
    <3>1. counts[b] = Cardinality(Of(store, b)) /\ counts[b] <= MaxPerAddress /\ counts[b] \in Nat
      BY <1>0, <2>1 DEF CountsExact, TypeOK
    <3>2. CASE b = a
      BY <1>0, <2>4, <2>6, <3>1, <3>2 DEF OneLess
    <3>3. CASE b # a
      BY <2>3, <2>6, <3>1, <3>3
    <3> QED
      BY <3>2, <3>3
  <2> QED
    BY <1>0, <2>1, <2>5, <2>7 DEF CountsExact
<1>4. CASE Sweep
  <2> DEFINE swept == {n \in store : Expired(n)}
  <2>1. ~crossed /\ store' = store \ swept /\ address' = address /\ swept \subseteq store
    BY <1>4 DEF Sweep
  <2>2. Cardinality(store') <= Cardinality(store) /\ Cardinality(store) \in Nat /\ Cardinality(store') \in Nat
    BY <1>a, <2>1, FS_Subset, FS_CardinalityType
  <2>3. \A b \in Addresses : counts'[b] = SweptCount(b, swept)
    BY <1>4 DEF Sweep
  <2> HIDE DEF swept
  <2>4. ASSUME NEW b \in Addresses
        PROVE  counts'[b] = Cardinality(Of(store, b)') /\ counts'[b] <= MaxPerAddress
    <3>1. Of(store, b)' = Of(store, b) \ Of(swept, b) /\ Of(swept, b) \subseteq Of(store, b)
      BY <2>1 DEF Of
    <3>2. /\ Cardinality(Of(store, b)') = Cardinality(Of(store, b)) - Cardinality(Of(swept, b))
          /\ Cardinality(Of(swept, b)) \in Nat /\ Cardinality(Of(swept, b)) <= Cardinality(Of(store, b))
      BY <1>a, <3>1, CardRest
    <3>3. counts[b] = Cardinality(Of(store, b)) /\ counts[b] <= MaxPerAddress
      BY <2>1 DEF CountsExact
    <3> QED
      BY <1>0, <1>a, <2>3, <3>2, <3>3 DEF SweptCount
  <2> QED
    BY <1>0, <2>1, <2>2, <2>4 DEF CountsExact
<1>5. CASE Restart
  <2>1. store' = {} /\ \A b \in Addresses : counts'[b] = 0 /\ Of(store, b)' = {}
    BY <1>5 DEF Restart, Of
  <2> QED
    BY <1>0, <2>1, FS_EmptySet DEF CountsExact
<1>6. CASE UNCHANGED vars
  BY <1>6 DEF CountsExact, Of, vars
<1> QED
  BY <1>1, <1>2, <1>3, <1>4, <1>5, <1>6 DEF Next

(***************************************************************************)
(* The counts the caps are checked against are the outstanding nonces of   *)
(* each address, and both caps hold, as long as nobody presented an        *)
(* expired nonce of another address: whatever was issued, consumed, swept  *)
(* or lost in a restart (auth.ts 216-291).                                 *)
(***************************************************************************)
THEOREM MemoryCountsExact == Spec => []CountsExact
<1>1. Init => CountsExact
  <2>1. Init => store = {} /\ \A a \in Addresses : counts[a] = 0 /\ Of(store, a) = {}
    BY DEF Init, Of
  <2> QED
    BY <2>1, FS_EmptySet, MemoryAssumption DEF CountsExact
<1> QED
  BY <1>1, MemoryInvInit, MemoryInvStep, CountsExactStep, PTL DEF Spec

-----------------------------------------------------------------------------
\* The in-memory store implements NonceStore.

\* A nonce was used when its address was accepted, the only one that can be.
Used(n) == \E a \in Addresses : accepted[<<n, a>>] > 0

\* The life of each nonce, read off the map and the history.
LEMMA LifeOf ==
    /\ Life \in [Nonces -> {"fresh", "live", "used", "lapsed"}]
    /\ \A n \in Nonces :
        /\ address[n] = {} => Life[n] = "fresh"
        /\ address[n] # {} /\ Used(n) => Life[n] = "used"
        /\ address[n] # {} /\ ~Used(n) /\ n \in store => Life[n] = "live"
        /\ address[n] # {} /\ ~Used(n) /\ n \notin store => Life[n] = "lapsed"
  BY DEF Life, Used

\* A step that only takes nonces out of the map lets them lapse.
LEMMA MemoryLapses ==
    ASSUME MemoryInv, store' \subseteq store, address' = address, accepted' = accepted
    PROVE  Abstract!Lapse
<1>1. \A n \in Nonces : Used(n)' <=> Used(n)
  BY DEF Used
<1>2. Life' \in [Nonces -> {"fresh", "live", "used", "lapsed"}]
  BY DEF Life
<1>3. ASSUME NEW n \in Nonces, Life'[n] # Life[n]
      PROVE  Life[n] = "live" /\ Life'[n] = "lapsed"
  BY <1>3, LifeOf DEF Life, Used
<1> QED
  BY <1>2, <1>3 DEF Abstract!Lapse

LEMMA MemoryImplementsStep == MemoryInv /\ [Next]_vars => [Abstract!Next]_<<Life, address, accepted>>
<1> SUFFICES ASSUME MemoryInv, [Next]_vars PROVE [Abstract!Next]_<<Life, address, accepted>>
  OBVIOUS
<1>0. TypeOK
  BY DEF MemoryInv
<1>1. CASE Tick
  BY <1>1 DEF Tick, Life
<1>2. ASSUME NEW a \in Addresses, NEW n \in Nonces, Issue(a, n) PROVE Abstract!Issue(n, a)
  <2>1. /\ accepted' = accepted /\ store' = store \cup {n} /\ address[n] = {}
        /\ address' = [address EXCEPT ![n] = {a}]
    BY <1>2 DEF Issue
  <2>2. \A m \in Nonces : address'[m] = IF m = n THEN {a} ELSE address[m]
    BY <1>0, <2>1 DEF TypeOK
  <2>3. ~Used(n) /\ Life[n] = "fresh"
    BY <2>1, LifeOf, Zenon DEF MemoryInv, Used
  <2>4. Life'[n] = "live"
    BY <2>1, <2>2, <2>3 DEF Life, Used
  <2>a. ASSUME NEW m \in Nonces, m # n PROVE Life'[m] = Life[m]
    BY <2>1, <2>2, <2>a DEF Life, Used
  <2>5. Life' = [Life EXCEPT ![n] = "live"]
    BY <2>4, <2>a DEF Life
  <2> QED
    BY <2>1, <2>3, <2>5 DEF Abstract!Issue
<1>3. ASSUME NEW a \in Addresses, NEW n \in Nonces, Consume(a, n) PROVE Abstract!Lapse \/ Abstract!Consume(n, a)
  <2>1. CASE Expired(n)
    <3>1. store' \subseteq store /\ address' = address /\ accepted' = accepted
      BY <1>3, <2>1 DEF Consume
    <3> QED
      BY <3>1, MemoryLapses
  <2>2. CASE ~Expired(n)
    <3>1. /\ n \in store /\ a \in address[n] /\ address' = address /\ store' = store \ {n}
          /\ accepted' = [accepted EXCEPT ![<<n, a>>] = @ + 1]
      BY <1>3, <2>2 DEF Consume, AfterUse
    <3>2. Life[n] = "live"
      BY <3>1, LifeOf DEF MemoryInv, Used
    <3>3. Used(n)'
      <4>1. accepted \in [Nonces \X Addresses -> Nat] /\ <<n, a>> \in Nonces \X Addresses
        BY <1>0 DEF TypeOK
      <4>2. accepted'[<<n, a>>] > 0
        BY <3>1, <4>1
      <4> QED
        BY <4>2 DEF Used
    <3>4. ASSUME NEW m \in Nonces, m # n PROVE Used(m)' <=> Used(m)
      BY <1>0, <3>1, <3>4 DEF Used, TypeOK
    <3>5. ASSUME NEW m \in Nonces PROVE Life'[m] = IF m = n THEN "used" ELSE Life[m]
      BY <3>1, <3>3, <3>4 DEF Life, Used
    <3>6. Life' = [Life EXCEPT ![n] = "used"]
      BY <3>5 DEF Life
    <3> QED
      BY <3>1, <3>2, <3>6 DEF Abstract!Consume
  <2> QED
    BY <2>1, <2>2
<1>4. CASE Sweep
  BY <1>4, MemoryLapses DEF Sweep, Abstract!Next
<1>5. CASE Restart
  BY <1>5, MemoryLapses DEF Restart, Abstract!Next
<1>6. CASE UNCHANGED vars
  BY <1>6 DEF vars, Life
<1> QED
  BY <1>1, <1>2, <1>3, <1>4, <1>5, <1>6 DEF Next, Abstract!Next

(***************************************************************************)
(* The in-memory store implements the promise of a nonce store: a nonce is *)
(* issued to one address, accepted from that address only and once, and    *)
(* otherwise lapses, through expiry, sweeps and restarts (auth.ts          *)
(* 209-296).                                                               *)
(***************************************************************************)
THEOREM MemoryImplementsNonceStore == Spec => KeepsPromise
<1>1. Init => Abstract!Init
  BY DEF Init, Abstract!Init, Life
<1> QED
  BY <1>1, MemoryInvInit, MemoryInvStep, MemoryImplementsStep, PTL DEF Spec, KeepsPromise, Abstract!Spec

-----------------------------------------------------------------------------
\* The table auth_nonces.

\* The table's rows were issued, and an accepted nonce is its own address's and has
\* left the table; a challenge in flight was counted for one address.
TableInv ==
    /\ Postgres!TypeOK
    /\ \A i \in Issuers : \A a, b \in issuing[i] : a = b
    /\ \A n \in nonceRows : pgAddress[n] # {}
    /\ \A n \in Nonces, a \in Addresses :
          pgAccepted[<<n, a>>] > 0 => n \notin nonceRows /\ a \in pgAddress[n]

LEMMA TableInvInit == Postgres!Init => TableInv
<1> SUFFICES ASSUME Postgres!Init PROVE TableInv
  OBVIOUS
<1>1. 0 \in 0..TableMaxTime /\ 0 \in 0..(TableMaxTime + Ttl)
  BY MemoryAssumption, ServingAssumption
<1>2. pgAccepted \in [Nonces \X Addresses -> Nat]
  BY DEF Postgres!Init
<1>3. Postgres!TypeOK
  BY <1>1, <1>2 DEF Postgres!Init, Postgres!TypeOK
<1> QED
  BY <1>3 DEF Postgres!Init, TableInv

LEMMA TableTypeStep == Postgres!TypeOK /\ [Postgres!Next]_Postgres!vars => Postgres!TypeOK'
<1> SUFFICES ASSUME Postgres!TypeOK, [Postgres!Next]_Postgres!vars PROVE Postgres!TypeOK'
  OBVIOUS
<1> USE MemoryAssumption, ServingAssumption
<1>1. CASE Postgres!Tick
  BY <1>1 DEF Postgres!TypeOK, Postgres!Tick
<1>2. CASE Postgres!Cleanup
  BY <1>2 DEF Postgres!TypeOK, Postgres!Cleanup
<1>3. ASSUME NEW i \in Issuers, Postgres!Abandon(i) PROVE Postgres!TypeOK'
  BY <1>3 DEF Postgres!TypeOK, Postgres!Abandon
<1>4. ASSUME NEW i \in Issuers, NEW a \in Addresses, Postgres!Count(i, a) PROVE Postgres!TypeOK'
  BY <1>4 DEF Postgres!TypeOK, Postgres!Count
<1>5. ASSUME NEW i \in Issuers, NEW n \in Nonces, Postgres!Insert(i, n) PROVE Postgres!TypeOK'
  BY <1>5 DEF Postgres!TypeOK, Postgres!Insert
<1>6. ASSUME NEW a \in Addresses, NEW n \in Nonces, Postgres!Consume(a, n) PROVE Postgres!TypeOK'
  <2>1. pgAccepted' \in [Nonces \X Addresses -> Nat]
    BY <1>6 DEF Postgres!TypeOK, Postgres!Consume
  <2> QED
    BY <1>6, <2>1 DEF Postgres!TypeOK, Postgres!Consume
<1>7. CASE UNCHANGED Postgres!vars
  BY <1>7 DEF Postgres!TypeOK, Postgres!vars
<1> QED
  BY <1>1, <1>2, <1>3, <1>4, <1>5, <1>6, <1>7 DEF Postgres!Next

LEMMA TableInvStep == TableInv /\ [Postgres!Next]_Postgres!vars => TableInv'
<1> SUFFICES ASSUME TableInv, [Postgres!Next]_Postgres!vars PROVE TableInv'
  OBVIOUS
<1>0. Postgres!TypeOK /\ Postgres!TypeOK'
  BY TableTypeStep DEF TableInv
<1>1. CASE Postgres!Tick
  BY <1>0, <1>1 DEF TableInv, Postgres!Tick
<1>2. CASE Postgres!Cleanup
  BY <1>0, <1>2 DEF TableInv, Postgres!Cleanup
<1>3. ASSUME NEW i \in Issuers, Postgres!Abandon(i) PROVE TableInv'
  BY <1>0, <1>3 DEF TableInv, Postgres!Abandon, Postgres!TypeOK
<1>4. ASSUME NEW i \in Issuers, NEW a \in Addresses, Postgres!Count(i, a) PROVE TableInv'
  BY <1>0, <1>4 DEF TableInv, Postgres!Count, Postgres!TypeOK
<1>5. ASSUME NEW i \in Issuers, NEW n \in Nonces, Postgres!Insert(i, n) PROVE TableInv'
  <2>1. /\ pgAccepted' = pgAccepted /\ nonceRows' = nonceRows \cup {n} /\ pgAddress[n] = {}
        /\ pgAddress'[n] = issuing[i] /\ issuing[i] # {}
        /\ \A m \in Nonces : m # n => pgAddress'[m] = pgAddress[m]
    BY <1>0, <1>5 DEF Postgres!Insert, Postgres!TypeOK
  <2>2. \A j \in Issuers : \A a, b \in issuing'[j] : a = b
    BY <1>0, <1>5 DEF TableInv, Postgres!Insert, Postgres!TypeOK
  <2>3. \A m \in nonceRows' : pgAddress'[m] # {}
    BY <1>0, <2>1 DEF TableInv, Postgres!TypeOK
  <2>4. ASSUME NEW m \in Nonces, NEW b \in Addresses, pgAccepted'[<<m, b>>] > 0
        PROVE  m \notin nonceRows' /\ b \in pgAddress'[m]
    <3>1. m # n /\ m \notin nonceRows /\ b \in pgAddress[m]
      BY <2>1, <2>4 DEF TableInv
    <3> QED
      BY <2>1, <3>1
  <2> QED
    BY <1>0, <2>2, <2>3, <2>4 DEF TableInv
<1>6. ASSUME NEW a \in Addresses, NEW n \in Nonces, Postgres!Consume(a, n) PROVE TableInv'
  <2>1. /\ pgAddress' = pgAddress /\ nonceRows' = nonceRows \ {n} /\ a \in pgAddress[n] /\ issuing' = issuing
        /\ pgAccepted' = [pgAccepted EXCEPT ![<<n, a>>] = @ + 1]
    BY <1>6 DEF Postgres!Consume, Postgres!Matches
  <2>2. ASSUME NEW m \in Nonces, NEW b \in Addresses, <<m, b>> # <<n, a>>
        PROVE  pgAccepted'[<<m, b>>] = pgAccepted[<<m, b>>]
    <3>1. pgAccepted \in [Nonces \X Addresses -> Nat] /\ <<m, b>> \in Nonces \X Addresses
      BY <1>0 DEF Postgres!TypeOK
    <3> QED
      BY <2>1, <2>2, <3>1
  <2>3. ASSUME NEW m \in Nonces, NEW b \in Addresses, pgAccepted'[<<m, b>>] > 0
        PROVE  m \notin nonceRows' /\ b \in pgAddress'[m]
    <3>1. CASE <<m, b>> = <<n, a>>
      BY <2>1, <3>1
    <3>2. CASE <<m, b>> # <<n, a>>
      BY <2>1, <2>2, <2>3, <3>2 DEF TableInv
    <3> QED
      BY <3>1, <3>2
  <2> QED
    BY <1>0, <2>1, <2>3 DEF TableInv, Postgres!TypeOK
<1>7. CASE UNCHANGED Postgres!vars
  BY <1>0, <1>7 DEF TableInv, Postgres!vars
<1> QED
  BY <1>1, <1>2, <1>3, <1>4, <1>5, <1>6, <1>7 DEF Postgres!Next

\* A nonce of the table was used when its address was accepted.
TableUsed(n) == \E a \in Addresses : pgAccepted[<<n, a>>] > 0

\* The life of each nonce, read off the table, the clock and the history.
LEMMA TableLifeOf ==
    /\ Postgres!Life \in [Nonces -> {"fresh", "live", "used", "lapsed"}]
    /\ \A n \in Nonces :
        /\ pgAddress[n] = {} => Postgres!Life[n] = "fresh"
        /\ pgAddress[n] # {} /\ TableUsed(n) => Postgres!Life[n] = "used"
        /\ pgAddress[n] # {} /\ ~TableUsed(n) /\ n \in nonceRows /\ Postgres!Unexpired(n)
            => Postgres!Life[n] = "live"
        /\ pgAddress[n] # {} /\ ~TableUsed(n) /\ ~(n \in nonceRows /\ Postgres!Unexpired(n))
            => Postgres!Life[n] = "lapsed"
  BY DEF Postgres!Life, TableUsed

\* A step after which no further row is unexpired only lets nonces lapse.
LEMMA TableLapses ==
    ASSUME TableInv, pgAddress' = pgAddress, pgAccepted' = pgAccepted,
           \A n \in Nonces : n \in nonceRows' /\ Postgres!Unexpired(n)' => n \in nonceRows /\ Postgres!Unexpired(n)
    PROVE  Postgres!Abstract!Lapse
<1>1. Postgres!Life' \in [Nonces -> {"fresh", "live", "used", "lapsed"}]
  BY DEF Postgres!Life
<1>2. ASSUME NEW n \in Nonces, Postgres!Life'[n] # Postgres!Life[n]
      PROVE  Postgres!Life[n] = "live" /\ Postgres!Life'[n] = "lapsed"
  BY <1>2, TableLifeOf DEF Postgres!Life, TableUsed
<1> QED
  BY <1>1, <1>2 DEF Postgres!Abstract!Lapse

LEMMA TableImplementsStep ==
    TableInv /\ [Postgres!Next]_Postgres!vars
        => [Postgres!Abstract!Next]_<<Postgres!Life, pgAddress, pgAccepted>>
<1> SUFFICES ASSUME TableInv, [Postgres!Next]_Postgres!vars
             PROVE  [Postgres!Abstract!Next]_<<Postgres!Life, pgAddress, pgAccepted>>
  OBVIOUS
<1>0. Postgres!TypeOK
  BY DEF TableInv
<1>1. CASE Postgres!Tick
  <2>1. /\ pgAddress' = pgAddress /\ pgAccepted' = pgAccepted
        /\ \A n \in Nonces : n \in nonceRows' /\ Postgres!Unexpired(n)' => n \in nonceRows /\ Postgres!Unexpired(n)
    BY <1>0, <1>1, MemoryAssumption, ServingAssumption DEF Postgres!Tick, Postgres!TypeOK, Postgres!Unexpired
  <2> QED
    BY <2>1, TableLapses DEF Postgres!Abstract!Next
<1>2. CASE Postgres!Cleanup
  <2>1. /\ pgAddress' = pgAddress /\ pgAccepted' = pgAccepted
        /\ \A n \in Nonces : n \in nonceRows' /\ Postgres!Unexpired(n)' => n \in nonceRows /\ Postgres!Unexpired(n)
    BY <1>2 DEF Postgres!Cleanup, Postgres!Unexpired
  <2> QED
    BY <2>1, TableLapses DEF Postgres!Abstract!Next
<1>3. ASSUME NEW i \in Issuers, Postgres!Abandon(i) PROVE UNCHANGED <<Postgres!Life, pgAddress, pgAccepted>>
  BY <1>3 DEF Postgres!Abandon, Postgres!Life, Postgres!Unexpired
<1>4. ASSUME NEW i \in Issuers, NEW a \in Addresses, Postgres!Count(i, a)
      PROVE  UNCHANGED <<Postgres!Life, pgAddress, pgAccepted>>
  BY <1>4 DEF Postgres!Count, Postgres!Life, Postgres!Unexpired
<1>5. ASSUME NEW i \in Issuers, NEW n \in Nonces, Postgres!Insert(i, n)
      PROVE  \E a \in Addresses : Postgres!Abstract!Issue(n, a)
  <2>1. PICK a \in Addresses : issuing[i] = {a}
    BY <1>0, <1>5 DEF Postgres!Insert, TableInv, Postgres!TypeOK
  <2>2. /\ pgAccepted' = pgAccepted /\ nonceRows' = nonceRows \cup {n} /\ pgAddress[n] = {}
        /\ pgAddress' = [pgAddress EXCEPT ![n] = {a}] /\ pgNow' = pgNow
        /\ \A m \in Nonces : m # n => pgAddress'[m] = pgAddress[m] /\ pgExpiresAt'[m] = pgExpiresAt[m]
        /\ pgAddress'[n] = {a}
    BY <1>0, <1>5, <2>1 DEF Postgres!Insert, Postgres!TypeOK
  <2>3. ~TableUsed(n) /\ Postgres!Life[n] = "fresh"
    BY <2>2, TableLifeOf, Zenon DEF TableInv, TableUsed
  <2>4. ASSUME NEW m \in Nonces, m # n PROVE Postgres!Life'[m] = Postgres!Life[m]
    BY <2>2, <2>4 DEF Postgres!Life, Postgres!Unexpired
  <2>5. Postgres!Life'[n] \in {"live", "lapsed"}
    BY <2>2, <2>3 DEF Postgres!Life, TableUsed
  <2>6. Postgres!Life' = [Postgres!Life EXCEPT ![n] = Postgres!Life'[n]]
    BY <2>4 DEF Postgres!Life
  <2>7. Postgres!Abstract!Issue(n, a)
    BY <2>2, <2>3, <2>5, <2>6 DEF Postgres!Abstract!Issue
  <2> QED
    BY <2>7
<1>6. ASSUME NEW a \in Addresses, NEW n \in Nonces, Postgres!Consume(a, n) PROVE Postgres!Abstract!Consume(n, a)
  <2>1. /\ n \in nonceRows /\ a \in pgAddress[n] /\ pgAddress' = pgAddress /\ nonceRows' = nonceRows \ {n}
        /\ pgAccepted' = [pgAccepted EXCEPT ![<<n, a>>] = @ + 1] /\ Postgres!Unexpired(n)
        /\ pgNow' = pgNow /\ pgExpiresAt' = pgExpiresAt
    BY <1>6 DEF Postgres!Consume, Postgres!Matches
  <2>2. Postgres!Life[n] = "live"
    BY <2>1, TableLifeOf, Zenon DEF TableInv, TableUsed
  <2>3. pgAccepted'[<<n, a>>] > 0
    <3>1. pgAccepted \in [Nonces \X Addresses -> Nat] /\ <<n, a>> \in Nonces \X Addresses
      BY <1>0 DEF Postgres!TypeOK
    <3> QED
      BY <2>1, <3>1
  <2>4. ASSUME NEW m \in Nonces, m # n PROVE TableUsed(m)' <=> TableUsed(m)
    BY <1>0, <2>1, <2>4 DEF TableUsed, Postgres!TypeOK
  <2>5. ASSUME NEW m \in Nonces PROVE Postgres!Life'[m] = IF m = n THEN "used" ELSE Postgres!Life[m]
    BY <2>1, <2>3, <2>4 DEF Postgres!Life, TableUsed, Postgres!Unexpired
  <2>6. Postgres!Life' = [Postgres!Life EXCEPT ![n] = "used"]
    BY <2>5 DEF Postgres!Life
  <2> QED
    BY <2>1, <2>2, <2>6 DEF Postgres!Abstract!Consume
<1>7. CASE UNCHANGED Postgres!vars
  BY <1>7 DEF Postgres!vars, Postgres!Life, Postgres!Unexpired
<1> QED
  BY <1>1, <1>2, <1>3, <1>4, <1>5, <1>6, <1>7 DEF Postgres!Next, Postgres!Abstract!Next

(***************************************************************************)
(* The table auth_nonces implements the promise of a nonce store across    *)
(* any number of instances and challenges in flight: a nonce is accepted   *)
(* from its own address only, once, and never past its expiry (auth.ts     *)
(* 319-334, 343-401).                                                      *)
(***************************************************************************)
THEOREM TableImplementsNonceStore == Postgres!Spec => TableKeepsPromise
<1>1. Postgres!Init => Postgres!Abstract!Init
  BY DEF Postgres!Init, Postgres!Abstract!Init, Postgres!Life
<1> QED
  BY <1>1, TableInvInit, TableInvStep, TableImplementsStep, PTL
     DEF Postgres!Spec, TableKeepsPromise, Postgres!KeepsPromise, Postgres!Abstract!Spec

-----------------------------------------------------------------------------
\* The caps of the table.

\* The challenges between their count and their insert, of all and of one address.
InFlight == {i \in Issuers : issuing[i] # {}}
InFlightFor(a) == {i \in Issuers : a \in issuing[i]}

\* The bound on outstanding nonces O and challenges in flight F under a cap.
Bounded(O, F, cap) == Cardinality(O) + Cardinality(F) < cap + Cardinality(Issuers)

\* The table counts as this module does.
LEMMA TableCounts == \A S : Postgres!Cardinality(S) = Cardinality(S)
  BY Zenon DEF Postgres!Cardinality, Cardinality

LEMMA IssuersFinite == IsFiniteSet(Issuers) /\ Cardinality(Issuers) \in Nat \ {0}
<1>1. IsFiniteSet(Issuers) /\ Issuers # {} /\ Cardinality(Issuers) \in Nat
  BY ServingAssumption, FS_CardinalityType
<1>2. Cardinality(Issuers) # 0
  BY <1>1, FS_EmptySet
<1> QED
  BY <1>1, <1>2

\* The count: fewer nonces than the cap, whoever is in flight.
LEMMA CountedBounded ==
    ASSUME NEW O, NEW F \in SUBSET Issuers, NEW cap \in Nat, Cardinality(O) \in Nat, Cardinality(O) < cap
    PROVE  Bounded(O, F, cap)
<1>1. Cardinality(F) \in Nat /\ Cardinality(F) <= Cardinality(Issuers) /\ Cardinality(Issuers) \in Nat
  BY IssuersFinite, FS_Subset, FS_CardinalityType
<1> QED
  BY <1>1 DEF Bounded

\* Fewer nonces and no further challenge.
LEMMA FewerBounded ==
    ASSUME NEW O, NEW F, NEW P \in SUBSET O, NEW G \in SUBSET F, NEW cap \in Nat,
           IsFiniteSet(O), IsFiniteSet(F), Bounded(O, F, cap)
    PROVE  Bounded(P, G, cap)
<1>1. /\ Cardinality(P) <= Cardinality(O) /\ Cardinality(P) \in Nat /\ Cardinality(O) \in Nat
      /\ Cardinality(G) <= Cardinality(F) /\ Cardinality(G) \in Nat /\ Cardinality(F) \in Nat
      /\ Cardinality(Issuers) \in Nat
  BY IssuersFinite, FS_Subset, FS_CardinalityType
<1> QED
  BY <1>1 DEF Bounded

\* The insert: a challenge in flight becomes a nonce.
LEMMA InsertedBounded ==
    ASSUME NEW O, NEW F, NEW n, NEW i \in F, NEW P \in SUBSET (O \cup {n}), NEW cap \in Nat,
           IsFiniteSet(O), IsFiniteSet(F), Bounded(O, F, cap)
    PROVE  Bounded(P, F \ {i}, cap)
<1>1. IsFiniteSet(O \cup {n}) /\ Cardinality(O \cup {n}) = IF n \in O THEN Cardinality(O) ELSE Cardinality(O) + 1
  BY FS_AddElement
<1>2. /\ Cardinality(P) <= Cardinality(O \cup {n}) /\ Cardinality(P) \in Nat /\ Cardinality(O) \in Nat
      /\ Cardinality(F) \in Nat /\ Cardinality(Issuers) \in Nat
  BY <1>1, IssuersFinite, FS_Subset, FS_CardinalityType
<1>3. Cardinality(F \ {i}) = Cardinality(F) - 1
  BY CardOne
<1> QED
  BY <1>1, <1>2, <1>3 DEF Bounded

\* The property, with the challenges in flight named.
LEMMA BoundMeans ==
    OvershootBounded <=>
        /\ Bounded(Postgres!Outstanding, InFlight, MaxEntries)
        /\ \A a \in Addresses : Bounded(Postgres!OutstandingOf(a), InFlightFor(a), TableMaxPerAddress)
  BY TableCounts DEF OvershootBounded, Postgres!OvershootBounded, InFlight, InFlightFor, Bounded

\* Outstanding nonces and challenges in flight are finitely many.
LEMMA TableFinite ==
    ASSUME Postgres!TypeOK
    PROVE  /\ IsFiniteSet(Postgres!Outstanding) /\ Cardinality(Postgres!Outstanding) \in Nat
           /\ IsFiniteSet(InFlight)
           /\ \A a : /\ IsFiniteSet(Postgres!OutstandingOf(a)) /\ Cardinality(Postgres!OutstandingOf(a)) \in Nat
                     /\ IsFiniteSet(InFlightFor(a))
<1>1. /\ Postgres!Outstanding \in SUBSET Nonces /\ InFlight \in SUBSET Issuers
      /\ \A a : Postgres!OutstandingOf(a) \in SUBSET Nonces /\ InFlightFor(a) \in SUBSET Issuers
  BY DEF Postgres!TypeOK, Postgres!Outstanding, Postgres!OutstandingOf, InFlight, InFlightFor
<1>2. IsFiniteSet(Nonces) /\ IsFiniteSet(Issuers)
  BY MemoryAssumption, ServingAssumption
<1> QED
  BY <1>1, <1>2, FS_Subset, FS_CardinalityType

LEMMA OvershootStep == TableInv /\ OvershootBounded /\ [Postgres!Next]_Postgres!vars => OvershootBounded'
<1> SUFFICES ASSUME TableInv, OvershootBounded, [Postgres!Next]_Postgres!vars PROVE OvershootBounded'
  OBVIOUS
<1>0. Postgres!TypeOK /\ MaxEntries \in Nat /\ TableMaxPerAddress \in Nat
  BY MemoryAssumption, ServingAssumption DEF TableInv
<1>a. /\ IsFiniteSet(Postgres!Outstanding) /\ Cardinality(Postgres!Outstanding) \in Nat /\ IsFiniteSet(InFlight)
      /\ \A a \in Addresses : /\ IsFiniteSet(Postgres!OutstandingOf(a))
                              /\ Cardinality(Postgres!OutstandingOf(a)) \in Nat
                              /\ IsFiniteSet(InFlightFor(a))
  BY <1>0, TableFinite
<1>b. /\ Bounded(Postgres!Outstanding, InFlight, MaxEntries)
      /\ \A a \in Addresses : Bounded(Postgres!OutstandingOf(a), InFlightFor(a), TableMaxPerAddress)
  BY BoundMeans
<1>c. SUFFICES /\ Bounded(Postgres!Outstanding', InFlight', MaxEntries)
               /\ \A a \in Addresses : Bounded(Postgres!OutstandingOf(a)', InFlightFor(a)', TableMaxPerAddress)
  BY TableCounts DEF OvershootBounded, Postgres!OvershootBounded, InFlight, InFlightFor, Bounded
<1> DEFINE Fewer == /\ Postgres!Outstanding' \subseteq Postgres!Outstanding /\ InFlight' \subseteq InFlight
                    /\ \A a \in Addresses : /\ Postgres!OutstandingOf(a)' \subseteq Postgres!OutstandingOf(a)
                                            /\ InFlightFor(a)' \subseteq InFlightFor(a)
<1>d. CASE Fewer
  BY <1>0, <1>a, <1>b, <1>d, FewerBounded
<1>1. CASE Postgres!Tick
  <2>1. Fewer
    BY <1>0, <1>1, MemoryAssumption, ServingAssumption
       DEF Postgres!Tick, Postgres!TypeOK, Postgres!Outstanding, Postgres!OutstandingOf, Postgres!Unexpired,
           InFlight, InFlightFor
  <2> QED
    BY <1>d, <2>1
<1>2. CASE Postgres!Cleanup
  <2>1. Fewer
    BY <1>2 DEF Postgres!Cleanup, Postgres!Outstanding, Postgres!OutstandingOf, Postgres!Unexpired, InFlight,
                InFlightFor
  <2> QED
    BY <1>d, <2>1
<1>3. CASE \E i \in Issuers : Postgres!Abandon(i)
  <2>1. PICK i \in Issuers : Postgres!Abandon(i)
    BY <1>3
  <2>2. Fewer
    BY <1>0, <2>1 DEF Postgres!Abandon, Postgres!TypeOK, Postgres!Outstanding, Postgres!OutstandingOf,
                      Postgres!Unexpired, InFlight, InFlightFor
  <2> QED
    BY <1>d, <2>2
<1>4. CASE \E i \in Issuers, a \in Addresses : Postgres!Count(i, a)
  <2>1. PICK i \in Issuers, a \in Addresses : Postgres!Count(i, a)
    BY <1>4
  <2>2. /\ Postgres!Outstanding' = Postgres!Outstanding /\ Cardinality(Postgres!Outstanding) < MaxEntries
        /\ Cardinality(Postgres!OutstandingOf(a)) < TableMaxPerAddress
    BY <2>1, TableCounts DEF Postgres!Count, Postgres!UnderCaps, Postgres!Outstanding, Postgres!Unexpired
  <2>3. \A b \in Addresses : Postgres!OutstandingOf(b)' = Postgres!OutstandingOf(b)
    BY <2>1, <2>2 DEF Postgres!Count, Postgres!OutstandingOf
  <2>4. InFlight' \in SUBSET Issuers /\ \A b \in Addresses : InFlightFor(b)' \in SUBSET Issuers
    BY DEF InFlight, InFlightFor
  <2>5. \A b \in Addresses : b # a => InFlightFor(b)' = InFlightFor(b)
    BY <1>0, <2>1 DEF Postgres!Count, Postgres!TypeOK, InFlightFor
  <2>6. Bounded(Postgres!Outstanding', InFlight', MaxEntries)
    BY <1>0, <1>a, <2>2, <2>4, CountedBounded
  <2>7. ASSUME NEW b \in Addresses PROVE Bounded(Postgres!OutstandingOf(b)', InFlightFor(b)', TableMaxPerAddress)
    <3>1. CASE b = a
      <4>1. Bounded(Postgres!OutstandingOf(a), InFlightFor(b)', TableMaxPerAddress)
        BY <1>0, <1>a, <2>2, <2>4, CountedBounded
      <4> QED
        BY <2>3, <3>1, <4>1
    <3>2. CASE b # a
      BY <1>b, <2>3, <2>5, <3>2
    <3> QED
      BY <3>1, <3>2
  <2> QED
    BY <2>6, <2>7
<1>5. CASE \E i \in Issuers, n \in Nonces : Postgres!Insert(i, n)
  <2>1. PICK i \in Issuers, n \in Nonces : Postgres!Insert(i, n)
    BY <1>5
  <2>2. InFlight' = InFlight \ {i} /\ i \in InFlight
    BY <1>0, <2>1 DEF Postgres!Insert, Postgres!TypeOK, InFlight
  <2>3. Postgres!Outstanding' \subseteq Postgres!Outstanding \cup {n}
    BY <1>0, <2>1 DEF Postgres!Insert, Postgres!TypeOK, Postgres!Outstanding, Postgres!Unexpired
  <2>4. Bounded(Postgres!Outstanding', InFlight', MaxEntries)
    BY <1>0, <1>a, <1>b, <2>2, <2>3, InsertedBounded
  <2>5. ASSUME NEW a \in Addresses PROVE Bounded(Postgres!OutstandingOf(a)', InFlightFor(a)', TableMaxPerAddress)
    <3>1. CASE a \in issuing[i]
      <4>1. InFlightFor(a)' = InFlightFor(a) \ {i} /\ i \in InFlightFor(a)
        BY <1>0, <2>1, <3>1 DEF Postgres!Insert, Postgres!TypeOK, InFlightFor
      <4>2. Postgres!OutstandingOf(a)' \subseteq Postgres!OutstandingOf(a) \cup {n}
        BY <1>0, <2>1 DEF Postgres!Insert, Postgres!TypeOK, Postgres!Outstanding, Postgres!OutstandingOf,
                          Postgres!Unexpired
      <4>3. /\ IsFiniteSet(Postgres!OutstandingOf(a)) /\ IsFiniteSet(InFlightFor(a))
            /\ Bounded(Postgres!OutstandingOf(a), InFlightFor(a), TableMaxPerAddress)
        BY <1>a, <1>b
      <4>4. Bounded(Postgres!OutstandingOf(a)', InFlightFor(a) \ {i}, TableMaxPerAddress)
        BY <1>0, <4>1, <4>2, <4>3, InsertedBounded
      <4> QED
        BY <4>1, <4>4
    <3>2. CASE a \notin issuing[i]
      <4>1. InFlightFor(a)' \subseteq InFlightFor(a)
        BY <1>0, <2>1 DEF Postgres!Insert, Postgres!TypeOK, InFlightFor
      <4>2. Postgres!OutstandingOf(a)' \subseteq Postgres!OutstandingOf(a)
        <5> SUFFICES ASSUME NEW m \in Postgres!OutstandingOf(a)' PROVE m \in Postgres!OutstandingOf(a)
          OBVIOUS
        <5>1. m \in Nonces /\ m \in nonceRows' /\ a \in pgAddress'[m] /\ pgExpiresAt'[m] > pgNow'
          BY <1>0, <2>1 DEF Postgres!Insert, Postgres!TypeOK, Postgres!Outstanding, Postgres!OutstandingOf,
                            Postgres!Unexpired
        <5>2. m # n
          BY <1>0, <2>1, <3>2, <5>1 DEF Postgres!Insert, Postgres!TypeOK
        <5>3. m \in nonceRows /\ a \in pgAddress[m] /\ pgExpiresAt[m] > pgNow
          BY <1>0, <2>1, <5>1, <5>2 DEF Postgres!Insert, Postgres!TypeOK
        <5> QED
          BY <5>3 DEF Postgres!Outstanding, Postgres!OutstandingOf, Postgres!Unexpired
      <4> QED
        BY <1>0, <1>a, <1>b, <4>1, <4>2, FewerBounded
    <3> QED
      BY <3>1, <3>2
  <2> QED
    BY <2>4, <2>5
<1>6. CASE \E a \in Addresses, n \in Nonces : Postgres!Consume(a, n)
  <2>1. PICK a \in Addresses, n \in Nonces : Postgres!Consume(a, n)
    BY <1>6
  <2>2. Fewer
    BY <2>1 DEF Postgres!Consume, Postgres!Outstanding, Postgres!OutstandingOf, Postgres!Unexpired, InFlight,
                InFlightFor
  <2> QED
    BY <1>d, <2>2
<1>7. CASE UNCHANGED Postgres!vars
  <2>1. Fewer
    BY <1>7 DEF Postgres!vars, Postgres!Outstanding, Postgres!OutstandingOf, Postgres!Unexpired, InFlight, InFlightFor
  <2> QED
    BY <1>d, <2>1
<1> QED
  BY <1>1, <1>2, <1>3, <1>4, <1>5, <1>6, <1>7 DEF Postgres!Next

(***************************************************************************)
(* Both caps of the table, counted in one statement and used in another,   *)
(* are overshot by fewer nonces than there are challenges in flight at one *)
(* time, however counts, inserts, expiry and cleanup interleave (auth.ts   *)
(* 344-375).                                                               *)
(***************************************************************************)
THEOREM TableOvershootBounded == Postgres!Spec => []OvershootBounded
<1>1. Postgres!Init => OvershootBounded
  <2> SUFFICES ASSUME Postgres!Init PROVE OvershootBounded
    OBVIOUS
  <2>1. /\ Postgres!Outstanding = {} /\ InFlight = {}
        /\ \A a \in Addresses : Postgres!OutstandingOf(a) = {} /\ InFlightFor(a) = {}
    BY DEF Postgres!Init, Postgres!Outstanding, Postgres!OutstandingOf, InFlight, InFlightFor
  <2>2. Cardinality({}) = 0 /\ MaxEntries \in Nat /\ TableMaxPerAddress \in Nat
    BY FS_EmptySet, MemoryAssumption, ServingAssumption
  <2>3. Bounded({}, {}, MaxEntries) /\ Bounded({}, {}, TableMaxPerAddress)
    BY <2>2, IssuersFinite DEF Bounded
  <2> QED
    BY <2>1, <2>3, BoundMeans
<1> QED
  BY <1>1, TableInvInit, TableInvStep, OvershootStep, PTL DEF Postgres!Spec
=============================================================================
