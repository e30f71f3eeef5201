---------------------------- MODULE MemoryNonces ----------------------------
(***************************************************************************)
(* MemoryNonceStore (src/auth.ts): a map of nonces and, beside it, a count *)
(* of outstanding nonces per address that the caps are checked against.    *)
(*                                                                         *)
(* Its methods never await, so each is one step.  A caller of consume has  *)
(* signed the nonce with its own key (authenticateRequest verifies first), *)
(* whatever address the nonce was issued to.                               *)
(***************************************************************************)
EXTENDS Naturals, FiniteSets

CONSTANTS
    Addresses,
    Nonces,        \* random, so never drawn twice
    Ttl,           \* config.db.nonceTtlMs, in ticks
    MaxEntries,    \* config.db.nonceMaxEntries
    MaxPerAddress, \* MAX_NONCES_PER_ADDRESS
    MaxTime        \* bound on the clock

ASSUME MemoryAssumption ==
    /\ IsFiniteSet(Nonces) /\ IsFiniteSet(Addresses)
    /\ Ttl \in Nat /\ MaxEntries \in Nat /\ MaxPerAddress \in Nat \ {0} /\ MaxTime \in Nat

VARIABLES
    now,
    store,      \* the nonces in the map
    address,    \* per nonce: the addresses it was issued to, at most one
    expiresAt,  \* per nonce
    counts      \* addressIssueCounts; 0 when there is no entry

\* History.
VARIABLES
    accepted,   \* per nonce and address: how often consume said yes
    crossed     \* an expired nonce was presented by another address than its own

vars == <<now, store, address, expiresAt, counts, accepted, crossed>>

TypeOK ==
    /\ now \in 0..MaxTime
    /\ store \subseteq Nonces /\ accepted \in [Nonces \X Addresses -> Nat]
    /\ address \in [Nonces -> SUBSET Addresses]
    /\ expiresAt \in [Nonces -> 0..(MaxTime + Ttl)]
    /\ counts \in [Addresses -> Nat]
    /\ crossed \in BOOLEAN

Init ==
    /\ now = 0
    /\ store = {} /\ accepted = [x \in Nonces \X Addresses |-> 0]
    /\ address = [n \in Nonces |-> {}]
    /\ expiresAt = [n \in Nonces |-> 0]
    /\ counts = [a \in Addresses |-> 0]
    /\ crossed = FALSE

Tick == /\ now < MaxTime /\ now' = now + 1
        /\ UNCHANGED <<store, address, expiresAt, counts, accepted, crossed>>

\* Faulty variant: decrements whatever the entry is.
OneLess_unguarded(c) == c - 1
\* `count > 1` or the entry is deleted.
OneLess(c) == IF c > 1 THEN c - 1 ELSE 0
Expired(n) == expiresAt[n] < now
Of(set, a) == {n \in set : a \in address[n]}

MayIssue(a) == Cardinality(store) < MaxEntries /\ counts[a] < MaxPerAddress

\* Anything else than this is NonceStoreCapacityError.
Issue(a, n) ==
    /\ MayIssue(a)
    /\ address[n] = {}
    /\ store' = store \cup {n}
    /\ address' = [address EXCEPT ![n] = {a}]
    /\ expiresAt' = [expiresAt EXCEPT ![n] = now + Ttl]
    /\ counts' = [counts EXCEPT ![a] = @ + 1]
    /\ UNCHANGED <<now, accepted, crossed>>

\* Faulty variant: an accepted nonce stays in the map.
AfterUse_kept(n) == store
AfterUse(n) == store \ {n}

\* An expired nonce leaves the map whoever presents it, and the presenting
\* address's count goes down with it.
Consume(a, n) ==
    /\ n \in store
    /\ \/ /\ Expired(n)
          /\ store' = store \ {n}
          /\ crossed' = (crossed \/ a \notin address[n])
          /\ UNCHANGED accepted
       \/ /\ ~Expired(n) /\ a \in address[n]
          /\ store' = AfterUse(n)
          /\ accepted' = [accepted EXCEPT ![<<n, a>>] = @ + 1]
          /\ UNCHANGED crossed
    /\ counts' = [counts EXCEPT ![a] = OneLess(@)]
    /\ UNCHANGED <<now, address, expiresAt>>

\* Faulty variant: the sweep forgets the counts.
SweptCount_kept(a, swept) == counts[a]
\* OneLess once for every nonce swept.
SweptCount(a, swept) == LET k == Cardinality(Of(swept, a)) IN IF counts[a] > k THEN counts[a] - k ELSE 0

Sweep ==
    LET swept == {n \in store : Expired(n)} IN
    /\ swept # {}
    /\ store' = store \ swept
    /\ counts' = [a \in Addresses |-> SweptCount(a, swept)]
    /\ UNCHANGED <<now, address, expiresAt, accepted, crossed>>

\* The process ends and starts again with an empty map.
Restart ==
    /\ store # {}
    /\ store' = {} /\ counts' = [a \in Addresses |-> 0]
    /\ UNCHANGED <<now, address, expiresAt, accepted, crossed>>

Next ==
    \/ Tick \/ Sweep \/ Restart
    \/ \E a \in Addresses, n \in Nonces : Issue(a, n) \/ Consume(a, n)

Spec == Init /\ [][Next]_vars

-----------------------------------------------------------------------------
\* The abstract store this one implements: a nonce is live while it is in the
\* map, used once it was accepted, and lapsed otherwise.
Life == [n \in Nonces |->
    IF address[n] = {} THEN "fresh"
    ELSE IF \E a \in Addresses : accepted[<<n, a>>] > 0 THEN "used"
    ELSE IF n \in store THEN "live" ELSE "lapsed"]

Abstract == INSTANCE NonceStore WITH life <- Life, owner <- address

(***************************************************************************)
(* The in-memory store keeps a nonce store's promise: one address, one     *)
(* use, through expiry, sweeps and restarts (auth.ts 209-296).             *)
(***************************************************************************)
KeepsPromise == Abstract!Spec

(***************************************************************************)
(* The counts the cap is checked against are the outstanding nonces of     *)
(* each address, and the caps hold, as long as nobody presents an expired  *)
(* nonce of another address (auth.ts 216-224, 239-291).                    *)
(***************************************************************************)
CountsExact ==
    ~crossed => /\ \A a \in Addresses : counts[a] = Cardinality(Of(store, a)) /\ counts[a] <= MaxPerAddress
                /\ Cardinality(store) <= MaxEntries
=============================================================================
