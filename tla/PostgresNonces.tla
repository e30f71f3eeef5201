--------------------------- MODULE PostgresNonces ---------------------------
(***************************************************************************)
(* PostgresNonceStore (src/auth.ts): the table auth_nonces, shared by the  *)
(* API instances.  issue counts the unexpired rows in one statement and    *)
(* inserts in another; consume and the cleanup are one DELETE each.        *)
(***************************************************************************)
EXTENDS Naturals, FiniteSets

CONSTANTS
    Addresses,
    Nonces,        \* random, so never drawn twice
    Issuers,       \* challenge requests in flight at one time
    Ttl,           \* config.db.nonceTtlMs, in ticks
    MaxEntries,    \* config.db.nonceMaxEntries
    MaxPerAddress, \* MAX_NONCES_PER_ADDRESS
    MaxTime        \* bound on the clock

VARIABLES
    now,
    rows,       \* the nonces in auth_nonces
    address,    \* per nonce: the addresses it was issued to, at most one
    expiresAt,  \* per nonce
    issuing     \* per challenge request: the address it was counted for, if any

\* History: how often consume accepted each nonce from each address.
VARIABLE accepted

vars == <<now, rows, address, expiresAt, issuing, accepted>>

TypeOK ==
    /\ now \in 0..MaxTime
    /\ rows \subseteq Nonces /\ accepted \in [Nonces \X Addresses -> Nat]
    /\ address \in [Nonces -> SUBSET Addresses]
    /\ expiresAt \in [Nonces -> 0..(MaxTime + Ttl)]
    /\ issuing \in [Issuers -> SUBSET Addresses]

Init ==
    /\ now = 0
    /\ rows = {} /\ accepted = [x \in Nonces \X Addresses |-> 0]
    /\ address = [n \in Nonces |-> {}]
    /\ expiresAt = [n \in Nonces |-> 0]
    /\ issuing = [i \in Issuers |-> {}]

Tick == /\ now < MaxTime /\ now' = now + 1
        /\ UNCHANGED <<rows, address, expiresAt, issuing, accepted>>

Unexpired(n) == expiresAt[n] > now
Outstanding == {n \in rows : Unexpired(n)}
OutstandingOf(a) == {n \in Outstanding : a \in address[n]}

\* Faulty variant: the capacity itself still admits one more.
UnderCaps_full(a) == Cardinality(Outstanding) <= MaxEntries /\ Cardinality(OutstandingOf(a)) < MaxPerAddress
UnderCaps(a) == Cardinality(Outstanding) < MaxEntries /\ Cardinality(OutstandingOf(a)) < MaxPerAddress

\* The SELECT of issue; past a cap the request is answered 503.
Count(i, a) ==
    /\ issuing[i] = {}
    /\ UnderCaps(a)
    /\ issuing' = [issuing EXCEPT ![i] = {a}]
    /\ UNCHANGED <<now, rows, address, expiresAt, accepted>>

\* The INSERT of issue.
Insert(i, n) ==
    /\ issuing[i] # {} /\ address[n] = {}
    /\ rows' = rows \cup {n}
    /\ address' = [address EXCEPT ![n] = issuing[i]]
    /\ expiresAt' = [expiresAt EXCEPT ![n] = now + Ttl]
    /\ issuing' = [issuing EXCEPT ![i] = {}]
    /\ UNCHANGED <<now, accepted>>

\* The request dies with its connection, or its instance.
Abandon(i) ==
    /\ issuing[i] # {}
    /\ issuing' = [issuing EXCEPT ![i] = {}]
    /\ UNCHANGED <<now, rows, address, expiresAt, accepted>>

\* Faulty variant: the address is not part of the DELETE's condition.
Matches_nonceOnly(a, n) == Unexpired(n)
Matches(a, n) == a \in address[n] /\ Unexpired(n)

Consume(a, n) ==
    /\ n \in rows /\ Matches(a, n)
    /\ rows' = rows \ {n}
    /\ accepted' = [accepted EXCEPT ![<<n, a>>] = @ + 1]
    /\ UNCHANGED <<now, address, expiresAt, issuing>>

Cleanup ==
    LET gone == {n \in rows : expiresAt[n] <= now} IN
    /\ gone # {}
    /\ rows' = rows \ gone
    /\ UNCHANGED <<now, address, expiresAt, issuing, accepted>>

Next ==
    \/ Tick \/ Cleanup
    \/ \E i \in Issuers : Abandon(i) \/ (\E a \in Addresses : Count(i, a)) \/ (\E n \in Nonces : Insert(i, n))
    \/ \E a \in Addresses, n \in Nonces : Consume(a, n)

Spec == Init /\ [][Next]_vars

-----------------------------------------------------------------------------
\* The abstract store: a row past its expiry has lapsed, swept or not.
Life == [n \in Nonces |->
    IF address[n] = {} THEN "fresh"
    ELSE IF \E a \in Addresses : accepted[<<n, a>>] > 0 THEN "used"
    ELSE IF n \in rows /\ Unexpired(n) THEN "live" ELSE "lapsed"]

Abstract == INSTANCE NonceStore WITH life <- Life, owner <- address

(***************************************************************************)
(* The table keeps a nonce store's promise across instances: a nonce is    *)
(* consumed by its own address, once, and never after its expiry (auth.ts  *)
(* 319-334, 343-401).                                                      *)
(***************************************************************************)
KeepsPromise == Abstract!Spec

(***************************************************************************)
(* How far concurrent challenges can overshoot the caps: the nonces        *)
(* outstanding and the challenges in flight are together less than the cap *)
(* and the challenges there can be, in the whole table and for one         *)
(* address.  So n challenges at a time exceed a cap by n - 1 nonces at     *)
(* most (auth.ts 344-375).                                                 *)
(***************************************************************************)
OvershootBounded ==
    /\ Cardinality(Outstanding) + Cardinality({i \in Issuers : issuing[i] # {}})
           < MaxEntries + Cardinality(Issuers)
    /\ \A a \in Addresses :
           Cardinality(OutstandingOf(a)) + Cardinality({i \in Issuers : a \in issuing[i]})
               < MaxPerAddress + Cardinality(Issuers)
=============================================================================
