----------------------------- MODULE NonceStore -----------------------------
(***************************************************************************)
(* What a nonce store promises (interface NonceStore in src/auth.ts): a    *)
(* nonce is issued to one address, can be consumed by that address only    *)
(* and only once, and otherwise lapses.  Both stores implement it.         *)
(***************************************************************************)
EXTENDS Naturals

CONSTANTS Nonces, Addresses

VARIABLES
    life,     \* per nonce: "fresh", "live", "used" or "lapsed"
    owner,    \* per nonce: the addresses it was issued to, at most one
    accepted  \* per nonce and address: how often consume said yes

Init == /\ life = [n \in Nonces |-> "fresh"]
        /\ owner = [n \in Nonces |-> {}]
        /\ accepted = [x \in Nonces \X Addresses |-> 0]

\* With a time to live of zero a nonce has lapsed as it is issued.
Issue(n, a) == /\ owner' = [owner EXCEPT ![n] = {a}]
               /\ life[n] = "fresh"
               /\ \E l \in {"live", "lapsed"} : life' = [life EXCEPT ![n] = l]
               /\ UNCHANGED accepted

Consume(n, a) == /\ accepted' = [accepted EXCEPT ![<<n, a>>] = @ + 1]
                 /\ life[n] = "live" /\ a \in owner[n]
                 /\ life' = [life EXCEPT ![n] = "used"]
                 /\ UNCHANGED owner

\* A sweep, or a restart, may end several at once.
Lapse == /\ UNCHANGED <<owner, accepted>>
         /\ life' \in [Nonces -> {"fresh", "live", "used", "lapsed"}]
         /\ \A n \in Nonces : life'[n] # life[n] => life[n] = "live" /\ life'[n] = "lapsed"

Next == Lapse \/ \E n \in Nonces, a \in Addresses : Issue(n, a) \/ Consume(n, a)

Spec == Init /\ [][Next]_<<life, owner, accepted>>
=============================================================================
