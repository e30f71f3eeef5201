----------------------------- MODULE MCRecovery -----------------------------
(***************************************************************************)
(* Recovery on a small instance: three stream requests, two of them from   *)
(* one address; an RPC node one ledger behind, more than the grace of      *)
(* none, and no START_LEDGER; two API processes.                           *)
(***************************************************************************)
EXTENDS Recovery

CONSTANTS r1, r2, r3, ip1, ip2, k1, a1, api1, api2

IpOfThree == [r \in {r1, r2, r3} |-> IF r = r3 THEN ip2 ELSE ip1]
=============================================================================
