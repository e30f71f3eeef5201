----------------------------- MODULE MCFolding ------------------------------
(***************************************************************************)
(* The indexer's fold on small instances: the reorg checks (module Reorg)  *)
(* and the handlers (module EventFold, in four scenarios).  The two share  *)
(* no variable and no step, so a behaviour follows one of them, chosen at  *)
(* the start, while the other one stands still: what is an invariant here  *)
(* is one of each component by itself.                                     *)
(* The chain is never settled here: that only takes choices away, and      *)
(* module Recovery asks what must happen then.                             *)
(***************************************************************************)
EXTENDS Reorg, EventFold

CONSTANTS a1, l1, l2, l3, t1

VARIABLE subject   \* the component this behaviour is about

\* The life of a loan that is granted, late or at once.
LoanSymbols == {"joined", "loan_req", "loan_wait", "loan_appr", "loan_rpy", "loan_dflt"}

\* Everything about members and their loans.
MemberSymbols == LoanSymbols \cup
    {"exited", "staked", "unstaked", "claimed", "name_reg", "loan_edit", "loan_vote", "loan_rej", "loan_exp"}

TreasurySymbols ==
    {"tre_prop", "tre_vote", "revealed", "tre_wait", "tre_rej", "tre_exec", "committed", "doc_attn",
     "interest", "policy", "unreadable"}

\* A member and one loan, every event taken in order.
Members ==
    [symbols |-> MemberSymbols, loans |-> {l3}, events |-> 6, quarantined |-> 0,
     redeliveries |-> 0, page |-> 1, reindexes |-> 0]

\* Two loans, with an event that fails to fold, its replay, a redelivery and a rebuild.
Lending ==
    [symbols |-> LoanSymbols, loans |-> {l1, l2}, events |-> 6, quarantined |-> 1,
     redeliveries |-> 1, page |-> 1, reindexes |-> 1]

\* One loan, and a page of two events that a rebuild folds before it is delivered again.
Retrying ==
    [symbols |-> LoanSymbols, loans |-> {l3}, events |-> 5, quarantined |-> 2,
     redeliveries |-> 1, page |-> 2, reindexes |-> 1]

\* A treasury proposal, likewise.
Treasury ==
    [symbols |-> TreasurySymbols, loans |-> {}, events |-> 3, quarantined |-> 1,
     redeliveries |-> 1, page |-> 1, reindexes |-> 1]

FoldScenarios == {Members, Lending, Retrying, Treasury}

LoanSymmetry == Permutations({l1, l2})

FoldingInit ==
    /\ Init /\ FoldInit
    /\ subject \in {"reorg", "fold"}
    /\ subject = "reorg" => scenario = Members

FoldingNext ==
    /\ \/ subject = "reorg" /\ Next /\ ~settled' /\ UNCHANGED foldVars
       \/ subject = "fold" /\ FoldNext /\ UNCHANGED vars
    /\ UNCHANGED subject

FoldingSpec == FoldingInit /\ [][FoldingNext]_<<vars, foldVars, subject>>
=============================================================================
