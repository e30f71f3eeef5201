----------------------------- MODULE EventFold -----------------------------
(***************************************************************************)
(* The fold of contract events into the derived tables                     *)
(* (src/src/indexer/handlers.ts), the order in which events reach it, and  *)
(* its rebuild from the raw log (src/src/indexer/reindex.ts).              *)
(*                                                                         *)
(* The DAO contract is external: contract and its actions are              *)
(* written from what the handlers' comments and the event catalogue        *)
(* (src/src/stellar/events.ts) say it does.  It publishes an event per     *)
(* transition; the events are numbered in the order of the chain, which is *)
(* the (ledger, id) order of the log, and an event's number stands for its *)
(* id, its ledger and, through DayLength, its day.                         *)
(*                                                                         *)
(* A worker takes the events in order.  An event folds, or is stored       *)
(* unfolded with an open failed_events row; a replay folds it later; a     *)
(* page whose cursor was not saved is delivered again, which folds what is *)
(* stored and not marked folded; a reindex empties the derived tables and  *)
(* folds the whole raw log, without marking anything folded.  How these    *)
(* steps exclude each other is the subject of module Indexer: here each is *)
(* the one transaction it commits.                                         *)
(***************************************************************************)
EXTENDS Naturals, Sequences, FiniteSets, SequencesExt, FiniteSetsExt

CONSTANTS
    Addresses,   \* accounts: members, borrowers, destinations
    Loans,       \* ids of loan proposals, which are the ids of their loans
    Treasuries,  \* ids of treasury proposals
    NULL,        \* an SQL NULL, or a field the contract does not publish
    DayLength,   \* events per day
    Scenarios    \* what a behaviour may use of the contract, and its bounds

(***************************************************************************)
(* A scenario: the symbols and the loans of the contract that occur, and   *)
(* the bounds.  events: published by the contract; quarantined: events     *)
(* that fail to fold when they are first taken; redeliveries: pages        *)
(* delivered again, of at most page events; reindexes: rebuilds.           *)
(***************************************************************************)
ASSUME FoldAssumption ==
    /\ DayLength \in Nat \ {0}
    /\ NULL \notin Nat \cup Addresses
    /\ \A s \in Scenarios :
        /\ s.loans \subseteq Loans
        /\ s.events \in Nat /\ s.quarantined \in Nat /\ s.redeliveries \in Nat
        /\ s.page \in Nat /\ s.reindexes \in Nat

VARIABLES
    scenario,    \* chosen at the start
    contract,    \* the contract's own state
    published,   \* the events it published
    pos,         \* how far the worker got: the cursor
    stored,      \* rows of the raw log: events 1 .. stored
    folded,      \* the rows whose folded_at is set
    open,        \* events with an unresolved failed_events row
    derived,     \* the derived tables
    applied,     \* history: the events derived was folded from, in order
    redelivered, \* pages delivered again so far
    reindexed    \* rebuilds so far

foldVars == <<scenario, contract, published, pos, stored, folded, open, derived, applied, redelivered, reindexed>>

(***************************************************************************)
(* Tables are functions from the keys of the rows they hold.               *)
(***************************************************************************)

NoRows == [k \in {} |-> NULL]

Upsert(t, k, row) == [x \in DOMAIN t \cup {k} |-> IF x = k THEN row ELSE t[x]]

\* UPDATE ... WHERE key = k: nothing happens when there is no such row.
Patch(t, k, row) == IF k \in DOMAIN t THEN [t EXCEPT ![k] = row] ELSE t

Monus(a, b) == IF a > b THEN a - b ELSE 0

Day(e) == e.id \div DayLength

(***************************************************************************)
(* Events.  nr is the id of the proposal or loan, who the address, amount  *)
(* the first amount and total the second; bad holds the names of the       *)
(* fields that did not decode.                                             *)
(***************************************************************************)

Ev(symbol, nr, who, amount, total, support) ==
    [id |-> Len(published) + 1, symbol |-> symbol, nr |-> nr, who |-> who, amount |-> amount,
     total |-> total, support |-> support, weight |-> NULL, bad |-> {}]

\* The fields a handler reads with requireAddr, requireId, requireAmount,
\* requireBool and requireProposalKind, and the weight of a vote, which is
\* validated when it is there.  A fold without them throws.
Required(symbol) ==
    CASE symbol \in {"joined", "exited", "claimed", "staked", "unstaked"} -> {"who", "amount"}
      [] symbol = "loan_req" -> {"nr", "who", "amount", "total"}
      [] symbol = "loan_edit" -> {"nr", "amount", "total"}
      [] symbol \in {"loan_vote", "tre_vote", "revealed"} -> {"nr", "support", "weight"}
      [] symbol \in {"loan_wait", "loan_rej", "tre_wait", "tre_rej"} -> {"nr"}
      [] symbol \in {"loan_appr", "loan_rpy", "loan_dflt", "tre_prop"} -> {"nr", "who", "amount"}
      [] symbol \in {"loan_exp", "tre_exec"} -> {"nr", "who"}
      [] symbol = "doc_attn" -> {"nr", "who", "kind"}
      [] symbol = "interest" -> {"amount"}
      [] symbol = "name_reg" -> {"who"}
      [] OTHER -> {}

Throws(e) == e.bad \cap Required(e.symbol) # {}

weightOf(e) == IF e.weight = NULL THEN 1 ELSE e.weight

(***************************************************************************)
(* The handlers.  Each takes the derived tables d and an event e to the    *)
(* tables its statements leave behind.                                     *)
(***************************************************************************)

EmptyTables ==
    [members   |-> NoRows, proposals |-> NoRows, loans |-> NoRows, treasury |-> NoRows,
     notifications |-> << >>, interest |-> NoRows, daily |-> NoRows, documents |-> NoRows,
     totals |-> [interest |-> 0, lent |-> 0, repaid |-> 0, defaulted |-> 0]]

\* Faulty variant: a plain INSERT, without the ON CONFLICT of issue #271.
notify_always(d, e, address) ==
    [d EXCEPT !.notifications = Append(@, [event |-> e.id, address |-> address])]

notify(d, e, address) ==
    IF \/ address = NULL
       \/ [event |-> e.id, address |-> address] \in ToSet(d.notifications)
    THEN d
    ELSE [d EXCEPT !.notifications = Append(@, [event |-> e.id, address |-> address])]

NewDay == [originated |-> 0, lent |-> 0, repaid |-> 0, defaults |-> 0, defaulted |-> 0]

incrementDailyLoanStats(d, e, delta) ==
    LET row == IF Day(e) \in DOMAIN d.daily THEN d.daily[Day(e)] ELSE NewDay
    IN  [d EXCEPT !.daily = Upsert(@, Day(e), [c \in DOMAIN row |->
                                    row[c] + (IF c \in DOMAIN delta THEN delta[c] ELSE 0)])]

\* The columns a first insert leaves at their default.
NewMember == [stake |-> 0, claimed |-> 0, defaults |-> 0, name |-> NULL]

joined(d, e) ==
    LET old  == IF e.who \in DOMAIN d.members THEN d.members[e.who] ELSE NewMember
        row  == [joined_ledger |-> e.id, contribution |-> e.amount, exited |-> FALSE,
                 has_active_loan |-> FALSE, stake |-> old.stake, claimed |-> old.claimed,
                 defaults |-> old.defaults, name |-> old.name]
    IN  notify([d EXCEPT !.members = Upsert(@, e.who, row)], e, e.who)

\* Faulty variant: the stake survives the exit (issue #13).
exited_keepsStake(d, e) ==
    LET row == [d.members[e.who] EXCEPT !.exited = TRUE, !.has_active_loan = FALSE]
    IN  notify([d EXCEPT !.members = Patch(@, e.who, row)], e, e.who)

exited(d, e) ==
    LET row == [d.members[e.who] EXCEPT !.exited = TRUE, !.stake = 0, !.has_active_loan = FALSE]
    IN  notify([d EXCEPT !.members = Patch(@, e.who, row)], e, e.who)

claimed(d, e) ==
    LET row == [d.members[e.who] EXCEPT !.claimed = @ + e.amount]
    IN  notify([d EXCEPT !.members = Patch(@, e.who, row)], e, e.who)

loan_req(d, e) ==
    LET row == IF e.nr \in DOMAIN d.proposals
               THEN [d.proposals[e.nr] EXCEPT !.amount = e.amount, !.total = e.total]
               ELSE [borrower |-> e.who, amount |-> e.amount, total |-> e.total,
                     status |-> "pending", yes |-> 0, no |-> 0, voters |-> 0]
    IN  notify([d EXCEPT !.proposals = Upsert(@, e.nr, row)], e, e.who)

loan_edit(d, e) ==
    [d EXCEPT !.proposals = Patch(@, e.nr, [@[e.nr] EXCEPT !.amount = e.amount, !.total = e.total])]

Tally(row, e) ==
    [row EXCEPT !.yes = @ + (IF e.support THEN weightOf(e) ELSE 0),
                !.no = @ + (IF e.support THEN 0 ELSE weightOf(e)),
                !.voters = @ + 1]

loan_vote(d, e) == [d EXCEPT !.proposals = Patch(@, e.nr, Tally(@[e.nr], e))]

\* Faulty variant: loan_wait, loan_rej and loan_exp without AND status = 'pending'.
Pending_any(t, nr) == nr \in DOMAIN t

Pending(t, nr) == nr \in DOMAIN t /\ t[nr].status = "pending"

\* The shared shape of loan_wait, loan_rej and loan_exp: only a pending
\* proposal changes, and only then is its borrower told.
Close(d, e, status) ==
    IF Pending(d.proposals, e.nr)
    THEN notify([d EXCEPT !.proposals[e.nr].status = status], e, d.proposals[e.nr].borrower)
    ELSE d

loan_wait(d, e) == Close(d, e, "approved_pending_disbursement")

loan_rej(d, e) == Close(d, e, "rejected")

loan_exp(d, e) ==
    IF Pending(d.proposals, e.nr)
    THEN notify([d EXCEPT !.proposals[e.nr].status = "rejected"], e, e.who)
    ELSE d

HasActiveLoan(members, who, flag) ==
    Patch(members, who, [members[who] EXCEPT !.has_active_loan = flag])

loan_appr(d, e) ==
    LET isNew == e.nr \notin DOMAIN d.loans
        total == IF e.nr \in DOMAIN d.proposals THEN d.proposals[e.nr].total ELSE e.amount
        row   == IF isNew
                 THEN [borrower |-> e.who, amount |-> e.amount, total |-> total,
                       outstanding |-> total, status |-> "active", approved_ledger |-> e.id,
                       repaid_ledger |-> NULL, defaulted_ledger |-> NULL]
                 ELSE [d.loans[e.nr] EXCEPT !.status = "active", !.approved_ledger = e.id]
        d1    == [d EXCEPT !.proposals = Patch(@, e.nr, [@[e.nr] EXCEPT !.status = "approved"]),
                           !.loans = Upsert(@, e.nr, row),
                           !.members = HasActiveLoan(@, e.who, TRUE)]
        d2    == incrementDailyLoanStats([d1 EXCEPT !.totals.lent = @ + e.amount], e,
                                         [originated |-> 1, lent |-> e.amount])
    IN  notify(IF isNew THEN d2 ELSE d1, e, e.who)

\* Faulty variant: every repayment that leaves nothing outstanding adds the
\* principal to the total, redelivered or not.
ClearsLoan_again(d, e) == e.nr \in DOMAIN d.loans /\ e.amount = 0

\* The repayment that clears the loan: prev.status is not yet 'repaid'.
ClearsLoan(d, e) ==
    e.nr \in DOMAIN d.loans /\ e.amount = 0 /\ d.loans[e.nr].status # "repaid"

loan_rpy(d, e) ==
    LET repaid == e.amount = 0
        row    == [d.loans[e.nr] EXCEPT !.outstanding = e.amount,
                                        !.status = IF repaid THEN "repaid" ELSE "active",
                                        !.repaid_ledger = IF repaid THEN e.id ELSE @]
        d1     == [d EXCEPT !.loans = Patch(@, e.nr, row),
                            !.members = IF repaid THEN HasActiveLoan(@, e.who, FALSE) ELSE @]
        lent   == d.loans[e.nr].amount
        d2     == incrementDailyLoanStats([d1 EXCEPT !.totals.repaid = @ + lent], e,
                                          [repaid |-> lent])
    IN  notify(IF ClearsLoan(d, e) THEN d2 ELSE d1, e, e.who)

loan_dflt(d, e) ==
    LET owed == d.loans[e.nr].outstanding
        row  == [d.members[e.who] EXCEPT !.contribution = Monus(@, e.amount), !.defaults = @ + 1,
                                         !.has_active_loan = FALSE]
        d1   == [d EXCEPT !.loans[e.nr].status = "defaulted",
                          !.loans[e.nr].defaulted_ledger = e.id,
                          !.totals.defaulted = @ + owed,
                          !.members = Patch(@, e.who, row)]
    IN  IF e.nr \in DOMAIN d.loans /\ d.loans[e.nr].status # "defaulted"
        THEN notify(incrementDailyLoanStats(d1, e, [defaults |-> 1, defaulted |-> owed]), e, e.who)
        ELSE d

interest(d, e) ==
    IF e.id \in DOMAIN d.interest THEN d
    ELSE [d EXCEPT !.interest = Upsert(@, e.id, [amount |-> e.amount]),
                   !.totals.interest = @ + e.amount]

tre_prop(d, e) ==
    LET row == IF e.nr \in DOMAIN d.treasury
               THEN [d.treasury[e.nr] EXCEPT !.amount = e.amount, !.destination = e.who]
               ELSE [amount |-> e.amount, destination |-> e.who, status |-> "pending",
                     yes |-> 0, no |-> 0, voters |-> 0]
    IN  [d EXCEPT !.treasury = Upsert(@, e.nr, row)]

tre_vote(d, e) == [d EXCEPT !.treasury = Patch(@, e.nr, Tally(@[e.nr], e))]

revealed(d, e) == [d EXCEPT !.treasury = Patch(@, e.nr, Tally(@[e.nr], e))]

\* The shared shape of tre_wait and tre_rej.
CloseTreasury(d, e, status) ==
    IF Pending(d.treasury, e.nr)
    THEN notify([d EXCEPT !.treasury[e.nr].status = status], e, d.treasury[e.nr].destination)
    ELSE d

tre_wait(d, e) == CloseTreasury(d, e, "approved_pending_disbursement")

tre_rej(d, e) == CloseTreasury(d, e, "rejected")

tre_exec(d, e) ==
    notify([d EXCEPT !.treasury = Patch(@, e.nr, [@[e.nr] EXCEPT !.status = "executed"])], e, e.who)

staked(d, e) == [d EXCEPT !.members = Patch(@, e.who, [@[e.who] EXCEPT !.stake = e.amount])]

unstaked(d, e) == [d EXCEPT !.members = Patch(@, e.who, [@[e.who] EXCEPT !.stake = e.amount])]

name_reg(d, e) == [d EXCEPT !.members = Patch(@, e.who, [@[e.who] EXCEPT !.name = e.id])]

\* addr() makes of a voter that did not decode an empty string, which nobody is told about.
committed(d, e) == notify(d, e, IF "who" \in e.bad THEN NULL ELSE e.who)

doc_attn(d, e) ==
    IF e.id \in DOMAIN d.documents THEN d
    ELSE [d EXCEPT !.documents = Upsert(@, e.id, [proposal |-> e.nr, caller |-> e.who])]

\* A symbol without a handler leaves the derived tables alone.
applyEvent(d, e) ==
    CASE e.symbol = "joined"    -> joined(d, e)
      [] e.symbol = "exited"    -> exited(d, e)
      [] e.symbol = "claimed"   -> claimed(d, e)
      [] e.symbol = "loan_req"  -> loan_req(d, e)
      [] e.symbol = "loan_edit" -> loan_edit(d, e)
      [] e.symbol = "loan_vote" -> loan_vote(d, e)
      [] e.symbol = "loan_wait" -> loan_wait(d, e)
      [] e.symbol = "loan_rej"  -> loan_rej(d, e)
      [] e.symbol = "loan_appr" -> loan_appr(d, e)
      [] e.symbol = "loan_rpy"  -> loan_rpy(d, e)
      [] e.symbol = "loan_dflt" -> loan_dflt(d, e)
      [] e.symbol = "loan_exp"  -> loan_exp(d, e)
      [] e.symbol = "interest"  -> interest(d, e)
      [] e.symbol = "tre_prop"  -> tre_prop(d, e)
      [] e.symbol = "tre_vote"  -> tre_vote(d, e)
      [] e.symbol = "tre_wait"  -> tre_wait(d, e)
      [] e.symbol = "tre_rej"   -> tre_rej(d, e)
      [] e.symbol = "tre_exec"  -> tre_exec(d, e)
      [] e.symbol = "staked"    -> staked(d, e)
      [] e.symbol = "unstaked"  -> unstaked(d, e)
      [] e.symbol = "name_reg"  -> name_reg(d, e)
      [] e.symbol = "committed" -> committed(d, e)
      [] e.symbol = "doc_attn"  -> doc_attn(d, e)
      [] e.symbol = "revealed"  -> revealed(d, e)
      [] OTHER                  -> d

(***************************************************************************)
(* The contract (external).  An address pays Fee to join; a loan is asked  *)
(* for, edited, voted on, put on hold, rejected, expired or approved, then *)
(* repaid in two steps or defaulted; a treasury proposal likewise.  The    *)
(* contract publishes the next event once the worker took the last one:    *)
(* the worker reads nothing else of the contract, so nothing is lost.      *)
(***************************************************************************)

Fee == 2
Asked == [amount |-> 2, total |-> 3]
Edited == [amount |-> 1, total |-> 2]
Penalties == {1, 3}
Ballots == {[support |-> TRUE, weight |-> NULL], [support |-> FALSE, weight |-> 2]}

Outsider == [in |-> FALSE, contribution |-> 0, stake |-> 0, loan |-> FALSE]

NoProposal == [status |-> "none", who |-> NULL, amount |-> 0, total |-> 0, owed |-> 0, yes |-> 0, no |-> 0]

NewContract ==
    [member |-> [a \in Addresses |-> Outsider], loan |-> [l \in Loans |-> NoProposal],
     treasury |-> [t \in Treasuries |-> NoProposal], interest |-> 0]

Publish(e) ==
    /\ e.symbol \in scenario.symbols
    /\ pos = Len(published)
    /\ Len(published) < scenario.events
    /\ published' = Append(published, e)
    /\ UNCHANGED <<scenario, pos, stored, folded, open, derived, applied, redelivered, reindexed>>

MemberEvent(a, symbol, amount, row) ==
    /\ Publish(Ev(symbol, NULL, a, amount, NULL, NULL))
    /\ contract' = [contract EXCEPT !.member[a] = row]

ContractMember(a) ==
    LET m == contract.member[a] IN
    \/ ~m.in /\ MemberEvent(a, "joined", Fee, [m EXCEPT !.in = TRUE, !.contribution = Fee])
    \/ m.in /\ ~m.loan /\ MemberEvent(a, "exited", m.contribution, [Outsider EXCEPT !.contribution = m.contribution])
    \/ m.in /\ MemberEvent(a, "staked", m.stake + 1, [m EXCEPT !.stake = @ + 1])
    \/ m.stake > 0 /\ MemberEvent(a, "unstaked", m.stake - 1, [m EXCEPT !.stake = @ - 1])
    \/ m.in /\ MemberEvent(a, "claimed", 1, m)
    \/ MemberEvent(a, "name_reg", NULL, m)

LoanEvent(l, symbol, amount, total, row) ==
    /\ Publish(Ev(symbol, l, row.who, amount, total, NULL))
    /\ contract' = [contract EXCEPT !.loan[l] = row]

\* A loan is closed: its borrower is free to leave, at a cost when it defaulted.
LoanClosed(l, symbol, amount, row, contribution) ==
    /\ Publish(Ev(symbol, l, row.who, amount, NULL, NULL))
    /\ contract' = [contract EXCEPT !.loan[l] = row, !.member[row.who].loan = FALSE,
                              !.member[row.who].contribution = contribution]

ContractLoan(l) ==
    LET p == contract.loan[l] IN
    \/ /\ p.status = "none"
       /\ \E a \in Addresses :
            /\ contract.member[a].in
            /\ LoanEvent(l, "loan_req", Asked.amount, Asked.total,
                         [p EXCEPT !.status = "pending", !.who = a, !.amount = Asked.amount,
                                   !.total = Asked.total])
    \/ /\ p.status = "pending"
       /\ LoanEvent(l, "loan_edit", Edited.amount, Edited.total,
                    [p EXCEPT !.amount = Edited.amount, !.total = Edited.total])
    \/ /\ p.status = "pending"
       /\ LoanEvent(l, "loan_wait", NULL, NULL, [p EXCEPT !.status = "approved_pending_disbursement"])
    \/ /\ p.status = "pending"
       /\ \E s \in {"loan_rej", "loan_exp"} :
            LoanEvent(l, s, NULL, NULL, [p EXCEPT !.status = "rejected"])
    \/ /\ p.status \in {"pending", "approved_pending_disbursement"}
       /\ contract.member[p.who].in /\ ~contract.member[p.who].loan
       /\ Publish(Ev("loan_appr", l, p.who, p.amount, NULL, NULL))
       /\ contract' = [contract EXCEPT !.loan[l].status = "active", !.loan[l].owed = p.total,
                                 !.member[p.who].loan = TRUE]
    \/ /\ p.status = "active" /\ p.owed > 1
       /\ LoanEvent(l, "loan_rpy", 1, NULL, [p EXCEPT !.owed = 1])
    \/ /\ p.status = "active"
       /\ LoanClosed(l, "loan_rpy", 0, [p EXCEPT !.status = "repaid", !.owed = 0],
                     contract.member[p.who].contribution)
    \/ /\ p.status = "active"
       /\ \E c \in Penalties :
            LoanClosed(l, "loan_dflt", c, [p EXCEPT !.status = "defaulted"],
                       Monus(contract.member[p.who].contribution, c))

Vote(symbol, nr, b) ==
    [Ev(symbol, nr, CHOOSE a \in Addresses : TRUE, NULL, NULL, b.support) EXCEPT !.weight = b.weight]

Counted(p, b) ==
    LET w == IF b.weight = NULL THEN 1 ELSE b.weight
    IN  IF b.support THEN [p EXCEPT !.yes = @ + w] ELSE [p EXCEPT !.no = @ + w]

ContractVote(b) ==
    \/ \E l \in scenario.loans :
         /\ contract.loan[l].status = "pending"
         /\ Publish(Vote("loan_vote", l, b))
         /\ contract' = [contract EXCEPT !.loan[l] = Counted(@, b)]
    \/ \E t \in Treasuries, s \in {"tre_vote", "revealed"} :
         /\ contract.treasury[t].status = "pending"
         /\ Publish(Vote(s, t, b))
         /\ contract' = [contract EXCEPT !.treasury[t] = Counted(@, b)]

TreasuryEvent(t, symbol, row) ==
    /\ Publish(Ev(symbol, t, row.who, row.amount, NULL, NULL))
    /\ contract' = [contract EXCEPT !.treasury[t] = row]

ContractTreasury(t) ==
    LET p == contract.treasury[t] IN
    \/ /\ p.status = "none"
       /\ \E a \in Addresses :
            TreasuryEvent(t, "tre_prop", [p EXCEPT !.status = "pending", !.who = a, !.amount = 1])
    \/ p.status = "pending" /\ TreasuryEvent(t, "committed", p)
    \/ p.status = "pending" /\ TreasuryEvent(t, "doc_attn", p)
    \/ p.status = "pending" /\ TreasuryEvent(t, "tre_wait", [p EXCEPT !.status = "approved_pending_disbursement"])
    \/ p.status = "pending" /\ TreasuryEvent(t, "tre_rej", [p EXCEPT !.status = "rejected"])
    \/ /\ p.status \in {"pending", "approved_pending_disbursement"}
       /\ TreasuryEvent(t, "tre_exec", [p EXCEPT !.status = "executed"])

\* Interest is distributed, an administrator acts (no handler), or a value
\* reaches the indexer that its version of the SDK cannot read.
ContractOther ==
    \/ /\ Publish(Ev("interest", NULL, NULL, 1, NULL, NULL))
       /\ contract' = [contract EXCEPT !.interest = @ + 1]
    \/ /\ Publish(Ev("policy", NULL, NULL, NULL, NULL, NULL))
       /\ UNCHANGED contract
    \/ /\ "unreadable" \in scenario.symbols
       /\ \E s \in {"committed", "interest"} :
            Publish([Ev(s, NULL, NULL, NULL, NULL, NULL) EXCEPT !.bad = {"who", "amount"}])
       /\ UNCHANGED contract

(***************************************************************************)
(* The worker, the replay and the reindex.                                 *)
(***************************************************************************)

FoldInit ==
    /\ scenario \in Scenarios
    /\ contract = NewContract
    /\ published = << >> /\ pos = 0 /\ stored = 0
    /\ folded = {} /\ open = {}
    /\ derived = EmptyTables
    /\ applied = << >>
    /\ redelivered = 0 /\ reindexed = 0

Upcoming == pos + 1

\* The next event is stored, folded unless its row says it is, and marked.
Fold ==
    /\ pos < Len(published)
    /\ pos' = Upcoming
    /\ stored' = Max({stored, Upcoming})
    /\ IF Upcoming \in folded
       THEN UNCHANGED <<folded, derived, applied>>
       ELSE /\ ~Throws(published[Upcoming])
            /\ folded' = folded \cup {Upcoming}
            /\ derived' = applyEvent(derived, published[Upcoming])
            /\ applied' = Append(applied, Upcoming)
    /\ UNCHANGED <<scenario, contract, published, open, redelivered, reindexed>>

\* Its fold fails: for good, or because of a fault that is gone later.
Quarantine ==
    /\ pos < Len(published) /\ Upcoming \notin folded
    /\ Throws(published[Upcoming]) \/ Cardinality(open) < scenario.quarantined
    /\ pos' = Upcoming
    /\ stored' = Max({stored, Upcoming})
    /\ open' = open \cup {Upcoming}
    /\ UNCHANGED <<scenario, contract, published, folded, derived, applied, redelivered, reindexed>>

\* The cursor of the last page was not saved: the page is delivered again.
Redeliver ==
    /\ redelivered < scenario.redeliveries
    /\ pos = stored
    /\ \E n \in 1 .. scenario.page : n <= pos /\ pos' = pos - n
    /\ redelivered' = redelivered + 1
    /\ UNCHANGED <<scenario, contract, published, stored, folded, open, derived, applied, reindexed>>

\* replayFailedEvent; an event that still throws leaves the row as it is.
Replay(i) ==
    /\ i \in open
    /\ i \in folded \/ ~Throws(published[i])
    /\ open' = open \ {i}
    /\ IF i \in folded
       THEN UNCHANGED <<folded, derived, applied>>
       ELSE /\ folded' = folded \cup {i}
            /\ derived' = applyEvent(derived, published[i])
            /\ applied' = Append(applied, i)
    /\ UNCHANGED <<scenario, contract, published, pos, stored, redelivered, reindexed>>

\* TRUNCATE, resetDaoTotals, and the first n rows of the log in (ledger, id) order.
Rebuild(log, n) ==
    LET run[i \in 0 .. n] == IF i = 0 THEN EmptyTables ELSE applyEvent(run[i - 1], log[i])
    IN  run[n]

\* One event that throws rolls the whole rebuild back.
reindexFromEventLog ==
    /\ reindexed < scenario.reindexes
    /\ \A i \in 1 .. stored : ~Throws(published[i])
    /\ derived' = Rebuild(published, stored)
    /\ applied' = [i \in 1 .. stored |-> i]
    /\ open' = {}
    /\ reindexed' = reindexed + 1
    /\ UNCHANGED <<scenario, contract, published, pos, stored, folded, redelivered>>

FoldNext ==
    \/ \E a \in Addresses : ContractMember(a)
    \/ \E l \in scenario.loans : ContractLoan(l)
    \/ \E t \in Treasuries : ContractTreasury(t)
    \/ \E b \in Ballots : ContractVote(b)
    \/ ContractOther
    \/ Fold
    \/ Quarantine
    \/ Redeliver
    \/ \E i \in open : Replay(i)
    \/ reindexFromEventLog

FoldSpec == FoldInit /\ [][FoldNext]_foldVars

-----------------------------------------------------------------------------
(***************************************************************************)
(* Properties.                                                             *)
(***************************************************************************)

\* The derived tables come from every stored event, once each, in order.
InOrder == applied = [i \in 1 .. pos |-> i] /\ pos = stored

\* What the contract's record of a loan is in the indexer's terms.
MirrorsLoan(d, c, l) ==
    LET p == c.loan[l]
        onLoan == p.status \in {"active", "repaid", "defaulted"}
    IN  /\ (p.status # "none") <=> (l \in DOMAIN d.proposals)
        /\ onLoan <=> (l \in DOMAIN d.loans)
        /\ p.status # "none" =>
             LET row == d.proposals[l] IN
             /\ row.status = (IF onLoan THEN "approved" ELSE p.status)
             /\ row.borrower = p.who /\ row.amount = p.amount /\ row.total = p.total
             /\ row.yes = p.yes /\ row.no = p.no
        /\ onLoan =>
             LET row == d.loans[l] IN
             row.status = p.status /\ row.outstanding = p.owed /\ row.amount = p.amount

MirrorsTreasury(d, c, t) ==
    LET p == c.treasury[t]
    IN  /\ (p.status # "none") <=> (t \in DOMAIN d.treasury)
        /\ p.status # "none" =>
             LET row == d.treasury[t] IN
             row.status = p.status /\ row.yes = p.yes /\ row.no = p.no

MirrorsMember(d, c, a) ==
    LET m == c.member[a]
    IN  /\ m.in => a \in DOMAIN d.members
        /\ a \in DOMAIN d.members =>
             LET row == d.members[a] IN
             /\ row.exited = ~m.in
             /\ row.contribution = m.contribution
             /\ row.stake = m.stake
             /\ row.has_active_loan = m.loan

Mirrors(d, c) ==
    /\ \A l \in Loans : MirrorsLoan(d, c, l)
    /\ \A t \in Treasuries : MirrorsTreasury(d, c, t)
    /\ \A a \in Addresses : MirrorsMember(d, c, a)
    /\ d.totals.interest = c.interest

(***************************************************************************)
(* Mirroring.  A fold that took every event once and in order leaves the   *)
(* tables as the contract is: membership, contribution, stake and loan     *)
(* flag of every member, status, terms and tally of every proposal, status *)
(* and debt of every loan, and the interest collected (handlers.ts: "a     *)
(* handler must mirror the contract's own state transition", issue #10).   *)
(***************************************************************************)
MirrorsContract == InOrder /\ pos = Len(published) => Mirrors(derived, contract)

Total(f) == MapThenSumSet(LAMBDA k : f[k], DOMAIN f)

Column(t, c) == [k \in DOMAIN t |-> t[k][c]]

LoansWith(d, c) == {l \in DOMAIN d.loans : d.loans[l][c] # NULL}

PrincipalOf(d, S) == Total([l \in S |-> d.loans[l].amount])

\* No event was folded again once another one had been: a page of one event that a
\* rebuild folded and a redelivery folds again.
RetriedAtOnce(s) ==
    \A i, j \in DOMAIN s : i < j /\ s[i] = s[j] => \A k \in i .. j : s[k] = s[i]

(***************************************************************************)
(* The books.  In whatever order events were folded, replayed, rebuilt or  *)
(* delivered again, dao_totals says of the principal lent what the loans   *)
(* say, and the days of daily_loan_stats add up to the totals; and what is *)
(* repaid and defaulted agrees with the loans too, unless an event was     *)
(* folded again after others (handlers.ts 346-489, reindex.ts 89-173).     *)
(***************************************************************************)
BooksBalance ==
    LET daily(c) == Total(Column(derived.daily, c)) IN
    /\ derived.totals.lent = PrincipalOf(derived, DOMAIN derived.loans)
    /\ daily("lent") = derived.totals.lent
    /\ daily("repaid") = derived.totals.repaid
    /\ daily("defaulted") = derived.totals.defaulted
    /\ daily("originated") = Cardinality(DOMAIN derived.loans)
    /\ RetriedAtOnce(applied) =>
         /\ derived.totals.repaid = PrincipalOf(derived, LoansWith(derived, "repaid_ledger"))
         /\ daily("defaults") = Cardinality(LoansWith(derived, "defaulted_ledger"))

(***************************************************************************)
(* Nobody is told twice of an event, although a rebuild and a redelivery   *)
(* may fold it twice (handlers.ts 143-159, issue #271).                    *)
(***************************************************************************)
NotifiedOnce == IsInjective(derived.notifications)

(***************************************************************************)
(* A late event does not reopen what is closed: an approved loan proposal  *)
(* and an executed treasury proposal keep their status whatever is         *)
(* replayed after them; only a rebuild starts the tables again             *)
(* (handlers.ts 294-344, 491-509, 574-632).                                *)
(***************************************************************************)
StaysClosed ==
    [][reindexed' = reindexed =>
        /\ \A l \in DOMAIN derived.proposals :
             derived.proposals[l].status = "approved" => derived'.proposals[l].status = "approved"
        /\ \A t \in DOMAIN derived.treasury :
             derived.treasury[t].status = "executed" => derived'.treasury[t].status = "executed"]_foldVars
=============================================================================
