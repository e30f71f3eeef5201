----------------------------- MODULE FoldProofs -----------------------------
(***************************************************************************)
(* The theorems about EventFold.tla, for any sets of members, loans and    *)
(* treasury proposals, any scenarios, logs of any length and any pattern   *)
(* of failures, replays and reindexes: notifications are written once, the *)
(* books on loans balance, the derived tables mirror the contract, what a  *)
(* reindex rebuilds is what the worker built, and what was closed stays    *)
(* closed.                                                                 *)
(*                                                                         *)
(* The argument, in the order of the sections: the rebuild's recursion has *)
(* exactly one solution; every handler, and so applyEvent, keeps the       *)
(* tables typed, tells nobody twice and reopens nothing; sums over finite  *)
(* tables do not depend on the order a CHOOSE fixes; hence every fold      *)
(* keeps the books; every event of the contract takes tables that mirror   *)
(* the contract to tables that mirror its next state; and FoldInv, which   *)
(* puts this together, is inductive.  The library's induction theorems     *)
(* take an operator as a parameter; inductions here look for a least       *)
(* counterexample instead.                                                 *)
(***************************************************************************)
EXTENDS EventFold, SequenceTheorems, FiniteSetTheorems, TLAPS

\* A set of naturals that is not empty has a least element: every induction below is a
\* search for the least counterexample.
LEMMA Least ==
    ASSUME NEW S \in SUBSET Nat, S # {}
    PROVE  \E m \in S : \A y \in S : m <= y
<1> DEFINE R == {ss \in Nat \X Nat : ss[1] < ss[2]}
<1>1. IsWellFoundedOn(R, Nat)
  BY NatLessThanWellFounded DEF OpToRel
<1>2. \E x \in S : \A y \in S : ~(<<y, x>> \in R)
  <2> HIDE DEF R
  <2> QED
    BY <1>1, WFMin
<1>3. \A x, y \in Nat : ~(<<y, x>> \in R) => x <= y
  <2> SUFFICES ASSUME NEW x \in Nat, NEW y \in Nat, y < x PROVE <<y, x>> \in R
    OBVIOUS
  <2>1. <<y, x>> \in Nat \X Nat /\ <<y, x>>[1] < <<y, x>>[2]
    OBVIOUS
  <2> QED
    BY <2>1
<1> HIDE DEF R
<1> QED
  BY <1>2, <1>3

-----------------------------------------------------------------------------
\* The rebuild.  Its recursion is well defined, so that n + 1 rows give the tables of
\* n rows with the last one applied.

\* run[i] is what the first i rows of the log fold to.
IsRun(run, log, n) ==
    run = [i \in 0 .. n |-> IF i = 0 THEN EmptyTables ELSE applyEvent(run[i - 1], log[i])]

\* The recursion of the rebuild has a solution.
LEMMA RunExists == ASSUME NEW log, NEW n \in Nat PROVE \E run : IsRun(run, log, n)
<1> DEFINE Fails == {m \in Nat : ~\E run : IsRun(run, log, m)}
<1> SUFFICES ASSUME n \in Fails PROVE FALSE
  OBVIOUS
<1>1. PICK m \in Fails : \A y \in Fails : m <= y
  BY Least
<1>2. CASE m = 0
  <2>1. IsRun([i \in 0 .. 0 |-> EmptyTables], log, 0)
    BY DEF IsRun
  <2> QED
    BY <1>1, <1>2, <2>1
<1>3. CASE m # 0
  <2>1. m \in Nat /\ m - 1 \in Nat /\ ~(m <= m - 1)
    BY <1>1, <1>3
  <2>2. PICK run : IsRun(run, log, m - 1)
    BY <1>1, <2>1
  <2> DEFINE more == [i \in 0 .. m |-> IF i < m THEN run[i] ELSE applyEvent(run[m - 1], log[m])]
  <2>3. ASSUME NEW i \in 0 .. m
        PROVE  more[i] = IF i = 0 THEN EmptyTables ELSE applyEvent(more[i - 1], log[i])
    <3>1. CASE i = m
      <4>1. more[i] = applyEvent(run[m - 1], log[m]) /\ more[i - 1] = run[m - 1]
        BY <2>1, <3>1
      <4> QED
        BY <1>3, <3>1, <4>1
    <3>2. CASE i < m
      <4>1. i \in 0 .. (m - 1)
        BY <2>1, <3>2
      <4>2. run[i] = IF i = 0 THEN EmptyTables ELSE applyEvent(run[i - 1], log[i])
        BY <2>2, <4>1 DEF IsRun
      <4>3. more[i] = run[i] /\ (i # 0 => more[i - 1] = run[i - 1])
        BY <2>1, <3>2
      <4> QED
        BY <4>2, <4>3
    <3> QED
      BY <2>1, <3>1, <3>2
  <2>4. IsRun(more, log, m)
    <3> DEFINE again == [i \in 0 .. m |-> IF i = 0 THEN EmptyTables ELSE applyEvent(more[i - 1], log[i])]
    <3>1. DOMAIN more = 0 .. m /\ DOMAIN again = 0 .. m
      OBVIOUS
    <3>2. \A i \in 0 .. m : more[i] = again[i]
      <4> HIDE DEF more
      <4> QED
        BY <2>3
    <3>3. more = [i \in 0 .. m |-> more[i]] /\ again = [i \in 0 .. m |-> again[i]]
      OBVIOUS
    <3> QED
      BY <3>2, <3>3 DEF IsRun
  <2> HIDE DEF more
  <2> QED
    BY <1>1, <2>4
<1> QED
  BY <1>2, <1>3

\* Two solutions agree wherever both are defined.
LEMMA RunsAgree ==
    ASSUME NEW log, NEW m \in Nat, NEW n \in Nat, m <= n,
           NEW r, NEW q, IsRun(r, log, m), IsRun(q, log, n)
    PROVE  r[m] = q[m]
<1> DEFINE Differ == {i \in 0 .. m : r[i] # q[i]}
<1> SUFFICES ASSUME m \in Differ PROVE FALSE
  OBVIOUS
<1>1. PICK i \in Differ : \A y \in Differ : i <= y
  <2>1. Differ \in SUBSET Nat /\ Differ # {}
    OBVIOUS
  <2> HIDE DEF Differ
  <2> QED
    BY <2>1, Least
<1>2. i \in 0 .. m /\ i \in 0 .. n /\ i \in Nat
  BY <1>1
<1>3. r[i] = (IF i = 0 THEN EmptyTables ELSE applyEvent(r[i - 1], log[i]))
  BY <1>2 DEF IsRun
<1>4. q[i] = (IF i = 0 THEN EmptyTables ELSE applyEvent(q[i - 1], log[i]))
  BY <1>2 DEF IsRun
<1>5. i # 0
  BY <1>1, <1>3, <1>4
<1>6. i - 1 \in 0 .. m /\ ~(i <= i - 1)
  BY <1>2, <1>5
<1>7. r[i - 1] = q[i - 1]
  BY <1>1, <1>6
<1> QED
  BY <1>1, <1>3, <1>4, <1>7

\* Rebuild, a CHOOSE over such a recursion, is the last value of one.
LEMMA RebuildIs ==
    ASSUME NEW log, NEW n \in Nat
    PROVE  \E run : IsRun(run, log, n) /\ Rebuild(log, n) = run[n]
<1>1. \E run : IsRun(run, log, n)
  BY RunExists
<1> DEFINE run == CHOOSE run : IsRun(run, log, n)
<1>2. IsRun(run, log, n)
  BY <1>1
<1>3. Rebuild(log, n) = run[n]
  BY DEF Rebuild, IsRun
<1> QED
  BY <1>2, <1>3

\* One row more is one applyEvent more (reindexer.ts applies the rows in order).
LEMMA RebuildStep ==
    ASSUME NEW log
    PROVE  /\ Rebuild(log, 0) = EmptyTables
           /\ \A n \in Nat : Rebuild(log, n + 1) = applyEvent(Rebuild(log, n), log[n + 1])
<1>1. Rebuild(log, 0) = EmptyTables
  <2>1. PICK run : IsRun(run, log, 0) /\ Rebuild(log, 0) = run[0]
    BY RebuildIs
  <2>2. run[0] = EmptyTables
    BY <2>1 DEF IsRun
  <2> QED
    BY <2>1, <2>2
<1>2. ASSUME NEW n \in Nat
      PROVE  Rebuild(log, n + 1) = applyEvent(Rebuild(log, n), log[n + 1])
  <2>1. PICK run : IsRun(run, log, n) /\ Rebuild(log, n) = run[n]
    BY RebuildIs
  <2>2. PICK more : IsRun(more, log, n + 1) /\ Rebuild(log, n + 1) = more[n + 1]
    BY RebuildIs
  <2>3. run[n] = more[n]
    BY <2>1, <2>2, RunsAgree
  <2>4. more[n + 1] = applyEvent(more[n], log[n + 1])
    <3>1. n + 1 \in 0 .. (n + 1) /\ n + 1 # 0 /\ (n + 1) - 1 = n
      OBVIOUS
    <3> QED
      BY <2>2, <3>1 DEF IsRun
  <2> QED
    BY <2>1, <2>2, <2>3, <2>4
<1> QED
  BY <1>1, <1>2

\* A longer log rebuilds to the same tables as far as the rows are the same.
LEMMA RebuildSame ==
    ASSUME NEW log, NEW more, NEW n \in Nat, \A i \in 1 .. n : more[i] = log[i]
    PROVE  Rebuild(more, n) = Rebuild(log, n)
<1> DEFINE Differ == {i \in 0 .. n : Rebuild(more, i) # Rebuild(log, i)}
<1> SUFFICES ASSUME n \in Differ PROVE FALSE
  OBVIOUS
<1>1. PICK i \in Differ : \A y \in Differ : i <= y
  <2>1. Differ \in SUBSET Nat /\ Differ # {}
    OBVIOUS
  <2> HIDE DEF Differ
  <2> QED
    BY <2>1, Least
<1>2. i # 0
  BY <1>1, RebuildStep
<1>3. i - 1 \in Nat /\ i - 1 \in 0 .. n /\ i \in 1 .. n /\ (i - 1) + 1 = i /\ ~(i <= i - 1)
  BY <1>1, <1>2
<1>4. Rebuild(more, i - 1) = Rebuild(log, i - 1)
  BY <1>1, <1>3
<1>5. Rebuild(more, i) = applyEvent(Rebuild(more, i - 1), more[i])
  BY <1>3, RebuildStep
<1>6. Rebuild(log, i) = applyEvent(Rebuild(log, i - 1), log[i])
  BY <1>3, RebuildStep
<1> QED
  BY <1>1, <1>3, <1>4, <1>5, <1>6

-----------------------------------------------------------------------------
\* The types of the derived tables and of events.

\* A notification row, as far as its unique key (notify.ts) tells rows apart.
Tellings == [event : Nat, address : Addresses]

\* The statuses the handlers write to proposals and treasury proposals.
ProposalStates ==
    {"pending", "approved_pending_disbursement", "rejected", "approved", "executed"}

\* The rows of the derived tables.
MemberRows ==
    [joined_ledger : Nat, contribution : Nat, exited : BOOLEAN, has_active_loan : BOOLEAN,
     stake : Nat, claimed : Nat, defaults : Nat, name : Nat \cup {NULL}]

ProposalRows ==
    [borrower : Addresses, amount : Nat, total : Nat, status : ProposalStates,
     yes : Nat, no : Nat, voters : Nat]

LoanRows ==
    [borrower : Addresses, amount : Nat, total : Nat, outstanding : Nat,
     status : {"active", "repaid", "defaulted"}, approved_ledger : Nat,
     repaid_ledger : Nat \cup {NULL}, defaulted_ledger : Nat \cup {NULL}]

TreasuryRows ==
    [amount : Nat, destination : Addresses, status : ProposalStates,
     yes : Nat, no : Nat, voters : Nat]

DayRows == [originated : Nat, lent : Nat, repaid : Nat, defaults : Nat, defaulted : Nat]

TotalsRows == [interest : Nat, lent : Nat, repaid : Nat, defaulted : Nat]

\* The derived tables.
TableNames ==
    {"members", "proposals", "loans", "treasury", "notifications", "interest", "daily",
     "documents", "totals"}

\* t is a table of such rows, whatever its keys.
IsTable(t, rows) == t \in [DOMAIN t -> rows]

\* Every table holds rows of its type; loans and days, which are summed, are finitely
\* many.
TablesOK(d) ==
    /\ DOMAIN d = TableNames
    /\ IsTable(d.members, MemberRows)
    /\ IsTable(d.proposals, ProposalRows)
    /\ IsTable(d.loans, LoanRows) /\ IsFiniteSet(DOMAIN d.loans)
    /\ IsTable(d.treasury, TreasuryRows)
    /\ IsTable(d.daily, DayRows) /\ IsFiniteSet(DOMAIN d.daily)
    /\ d.notifications \in Seq(Tellings)
    /\ d.totals \in TotalsRows

\* What the handlers read of an event whose fold does not throw.
Names == {"joined", "exited", "claimed", "staked", "unstaked", "name_reg", "loan_req", "loan_appr",
          "loan_rpy", "loan_dflt", "loan_exp", "tre_prop", "tre_exec"}

\* The symbols whose handlers read an amount.
Amounts == {"joined", "claimed", "staked", "unstaked", "loan_req", "loan_edit", "loan_appr",
            "loan_rpy", "loan_dflt", "interest", "tre_prop"}

\* What a handler reads of an event it does not throw on.
EventOK(e) ==
    /\ e.id \in Nat
    /\ e.symbol \in Names => e.who \in Addresses
    /\ e.symbol = "committed" => "who" \in e.bad \/ e.who \in Addresses
    /\ e.symbol \in Amounts => e.amount \in Nat
    /\ e.symbol \in {"loan_req", "loan_edit"} => e.total \in Nat
    /\ e.symbol \in {"loan_vote", "tre_vote", "revealed"} =>
         e.support \in BOOLEAN /\ e.weight \in Nat \cup {NULL}

\* u has the keys of t.
SameKeys(t, u) == DOMAIN u = DOMAIN t

\* t has this row at k.
HasRow(t, k, row) == k \in DOMAIN t /\ t[k] = row

\* Nothing but the row of k changes in a table.
RowOnly(t, u, k) ==
    /\ DOMAIN u \ {k} = DOMAIN t \ {k}
    /\ \A y \in DOMAIN t \ {k} : u[y] = t[y]

\* INSERT ... ON CONFLICT DO UPDATE writes one row and leaves a table.
LEMMA UpsertTable ==
    ASSUME NEW t, NEW k, NEW rows, NEW row \in rows, IsTable(t, rows)
    PROVE  /\ IsTable(Upsert(t, k, row), rows)
           /\ DOMAIN Upsert(t, k, row) = DOMAIN t \cup {k}
           /\ Upsert(t, k, row)[k] = row
           /\ RowOnly(t, Upsert(t, k, row), k)
BY DEF Upsert, IsTable, RowOnly

\* UPDATE ... WHERE id = k writes at most one row and inserts none.
LEMMA PatchTable ==
    ASSUME NEW t, NEW k, NEW rows, NEW row, IsTable(t, rows), k \in DOMAIN t => row \in rows
    PROVE  /\ IsTable(Patch(t, k, row), rows)
           /\ DOMAIN Patch(t, k, row) = DOMAIN t
           /\ k \in DOMAIN t => Patch(t, k, row)[k] = row
           /\ RowOnly(t, Patch(t, k, row), k)
BY DEF Patch, IsTable, RowOnly

\* x is d but for the notifications.
SameTables(d, x) ==
    /\ x.members = d.members /\ x.proposals = d.proposals /\ x.loans = d.loans
    /\ x.treasury = d.treasury /\ x.interest = d.interest /\ x.daily = d.daily
    /\ x.documents = d.documents /\ x.totals = d.totals

\* If nobody had been told twice before, nobody has been afterwards.
ToldOnce(d, x) == IsInjective(d.notifications) => IsInjective(x.notifications)

\* notify writes no table but notifications, and ON CONFLICT DO NOTHING keeps its rows
\* distinct.
LEMMA NotifyMeans ==
    ASSUME NEW d, NEW e, NEW a \in Addresses \cup {NULL}, e.id \in Nat, TablesOK(d)
    PROVE  /\ TablesOK(notify(d, e, a))
           /\ SameTables(d, notify(d, e, a))
           /\ ToldOnce(d, notify(d, e, a))
<1> DEFINE n == [event |-> e.id, address |-> a]
<1>1. CASE a = NULL \/ n \in ToSet(d.notifications)
  <2>1. notify(d, e, a) = d
    BY <1>1 DEF notify
  <2> QED
    BY <2>1 DEF SameTables, ToldOnce
<1>2. CASE a # NULL /\ n \notin ToSet(d.notifications)
  <2> DEFINE s == d.notifications
             x == [d EXCEPT !.notifications = Append(s, n)]
  <2>1. notify(d, e, a) = x
    BY <1>2 DEF notify
  <2>2. s \in Seq(Tellings) /\ n \in Tellings
    BY <1>2 DEF TablesOK, Tellings
  <2>3. DOMAIN x = TableNames /\ x.notifications = Append(s, n) /\ SameTables(d, x)
    BY DEF TablesOK, TableNames, SameTables
  <2>4. Append(s, n) \in Seq(Tellings)
    BY <2>2
  <2>5. TablesOK(x)
    BY <2>3, <2>4 DEF TablesOK, SameTables
  <2>6. IsInjective(s) => IsInjective(Append(s, n))
    <3> SUFFICES ASSUME IsInjective(s), NEW i \in DOMAIN Append(s, n), NEW j \in DOMAIN Append(s, n),
                        Append(s, n)[i] = Append(s, n)[j]
                 PROVE  i = j
      BY DEF IsInjective
    <3>1. DOMAIN s = 1 .. Len(s) /\ Len(s) \in Nat /\ DOMAIN Append(s, n) = 1 .. (Len(s) + 1)
      BY <2>2
    <3>2. Append(s, n)[Len(s) + 1] = n /\ \A k \in 1 .. Len(s) : Append(s, n)[k] = s[k]
      BY <2>2
    <3>3. \A k \in 1 .. Len(s) : s[k] # n
      BY <1>2, <3>1 DEF ToSet
    <3> HIDE DEF n, s
    <3>4. CASE i \in 1 .. Len(s) /\ j \in 1 .. Len(s)
      BY <3>1, <3>2, <3>4 DEF IsInjective
    <3>5. CASE ~(i \in 1 .. Len(s) /\ j \in 1 .. Len(s))
      BY <3>1, <3>2, <3>3, <3>5
    <3> QED
      BY <3>4, <3>5
  <2> QED
    BY <2>1, <2>3, <2>5, <2>6 DEF ToldOnce
<1> QED
  BY <1>1, <1>2

-----------------------------------------------------------------------------
\* The handlers, one lemma each: the tables they leave behind are tables, nobody was
\* told twice, nothing closed was reopened, and what changed is said.

\* An approved proposal stays approved and an executed treasury proposal executed.
KeepsClosed(d, x) ==
    /\ \A l \in DOMAIN d.proposals : d.proposals[l].status = "approved" =>
         l \in DOMAIN x.proposals /\ x.proposals[l].status = "approved"
    /\ \A t \in DOMAIN d.treasury : d.treasury[t].status = "executed" =>
         t \in DOMAIN x.treasury /\ x.treasury[t].status = "executed"

\* What every handler guarantees.
Good(d, x) == TablesOK(x) /\ ToldOnce(d, x) /\ KeepsClosed(d, x)

\* Nothing but the tables in F changes, the notifications aside.
Only(d, x, F) == \A f \in TableNames \ (F \cup {"notifications"}) : x[f] = d[f]

\* A handler that writes d1 and then tells a.
LEMMA ThenTold ==
    ASSUME NEW d, NEW d1, NEW e, NEW a \in Addresses \cup {NULL}, NEW F, e.id \in Nat,
           TablesOK(d), TablesOK(d1), d1.notifications = d.notifications,
           KeepsClosed(d, d1), Only(d, d1, F)
    PROVE  LET x == notify(d1, e, a)
           IN  Good(d, x) /\ Only(d, x, F) /\ SameTables(d1, x)
<1> DEFINE x == notify(d1, e, a)
<1>1. TablesOK(x) /\ SameTables(d1, x) /\ ToldOnce(d1, x)
  BY NotifyMeans
<1> HIDE DEF x
<1>2. ToldOnce(d, x)
  BY <1>1 DEF ToldOnce
<1>3. KeepsClosed(d, x)
  BY <1>1 DEF KeepsClosed, SameTables
<1>4. Only(d, x, F)
  BY <1>1 DEF Only, SameTables, TableNames
<1> QED
  BY <1>1, <1>2, <1>3, <1>4 DEF Good, x

\* Writing one table alone, with rows of its type.
LEMMA MembersChanged ==
    ASSUME NEW d, NEW u, TablesOK(d), IsTable(u, MemberRows)
    PROVE  LET x == [d EXCEPT !.members = u]
           IN  /\ TablesOK(x) /\ KeepsClosed(d, x) /\ Only(d, x, {"members"})
               /\ x.notifications = d.notifications /\ x.members = u
<1> DEFINE x == [d EXCEPT !.members = u]
<1>1. DOMAIN x = TableNames /\ x.members = u
  BY DEF TablesOK, TableNames
<1>2. \A f \in TableNames \ {"members"} : x[f] = d[f]
  BY DEF TablesOK
<1> HIDE DEF x
<1>3. TablesOK(x)
  BY <1>1, <1>2 DEF TablesOK, TableNames
<1>4. KeepsClosed(d, x)
  BY <1>1, <1>2 DEF KeepsClosed, TableNames
<1>5. Only(d, x, {"members"}) /\ x.notifications = d.notifications
  BY <1>2 DEF Only, TableNames
<1> QED
  BY <1>1, <1>3, <1>4, <1>5 DEF x

LEMMA ProposalsChanged ==
    ASSUME NEW d, NEW u, TablesOK(d), IsTable(u, ProposalRows),
           \A k \in DOMAIN d.proposals : d.proposals[k].status = "approved" =>
             k \in DOMAIN u /\ u[k].status = "approved"
    PROVE  LET x == [d EXCEPT !.proposals = u]
           IN  /\ TablesOK(x) /\ KeepsClosed(d, x) /\ Only(d, x, {"proposals"})
               /\ x.notifications = d.notifications /\ x.proposals = u
<1> DEFINE x == [d EXCEPT !.proposals = u]
<1>1. DOMAIN x = TableNames /\ x.proposals = u
  BY DEF TablesOK, TableNames
<1>2. \A f \in TableNames \ {"proposals"} : x[f] = d[f]
  BY DEF TablesOK
<1> HIDE DEF x
<1>3. TablesOK(x)
  BY <1>1, <1>2 DEF TablesOK, TableNames
<1>4. KeepsClosed(d, x)
  BY <1>1, <1>2 DEF KeepsClosed, TableNames
<1>5. Only(d, x, {"proposals"}) /\ x.notifications = d.notifications
  BY <1>2 DEF Only, TableNames
<1> QED
  BY <1>1, <1>3, <1>4, <1>5 DEF x

LEMMA TreasuryChanged ==
    ASSUME NEW d, NEW u, TablesOK(d), IsTable(u, TreasuryRows),
           \A k \in DOMAIN d.treasury : d.treasury[k].status = "executed" =>
             k \in DOMAIN u /\ u[k].status = "executed"
    PROVE  LET x == [d EXCEPT !.treasury = u]
           IN  /\ TablesOK(x) /\ KeepsClosed(d, x) /\ Only(d, x, {"treasury"})
               /\ x.notifications = d.notifications /\ x.treasury = u
<1> DEFINE x == [d EXCEPT !.treasury = u]
<1>1. DOMAIN x = TableNames /\ x.treasury = u
  BY DEF TablesOK, TableNames
<1>2. \A f \in TableNames \ {"treasury"} : x[f] = d[f]
  BY DEF TablesOK
<1> HIDE DEF x
<1>3. TablesOK(x)
  BY <1>1, <1>2 DEF TablesOK, TableNames
<1>4. KeepsClosed(d, x)
  BY <1>1, <1>2 DEF KeepsClosed, TableNames
<1>5. Only(d, x, {"treasury"}) /\ x.notifications = d.notifications
  BY <1>2 DEF Only, TableNames
<1> QED
  BY <1>1, <1>3, <1>4, <1>5 DEF x

\* An upsert, or an update by key, of one row of one table.
LEMMA MembersPut ==
    ASSUME NEW d, NEW k, NEW row, TablesOK(d), row \in MemberRows
    PROVE  LET x == [d EXCEPT !.members = Upsert(d.members, k, row)]
           IN  /\ TablesOK(x) /\ KeepsClosed(d, x) /\ Only(d, x, {"members"})
               /\ x.notifications = d.notifications
               /\ HasRow(x.members, k, row)
               /\ RowOnly(d.members, x.members, k)
<1>1. IsTable(d.members, MemberRows)
  BY DEF TablesOK
<1>2. /\ IsTable(Upsert(d.members, k, row), MemberRows) /\ RowOnly(d.members, Upsert(d.members, k, row), k)
      /\ DOMAIN Upsert(d.members, k, row) = DOMAIN d.members \cup {k}
  BY <1>1, UpsertTable
<1>3. Upsert(d.members, k, row)[k] = row
  BY <1>1 DEF Upsert, IsTable
<1> DEFINE u == Upsert(d.members, k, row)
           x == [d EXCEPT !.members = u]
<1>4. /\ IsTable(u, MemberRows) /\ RowOnly(d.members, u, k)
      /\ DOMAIN u = DOMAIN d.members \cup {k} /\ u[k] = row
  BY <1>2, <1>3
<1> HIDE DEF u
<1>5. /\ TablesOK(x) /\ KeepsClosed(d, x) /\ Only(d, x, {"members"})
      /\ x.notifications = d.notifications /\ x.members = u
  BY <1>1, <1>4, MembersChanged
<1> QED
  BY <1>4, <1>5 DEF u, HasRow, SameKeys

LEMMA MembersSet ==
    ASSUME NEW d, NEW k, NEW row, TablesOK(d), k \in DOMAIN d.members => row \in MemberRows
    PROVE  LET x == [d EXCEPT !.members = Patch(d.members, k, row)]
           IN  /\ TablesOK(x) /\ KeepsClosed(d, x) /\ Only(d, x, {"members"})
               /\ x.notifications = d.notifications
               /\ SameKeys(d.members, x.members)
               /\ k \in DOMAIN d.members => HasRow(x.members, k, row)
               /\ RowOnly(d.members, x.members, k)
<1>1. IsTable(d.members, MemberRows)
  BY DEF TablesOK
<1>2. /\ IsTable(Patch(d.members, k, row), MemberRows) /\ RowOnly(d.members, Patch(d.members, k, row), k)
      /\ DOMAIN Patch(d.members, k, row) = DOMAIN d.members
  BY <1>1, PatchTable
<1>3. k \in DOMAIN d.members => Patch(d.members, k, row)[k] = row
  BY <1>1 DEF Patch, IsTable
<1> DEFINE u == Patch(d.members, k, row)
           x == [d EXCEPT !.members = u]
<1>4. /\ IsTable(u, MemberRows) /\ RowOnly(d.members, u, k)
      /\ DOMAIN u = DOMAIN d.members /\ (k \in DOMAIN d.members => u[k] = row)
  BY <1>2, <1>3
<1> HIDE DEF u
<1>5. /\ TablesOK(x) /\ KeepsClosed(d, x) /\ Only(d, x, {"members"})
      /\ x.notifications = d.notifications /\ x.members = u
  BY <1>1, <1>4, MembersChanged
<1> QED
  BY <1>4, <1>5 DEF u, HasRow, SameKeys

LEMMA ProposalsPut ==
    ASSUME NEW d, NEW k, NEW row, TablesOK(d), row \in ProposalRows,
           k \in DOMAIN d.proposals /\ d.proposals[k].status = "approved" => row.status = "approved"
    PROVE  LET x == [d EXCEPT !.proposals = Upsert(d.proposals, k, row)]
           IN  /\ TablesOK(x) /\ KeepsClosed(d, x) /\ Only(d, x, {"proposals"})
               /\ x.notifications = d.notifications
               /\ HasRow(x.proposals, k, row)
               /\ RowOnly(d.proposals, x.proposals, k)
<1>1. IsTable(d.proposals, ProposalRows)
  BY DEF TablesOK
<1>2. /\ IsTable(Upsert(d.proposals, k, row), ProposalRows) /\ RowOnly(d.proposals, Upsert(d.proposals, k, row), k)
      /\ DOMAIN Upsert(d.proposals, k, row) = DOMAIN d.proposals \cup {k}
  BY <1>1, UpsertTable
<1>3. Upsert(d.proposals, k, row)[k] = row
  BY <1>1 DEF Upsert, IsTable
<1> DEFINE u == Upsert(d.proposals, k, row)
           x == [d EXCEPT !.proposals = u]
<1>4. /\ IsTable(u, ProposalRows) /\ RowOnly(d.proposals, u, k)
      /\ DOMAIN u = DOMAIN d.proposals \cup {k} /\ u[k] = row
  BY <1>2, <1>3
<1> HIDE DEF u
<1>5. \A y \in DOMAIN d.proposals : d.proposals[y].status = "approved" =>
        y \in DOMAIN u /\ u[y].status = "approved"
  BY <1>4 DEF RowOnly
<1>6. /\ TablesOK(x) /\ KeepsClosed(d, x) /\ Only(d, x, {"proposals"})
      /\ x.notifications = d.notifications /\ x.proposals = u
  BY <1>1, <1>4, <1>5, ProposalsChanged
<1> QED
  BY <1>4, <1>6 DEF u, HasRow, SameKeys

LEMMA ProposalsSet ==
    ASSUME NEW d, NEW k, NEW row, TablesOK(d), k \in DOMAIN d.proposals => row \in ProposalRows,
           k \in DOMAIN d.proposals /\ d.proposals[k].status = "approved" => row.status = "approved"
    PROVE  LET x == [d EXCEPT !.proposals = Patch(d.proposals, k, row)]
           IN  /\ TablesOK(x) /\ KeepsClosed(d, x) /\ Only(d, x, {"proposals"})
               /\ x.notifications = d.notifications
               /\ SameKeys(d.proposals, x.proposals)
               /\ k \in DOMAIN d.proposals => HasRow(x.proposals, k, row)
               /\ RowOnly(d.proposals, x.proposals, k)
<1>1. IsTable(d.proposals, ProposalRows)
  BY DEF TablesOK
<1>2. /\ IsTable(Patch(d.proposals, k, row), ProposalRows) /\ RowOnly(d.proposals, Patch(d.proposals, k, row), k)
      /\ DOMAIN Patch(d.proposals, k, row) = DOMAIN d.proposals
  BY <1>1, PatchTable
<1>3. k \in DOMAIN d.proposals => Patch(d.proposals, k, row)[k] = row
  BY <1>1 DEF Patch, IsTable
<1> DEFINE u == Patch(d.proposals, k, row)
           x == [d EXCEPT !.proposals = u]
<1>4. /\ IsTable(u, ProposalRows) /\ RowOnly(d.proposals, u, k)
      /\ DOMAIN u = DOMAIN d.proposals /\ (k \in DOMAIN d.proposals => u[k] = row)
  BY <1>2, <1>3
<1> HIDE DEF u
<1>5. \A y \in DOMAIN d.proposals : d.proposals[y].status = "approved" =>
        y \in DOMAIN u /\ u[y].status = "approved"
  BY <1>4 DEF RowOnly
<1>6. /\ TablesOK(x) /\ KeepsClosed(d, x) /\ Only(d, x, {"proposals"})
      /\ x.notifications = d.notifications /\ x.proposals = u
  BY <1>1, <1>4, <1>5, ProposalsChanged
<1> QED
  BY <1>4, <1>6 DEF u, HasRow, SameKeys

LEMMA TreasuryPut ==
    ASSUME NEW d, NEW k, NEW row, TablesOK(d), row \in TreasuryRows,
           k \in DOMAIN d.treasury /\ d.treasury[k].status = "executed" => row.status = "executed"
    PROVE  LET x == [d EXCEPT !.treasury = Upsert(d.treasury, k, row)]
           IN  /\ TablesOK(x) /\ KeepsClosed(d, x) /\ Only(d, x, {"treasury"})
               /\ x.notifications = d.notifications
               /\ HasRow(x.treasury, k, row)
               /\ RowOnly(d.treasury, x.treasury, k)
<1>1. IsTable(d.treasury, TreasuryRows)
  BY DEF TablesOK
<1>2. /\ IsTable(Upsert(d.treasury, k, row), TreasuryRows) /\ RowOnly(d.treasury, Upsert(d.treasury, k, row), k)
      /\ DOMAIN Upsert(d.treasury, k, row) = DOMAIN d.treasury \cup {k}
  BY <1>1, UpsertTable
<1>3. Upsert(d.treasury, k, row)[k] = row
  BY <1>1 DEF Upsert, IsTable
<1> DEFINE u == Upsert(d.treasury, k, row)
           x == [d EXCEPT !.treasury = u]
<1>4. /\ IsTable(u, TreasuryRows) /\ RowOnly(d.treasury, u, k)
      /\ DOMAIN u = DOMAIN d.treasury \cup {k} /\ u[k] = row
  BY <1>2, <1>3
<1> HIDE DEF u
<1>5. \A y \in DOMAIN d.treasury : d.treasury[y].status = "executed" =>
        y \in DOMAIN u /\ u[y].status = "executed"
  BY <1>4 DEF RowOnly
<1>6. /\ TablesOK(x) /\ KeepsClosed(d, x) /\ Only(d, x, {"treasury"})
      /\ x.notifications = d.notifications /\ x.treasury = u
  BY <1>1, <1>4, <1>5, TreasuryChanged
<1> QED
  BY <1>4, <1>6 DEF u, HasRow, SameKeys

LEMMA TreasurySet ==
    ASSUME NEW d, NEW k, NEW row, TablesOK(d), k \in DOMAIN d.treasury => row \in TreasuryRows,
           k \in DOMAIN d.treasury /\ d.treasury[k].status = "executed" => row.status = "executed"
    PROVE  LET x == [d EXCEPT !.treasury = Patch(d.treasury, k, row)]
           IN  /\ TablesOK(x) /\ KeepsClosed(d, x) /\ Only(d, x, {"treasury"})
               /\ x.notifications = d.notifications
               /\ SameKeys(d.treasury, x.treasury)
               /\ k \in DOMAIN d.treasury => HasRow(x.treasury, k, row)
               /\ RowOnly(d.treasury, x.treasury, k)
<1>1. IsTable(d.treasury, TreasuryRows)
  BY DEF TablesOK
<1>2. /\ IsTable(Patch(d.treasury, k, row), TreasuryRows) /\ RowOnly(d.treasury, Patch(d.treasury, k, row), k)
      /\ DOMAIN Patch(d.treasury, k, row) = DOMAIN d.treasury
  BY <1>1, PatchTable
<1>3. k \in DOMAIN d.treasury => Patch(d.treasury, k, row)[k] = row
  BY <1>1 DEF Patch, IsTable
<1> DEFINE u == Patch(d.treasury, k, row)
           x == [d EXCEPT !.treasury = u]
<1>4. /\ IsTable(u, TreasuryRows) /\ RowOnly(d.treasury, u, k)
      /\ DOMAIN u = DOMAIN d.treasury /\ (k \in DOMAIN d.treasury => u[k] = row)
  BY <1>2, <1>3
<1> HIDE DEF u
<1>5. \A y \in DOMAIN d.treasury : d.treasury[y].status = "executed" =>
        y \in DOMAIN u /\ u[y].status = "executed"
  BY <1>4 DEF RowOnly
<1>6. /\ TablesOK(x) /\ KeepsClosed(d, x) /\ Only(d, x, {"treasury"})
      /\ x.notifications = d.notifications /\ x.treasury = u
  BY <1>1, <1>4, <1>5, TreasuryChanged
<1> QED
  BY <1>4, <1>6 DEF u, HasRow, SameKeys

\* What joined writes: the member is in, with the contribution of the event.
JoinedEffect(d, e, x) ==
    LET m == x.members[e.who]
    IN  /\ Only(d, x, {"members"}) /\ RowOnly(d.members, x.members, e.who)
        /\ e.who \in DOMAIN x.members
        /\ m.exited = FALSE /\ m.contribution = e.amount /\ m.has_active_loan = FALSE
        /\ m.stake = IF e.who \in DOMAIN d.members THEN d.members[e.who].stake ELSE 0

LEMMA JoinedMeans ==
    ASSUME NEW d, NEW e, TablesOK(d), EventOK(e), e.symbol = "joined"
    PROVE  Good(d, joined(d, e)) /\ JoinedEffect(d, e, joined(d, e))
<1> DEFINE old == IF e.who \in DOMAIN d.members THEN d.members[e.who] ELSE NewMember
           row == [joined_ledger |-> e.id, contribution |-> e.amount, exited |-> FALSE,
                   has_active_loan |-> FALSE, stake |-> old.stake, claimed |-> old.claimed,
                   defaults |-> old.defaults, name |-> old.name]
           d1  == [d EXCEPT !.members = Upsert(d.members, e.who, row)]
           x   == notify(d1, e, e.who)
<1>1. e.who \in Addresses /\ e.amount \in Nat /\ e.id \in Nat
  BY DEF EventOK, Names, Amounts
<1>2. row \in MemberRows
  BY <1>1 DEF TablesOK, IsTable, MemberRows, NewMember
<1>3. /\ row.exited = FALSE /\ row.contribution = e.amount /\ row.has_active_loan = FALSE
      /\ row.stake = IF e.who \in DOMAIN d.members THEN d.members[e.who].stake ELSE 0
  BY DEF NewMember
<1> HIDE DEF old, row
<1>4. /\ TablesOK(d1) /\ KeepsClosed(d, d1) /\ Only(d, d1, {"members"})
      /\ d1.notifications = d.notifications /\ RowOnly(d.members, d1.members, e.who)
      /\ HasRow(d1.members, e.who, row)
  BY <1>2, MembersPut
<1> HIDE DEF d1
<1>5. Good(d, x) /\ Only(d, x, {"members"}) /\ SameTables(d1, x)
  BY <1>1, <1>4, ThenTold
<1>6. joined(d, e) = x
  BY DEF joined, d1, row, old
<1> HIDE DEF x
<1> QED
  BY <1>3, <1>4, <1>5, <1>6 DEF SameTables, HasRow, JoinedEffect

LEMMA ExitedMeans ==
    ASSUME NEW d, NEW e, TablesOK(d), EventOK(e), e.symbol = "exited"
    PROVE  LET x == exited(d, e)
               m == x.members[e.who]
           IN  /\ Good(d, x) /\ Only(d, x, {"members"}) /\ RowOnly(d.members, x.members, e.who)
               /\ SameKeys(d.members, x.members)
               /\ e.who \in DOMAIN d.members =>
                    /\ m.exited = TRUE /\ m.stake = 0 /\ m.has_active_loan = FALSE
                    /\ m.contribution = d.members[e.who].contribution
<1> DEFINE row == [d.members[e.who] EXCEPT !.exited = TRUE, !.stake = 0, !.has_active_loan = FALSE]
           d1  == [d EXCEPT !.members = Patch(d.members, e.who, row)]
           x   == notify(d1, e, e.who)
<1>1. e.who \in Addresses /\ e.id \in Nat
  BY DEF EventOK, Names
<1>2. e.who \in DOMAIN d.members =>
        /\ row \in MemberRows
        /\ row.exited = TRUE /\ row.stake = 0 /\ row.has_active_loan = FALSE
        /\ row.contribution = d.members[e.who].contribution
  BY ZenonT(40) DEF TablesOK, IsTable, MemberRows
<1> HIDE DEF row
<1>4. /\ TablesOK(d1) /\ KeepsClosed(d, d1) /\ Only(d, d1, {"members"})
      /\ d1.notifications = d.notifications /\ RowOnly(d.members, d1.members, e.who)
      /\ SameKeys(d.members, d1.members)
      /\ e.who \in DOMAIN d.members => HasRow(d1.members, e.who, row)
  BY <1>2, MembersSet
<1> HIDE DEF d1
<1>5. Good(d, x) /\ Only(d, x, {"members"}) /\ SameTables(d1, x)
  BY <1>1, <1>4, ThenTold
<1>6. exited(d, e) = x
  BY DEF exited, d1, row
<1> HIDE DEF x
<1> QED
  BY <1>2, <1>4, <1>5, <1>6 DEF SameTables, HasRow

\* Counting a vote leaves a row of the table.
LEMMA ProposalTally ==
    ASSUME NEW row \in ProposalRows, NEW e, e.support \in BOOLEAN, e.weight \in Nat \cup {NULL}
    PROVE  Tally(row, e) \in ProposalRows
<1> DEFINE yes == row.yes + (IF e.support THEN weightOf(e) ELSE 0)
           no  == row.no + (IF e.support THEN 0 ELSE weightOf(e))
<1>1. weightOf(e) \in Nat
  BY DEF weightOf
<1>2. row.yes \in Nat /\ row.no \in Nat /\ row.voters \in Nat
  BY DEF ProposalRows
<1>3. yes \in Nat /\ no \in Nat /\ row.voters + 1 \in Nat
  BY <1>1, <1>2
<1>4. Tally(row, e) = [row EXCEPT !.yes = yes, !.no = no, !.voters = row.voters + 1]
  BY DEF Tally, ProposalRows
<1> HIDE DEF yes, no
<1> QED
  BY <1>3, <1>4 DEF ProposalRows

LEMMA TreasuryTally ==
    ASSUME NEW row \in TreasuryRows, NEW e, e.support \in BOOLEAN, e.weight \in Nat \cup {NULL}
    PROVE  Tally(row, e) \in TreasuryRows
<1> DEFINE yes == row.yes + (IF e.support THEN weightOf(e) ELSE 0)
           no  == row.no + (IF e.support THEN 0 ELSE weightOf(e))
<1>1. weightOf(e) \in Nat
  BY DEF weightOf
<1>2. row.yes \in Nat /\ row.no \in Nat /\ row.voters \in Nat
  BY DEF TreasuryRows
<1>3. yes \in Nat /\ no \in Nat /\ row.voters + 1 \in Nat
  BY <1>1, <1>2
<1>4. Tally(row, e) = [row EXCEPT !.yes = yes, !.no = no, !.voters = row.voters + 1]
  BY DEF Tally, TreasuryRows
<1> HIDE DEF yes, no
<1> QED
  BY <1>3, <1>4 DEF TreasuryRows

LEMMA ClaimedMeans ==
    ASSUME NEW d, NEW e, TablesOK(d), EventOK(e), e.symbol = "claimed"
    PROVE  LET x   == claimed(d, e)
               row == [d.members[e.who] EXCEPT !.claimed = @ + e.amount]
           IN  /\ Good(d, x) /\ Only(d, x, {"members"}) /\ RowOnly(d.members, x.members, e.who)
               /\ SameKeys(d.members, x.members)
               /\ e.who \in DOMAIN d.members => HasRow(x.members, e.who, row)
<1> DEFINE row == [d.members[e.who] EXCEPT !.claimed = @ + e.amount]
           d1  == [d EXCEPT !.members = Patch(d.members, e.who, row)]
           x   == notify(d1, e, e.who)
<1>1. e.who \in Addresses /\ e.amount \in Nat /\ e.id \in Nat
  BY DEF EventOK, Names, Amounts
<1>2. e.who \in DOMAIN d.members => row \in MemberRows
  <2> SUFFICES ASSUME e.who \in DOMAIN d.members PROVE row \in MemberRows
    OBVIOUS
  <2>1. d.members[e.who] \in MemberRows
    BY DEF TablesOK, IsTable
  <2>2. d.members[e.who].claimed \in Nat
    BY <2>1 DEF MemberRows
  <2>3. d.members[e.who].claimed + e.amount \in Nat
    BY <1>1, <2>2
  <2> QED
    BY <2>1, <2>3 DEF MemberRows
<1> HIDE DEF row
<1>4. /\ TablesOK(d1) /\ KeepsClosed(d, d1) /\ Only(d, d1, {"members"})
      /\ d1.notifications = d.notifications /\ RowOnly(d.members, d1.members, e.who)
      /\ SameKeys(d.members, d1.members)
      /\ e.who \in DOMAIN d.members => HasRow(d1.members, e.who, row)
  BY <1>2, MembersSet
<1> HIDE DEF d1
<1>5. Good(d, x) /\ Only(d, x, {"members"}) /\ SameTables(d1, x)
  BY <1>1, <1>4, ThenTold
<1>6. claimed(d, e) = x
  BY DEF claimed, d1, row
<1> HIDE DEF x
<1> QED
  BY <1>4, <1>5, <1>6 DEF SameTables, row

LEMMA StakedMeans ==
    ASSUME NEW d, NEW e, TablesOK(d), EventOK(e), e.symbol = "staked"
    PROVE  LET x   == staked(d, e)
               row == [d.members[e.who] EXCEPT !.stake = e.amount]
           IN  /\ Good(d, x) /\ Only(d, x, {"members"}) /\ RowOnly(d.members, x.members, e.who)
               /\ SameKeys(d.members, x.members)
               /\ e.who \in DOMAIN d.members => HasRow(x.members, e.who, row)
<1> DEFINE row == [d.members[e.who] EXCEPT !.stake = e.amount]
           d1  == [d EXCEPT !.members = Patch(d.members, e.who, row)]
<1>1. e.amount \in Nat
  BY DEF EventOK, Amounts
<1>2. e.who \in DOMAIN d.members => row \in MemberRows
  BY <1>1, ZenonT(40) DEF TablesOK, IsTable, MemberRows
<1> HIDE DEF row
<1>4. /\ TablesOK(d1) /\ KeepsClosed(d, d1) /\ Only(d, d1, {"members"})
      /\ d1.notifications = d.notifications /\ RowOnly(d.members, d1.members, e.who)
      /\ SameKeys(d.members, d1.members)
      /\ e.who \in DOMAIN d.members => HasRow(d1.members, e.who, row)
  BY <1>2, MembersSet
<1>5. staked(d, e) = d1
  BY DEF staked, row
<1> HIDE DEF d1
<1> QED
  BY <1>4, <1>5 DEF Good, ToldOnce, row

LEMMA UnstakedMeans ==
    ASSUME NEW d, NEW e, TablesOK(d), EventOK(e), e.symbol = "unstaked"
    PROVE  LET x   == unstaked(d, e)
               row == [d.members[e.who] EXCEPT !.stake = e.amount]
           IN  /\ Good(d, x) /\ Only(d, x, {"members"}) /\ RowOnly(d.members, x.members, e.who)
               /\ SameKeys(d.members, x.members)
               /\ e.who \in DOMAIN d.members => HasRow(x.members, e.who, row)
<1> DEFINE row == [d.members[e.who] EXCEPT !.stake = e.amount]
           d1  == [d EXCEPT !.members = Patch(d.members, e.who, row)]
<1>1. e.amount \in Nat
  BY DEF EventOK, Amounts
<1>2. e.who \in DOMAIN d.members => row \in MemberRows
  BY <1>1, ZenonT(40) DEF TablesOK, IsTable, MemberRows
<1> HIDE DEF row
<1>4. /\ TablesOK(d1) /\ KeepsClosed(d, d1) /\ Only(d, d1, {"members"})
      /\ d1.notifications = d.notifications /\ RowOnly(d.members, d1.members, e.who)
      /\ SameKeys(d.members, d1.members)
      /\ e.who \in DOMAIN d.members => HasRow(d1.members, e.who, row)
  BY <1>2, MembersSet
<1>5. unstaked(d, e) = d1
  BY DEF unstaked, row
<1> HIDE DEF d1
<1> QED
  BY <1>4, <1>5 DEF Good, ToldOnce, row

LEMMA NameRegMeans ==
    ASSUME NEW d, NEW e, TablesOK(d), EventOK(e), e.symbol = "name_reg"
    PROVE  LET x   == name_reg(d, e)
               row == [d.members[e.who] EXCEPT !.name = e.id]
           IN  /\ Good(d, x) /\ Only(d, x, {"members"}) /\ RowOnly(d.members, x.members, e.who)
               /\ SameKeys(d.members, x.members)
               /\ e.who \in DOMAIN d.members => HasRow(x.members, e.who, row)
<1> DEFINE row == [d.members[e.who] EXCEPT !.name = e.id]
           d1  == [d EXCEPT !.members = Patch(d.members, e.who, row)]
<1>1. e.id \in Nat
  BY DEF EventOK
<1>2. e.who \in DOMAIN d.members => row \in MemberRows
  BY <1>1, ZenonT(40) DEF TablesOK, IsTable, MemberRows
<1> HIDE DEF row
<1>4. /\ TablesOK(d1) /\ KeepsClosed(d, d1) /\ Only(d, d1, {"members"})
      /\ d1.notifications = d.notifications /\ RowOnly(d.members, d1.members, e.who)
      /\ SameKeys(d.members, d1.members)
      /\ e.who \in DOMAIN d.members => HasRow(d1.members, e.who, row)
  BY <1>2, MembersSet
<1>5. name_reg(d, e) = d1
  BY DEF name_reg, row
<1> HIDE DEF d1
<1> QED
  BY <1>4, <1>5 DEF Good, ToldOnce, row

LEMMA LoanReqMeans ==
    ASSUME NEW d, NEW e, TablesOK(d), EventOK(e), e.symbol = "loan_req"
    PROVE  LET x   == loan_req(d, e)
               row == IF e.nr \in DOMAIN d.proposals
                      THEN [d.proposals[e.nr] EXCEPT !.amount = e.amount, !.total = e.total]
                      ELSE [borrower |-> e.who, amount |-> e.amount, total |-> e.total,
                            status |-> "pending", yes |-> 0, no |-> 0, voters |-> 0]
           IN  /\ Good(d, x) /\ Only(d, x, {"proposals"}) /\ RowOnly(d.proposals, x.proposals, e.nr)
               /\ HasRow(x.proposals, e.nr, row)
<1> DEFINE row == IF e.nr \in DOMAIN d.proposals
                  THEN [d.proposals[e.nr] EXCEPT !.amount = e.amount, !.total = e.total]
                  ELSE [borrower |-> e.who, amount |-> e.amount, total |-> e.total,
                        status |-> "pending", yes |-> 0, no |-> 0, voters |-> 0]
           d1  == [d EXCEPT !.proposals = Upsert(d.proposals, e.nr, row)]
           x   == notify(d1, e, e.who)
<1>1. e.who \in Addresses /\ e.amount \in Nat /\ e.total \in Nat /\ e.id \in Nat
  BY DEF EventOK, Names, Amounts
<1>2. row \in ProposalRows
  BY <1>1, ZenonT(40) DEF TablesOK, IsTable, ProposalRows, ProposalStates
<1>3. e.nr \in DOMAIN d.proposals /\ d.proposals[e.nr].status = "approved" => row.status = "approved"
  BY DEF TablesOK, IsTable, ProposalRows, ProposalStates
<1> HIDE DEF row
<1>4. /\ TablesOK(d1) /\ KeepsClosed(d, d1) /\ Only(d, d1, {"proposals"})
      /\ d1.notifications = d.notifications /\ RowOnly(d.proposals, d1.proposals, e.nr)
      /\ HasRow(d1.proposals, e.nr, row)
  BY <1>2, <1>3, ProposalsPut
<1> HIDE DEF d1
<1>5. Good(d, x) /\ Only(d, x, {"proposals"}) /\ SameTables(d1, x)
  BY <1>1, <1>4, ThenTold
<1>6. loan_req(d, e) = x
  BY DEF loan_req, d1, row
<1> HIDE DEF x
<1> QED
  BY <1>4, <1>5, <1>6 DEF SameTables, row

LEMMA LoanEditMeans ==
    ASSUME NEW d, NEW e, TablesOK(d), EventOK(e), e.symbol = "loan_edit"
    PROVE  LET x   == loan_edit(d, e)
               row == [d.proposals[e.nr] EXCEPT !.amount = e.amount, !.total = e.total]
           IN  /\ Good(d, x) /\ Only(d, x, {"proposals"}) /\ RowOnly(d.proposals, x.proposals, e.nr)
               /\ SameKeys(d.proposals, x.proposals)
               /\ e.nr \in DOMAIN d.proposals => HasRow(x.proposals, e.nr, row)
<1> DEFINE row == [d.proposals[e.nr] EXCEPT !.amount = e.amount, !.total = e.total]
           d1  == [d EXCEPT !.proposals = Patch(d.proposals, e.nr, row)]
<1>1. e.amount \in Nat /\ e.total \in Nat
  BY DEF EventOK, Amounts
<1>2. e.nr \in DOMAIN d.proposals => row \in ProposalRows
  BY <1>1 DEF TablesOK, IsTable, ProposalRows
<1>3. e.nr \in DOMAIN d.proposals /\ d.proposals[e.nr].status = "approved" => row.status = "approved"
  BY DEF TablesOK, IsTable, ProposalRows
<1> HIDE DEF row
<1>4. /\ TablesOK(d1) /\ KeepsClosed(d, d1) /\ Only(d, d1, {"proposals"})
      /\ d1.notifications = d.notifications /\ RowOnly(d.proposals, d1.proposals, e.nr)
      /\ SameKeys(d.proposals, d1.proposals)
      /\ e.nr \in DOMAIN d.proposals => HasRow(d1.proposals, e.nr, row)
  BY <1>2, <1>3, ProposalsSet
<1>5. loan_edit(d, e) = d1
  BY DEF loan_edit, row
<1> HIDE DEF d1
<1> QED
  BY <1>4, <1>5 DEF Good, ToldOnce, row

LEMMA LoanVoteMeans ==
    ASSUME NEW d, NEW e, TablesOK(d), EventOK(e), e.symbol = "loan_vote"
    PROVE  LET x   == loan_vote(d, e)
               row == Tally(d.proposals[e.nr], e)
           IN  /\ Good(d, x) /\ Only(d, x, {"proposals"}) /\ RowOnly(d.proposals, x.proposals, e.nr)
               /\ SameKeys(d.proposals, x.proposals)
               /\ e.nr \in DOMAIN d.proposals => HasRow(x.proposals, e.nr, row)
<1> DEFINE row == Tally(d.proposals[e.nr], e)
           d1  == [d EXCEPT !.proposals = Patch(d.proposals, e.nr, row)]
<1>1. e.support \in BOOLEAN /\ e.weight \in Nat \cup {NULL}
  BY DEF EventOK
<1>2. e.nr \in DOMAIN d.proposals => row \in ProposalRows
  BY <1>1, ProposalTally DEF TablesOK, IsTable
<1>3. e.nr \in DOMAIN d.proposals /\ d.proposals[e.nr].status = "approved" => row.status = "approved"
  BY DEF TablesOK, IsTable, ProposalRows, Tally, weightOf
<1> HIDE DEF row
<1>4. /\ TablesOK(d1) /\ KeepsClosed(d, d1) /\ Only(d, d1, {"proposals"})
      /\ d1.notifications = d.notifications /\ RowOnly(d.proposals, d1.proposals, e.nr)
      /\ SameKeys(d.proposals, d1.proposals)
      /\ e.nr \in DOMAIN d.proposals => HasRow(d1.proposals, e.nr, row)
  BY <1>2, <1>3, ProposalsSet
<1>5. loan_vote(d, e) = d1
  BY DEF loan_vote, row
<1> HIDE DEF d1
<1> QED
  BY <1>4, <1>5 DEF Good, ToldOnce, row

LEMMA TrePropMeans ==
    ASSUME NEW d, NEW e, TablesOK(d), EventOK(e), e.symbol = "tre_prop"
    PROVE  LET x   == tre_prop(d, e)
               row == IF e.nr \in DOMAIN d.treasury
                      THEN [d.treasury[e.nr] EXCEPT !.amount = e.amount, !.destination = e.who]
                      ELSE [amount |-> e.amount, destination |-> e.who, status |-> "pending",
                            yes |-> 0, no |-> 0, voters |-> 0]
           IN  /\ Good(d, x) /\ Only(d, x, {"treasury"}) /\ RowOnly(d.treasury, x.treasury, e.nr)
               /\ HasRow(x.treasury, e.nr, row)
<1> DEFINE row == IF e.nr \in DOMAIN d.treasury
                  THEN [d.treasury[e.nr] EXCEPT !.amount = e.amount, !.destination = e.who]
                  ELSE [amount |-> e.amount, destination |-> e.who, status |-> "pending",
                        yes |-> 0, no |-> 0, voters |-> 0]
           d1  == [d EXCEPT !.treasury = Upsert(d.treasury, e.nr, row)]
<1>1. e.who \in Addresses /\ e.amount \in Nat
  BY DEF EventOK, Names, Amounts
<1>2. row \in TreasuryRows
  BY <1>1, ZenonT(40) DEF TablesOK, IsTable, TreasuryRows, ProposalStates
<1>3. e.nr \in DOMAIN d.treasury /\ d.treasury[e.nr].status = "executed" => row.status = "executed"
  BY DEF TablesOK, IsTable, TreasuryRows, ProposalStates
<1> HIDE DEF row
<1>4. /\ TablesOK(d1) /\ KeepsClosed(d, d1) /\ Only(d, d1, {"treasury"})
      /\ d1.notifications = d.notifications /\ RowOnly(d.treasury, d1.treasury, e.nr)
      /\ HasRow(d1.treasury, e.nr, row)
  BY <1>2, <1>3, TreasuryPut
<1>5. tre_prop(d, e) = d1
  BY DEF tre_prop, row
<1> HIDE DEF d1
<1> QED
  BY <1>4, <1>5 DEF Good, ToldOnce, row

LEMMA TreVoteMeans ==
    ASSUME NEW d, NEW e, TablesOK(d), EventOK(e), e.symbol = "tre_vote"
    PROVE  LET x   == tre_vote(d, e)
               row == Tally(d.treasury[e.nr], e)
           IN  /\ Good(d, x) /\ Only(d, x, {"treasury"}) /\ RowOnly(d.treasury, x.treasury, e.nr)
               /\ SameKeys(d.treasury, x.treasury)
               /\ e.nr \in DOMAIN d.treasury => HasRow(x.treasury, e.nr, row)
<1> DEFINE row == Tally(d.treasury[e.nr], e)
           d1  == [d EXCEPT !.treasury = Patch(d.treasury, e.nr, row)]
<1>1. e.support \in BOOLEAN /\ e.weight \in Nat \cup {NULL}
  BY DEF EventOK
<1>2. e.nr \in DOMAIN d.treasury => row \in TreasuryRows
  BY <1>1, TreasuryTally DEF TablesOK, IsTable
<1>3. e.nr \in DOMAIN d.treasury /\ d.treasury[e.nr].status = "executed" => row.status = "executed"
  BY DEF TablesOK, IsTable, TreasuryRows, Tally, weightOf
<1> HIDE DEF row
<1>4. /\ TablesOK(d1) /\ KeepsClosed(d, d1) /\ Only(d, d1, {"treasury"})
      /\ d1.notifications = d.notifications /\ RowOnly(d.treasury, d1.treasury, e.nr)
      /\ SameKeys(d.treasury, d1.treasury)
      /\ e.nr \in DOMAIN d.treasury => HasRow(d1.treasury, e.nr, row)
  BY <1>2, <1>3, TreasurySet
<1>5. tre_vote(d, e) = d1
  BY DEF tre_vote, row
<1> HIDE DEF d1
<1> QED
  BY <1>4, <1>5 DEF Good, ToldOnce, row

LEMMA RevealedMeans ==
    ASSUME NEW d, NEW e, TablesOK(d), EventOK(e), e.symbol = "revealed"
    PROVE  LET x   == revealed(d, e)
               row == Tally(d.treasury[e.nr], e)
           IN  /\ Good(d, x) /\ Only(d, x, {"treasury"}) /\ RowOnly(d.treasury, x.treasury, e.nr)
               /\ SameKeys(d.treasury, x.treasury)
               /\ e.nr \in DOMAIN d.treasury => HasRow(x.treasury, e.nr, row)
<1> DEFINE row == Tally(d.treasury[e.nr], e)
           d1  == [d EXCEPT !.treasury = Patch(d.treasury, e.nr, row)]
<1>1. e.support \in BOOLEAN /\ e.weight \in Nat \cup {NULL}
  BY DEF EventOK
<1>2. e.nr \in DOMAIN d.treasury => row \in TreasuryRows
  BY <1>1, TreasuryTally DEF TablesOK, IsTable
<1>3. e.nr \in DOMAIN d.treasury /\ d.treasury[e.nr].status = "executed" => row.status = "executed"
  BY DEF TablesOK, IsTable, TreasuryRows, Tally, weightOf
<1> HIDE DEF row
<1>4. /\ TablesOK(d1) /\ KeepsClosed(d, d1) /\ Only(d, d1, {"treasury"})
      /\ d1.notifications = d.notifications /\ RowOnly(d.treasury, d1.treasury, e.nr)
      /\ SameKeys(d.treasury, d1.treasury)
      /\ e.nr \in DOMAIN d.treasury => HasRow(d1.treasury, e.nr, row)
  BY <1>2, <1>3, TreasurySet
<1>5. revealed(d, e) = d1
  BY DEF revealed, row
<1> HIDE DEF d1
<1> QED
  BY <1>4, <1>5 DEF Good, ToldOnce, row

LEMMA TreExecMeans ==
    ASSUME NEW d, NEW e, TablesOK(d), EventOK(e), e.symbol = "tre_exec"
    PROVE  LET x   == tre_exec(d, e)
               row == [d.treasury[e.nr] EXCEPT !.status = "executed"]
           IN  /\ Good(d, x) /\ Only(d, x, {"treasury"}) /\ RowOnly(d.treasury, x.treasury, e.nr)
               /\ SameKeys(d.treasury, x.treasury)
               /\ e.nr \in DOMAIN d.treasury => HasRow(x.treasury, e.nr, row)
<1> DEFINE row == [d.treasury[e.nr] EXCEPT !.status = "executed"]
           d1  == [d EXCEPT !.treasury = Patch(d.treasury, e.nr, row)]
           x   == notify(d1, e, e.who)
<1>1. e.who \in Addresses /\ e.id \in Nat
  BY DEF EventOK, Names
<1>2. e.nr \in DOMAIN d.treasury => row \in TreasuryRows
  BY <1>1 DEF TablesOK, IsTable, TreasuryRows, ProposalStates
<1>3. e.nr \in DOMAIN d.treasury /\ d.treasury[e.nr].status = "executed" => row.status = "executed"
  BY DEF TablesOK, IsTable, TreasuryRows, ProposalStates
<1> HIDE DEF row
<1>4. /\ TablesOK(d1) /\ KeepsClosed(d, d1) /\ Only(d, d1, {"treasury"})
      /\ d1.notifications = d.notifications /\ RowOnly(d.treasury, d1.treasury, e.nr)
      /\ SameKeys(d.treasury, d1.treasury)
      /\ e.nr \in DOMAIN d.treasury => HasRow(d1.treasury, e.nr, row)
  BY <1>2, <1>3, TreasurySet
<1> HIDE DEF d1
<1>5. Good(d, x) /\ Only(d, x, {"treasury"}) /\ SameTables(d1, x)
  BY <1>1, <1>4, ThenTold
<1>6. tre_exec(d, e) = x
  BY DEF tre_exec, d1, row
<1> HIDE DEF x
<1> QED
  BY <1>4, <1>5, <1>6 DEF SameTables, row

\* A pending row of proposals that gets another status, and a member who is told.
LEMMA ProposalsClosed ==
    ASSUME NEW d, NEW e, NEW s \in ProposalStates, NEW a, TablesOK(d), e.id \in Nat,
           Pending(d.proposals, e.nr), a \in Addresses
    PROVE  LET x == notify([d EXCEPT !.proposals[e.nr].status = s], e, a)
           IN  /\ Good(d, x) /\ Only(d, x, {"proposals"})
               /\ RowOnly(d.proposals, x.proposals, e.nr) /\ SameKeys(d.proposals, x.proposals)
               /\ HasRow(x.proposals, e.nr, [d.proposals[e.nr] EXCEPT !.status = s])
<1> DEFINE row == [d.proposals[e.nr] EXCEPT !.status = s]
           d1  == [d EXCEPT !.proposals = Patch(d.proposals, e.nr, row)]
           x   == notify(d1, e, a)
<1>1. e.nr \in DOMAIN d.proposals /\ d.proposals[e.nr].status = "pending"
  BY DEF Pending
<1>2. row \in ProposalRows
  BY <1>1 DEF TablesOK, IsTable, ProposalRows
<1>3. [d EXCEPT !.proposals[e.nr].status = s] = d1
  BY <1>1 DEF Patch
<1> HIDE DEF row
<1>4. /\ TablesOK(d1) /\ KeepsClosed(d, d1) /\ Only(d, d1, {"proposals"})
      /\ d1.notifications = d.notifications /\ RowOnly(d.proposals, d1.proposals, e.nr)
      /\ SameKeys(d.proposals, d1.proposals)
      /\ e.nr \in DOMAIN d.proposals => HasRow(d1.proposals, e.nr, row)
  BY <1>1, <1>2, ProposalsSet
<1> HIDE DEF d1
<1>5. Good(d, x) /\ Only(d, x, {"proposals"}) /\ SameTables(d1, x)
  BY <1>4, ThenTold
<1> HIDE DEF x
<1>6. /\ Good(d, x) /\ Only(d, x, {"proposals"})
      /\ RowOnly(d.proposals, x.proposals, e.nr) /\ SameKeys(d.proposals, x.proposals)
      /\ HasRow(x.proposals, e.nr, row)
  BY <1>1, <1>4, <1>5 DEF SameTables
<1> QED
  BY <1>3, <1>6 DEF row, x

\* A handler whose row is no longer pending does nothing.
LEMMA ProposalsStay ==
    ASSUME NEW d, NEW k, TablesOK(d)
    PROVE  /\ Good(d, d) /\ Only(d, d, {"proposals"})
           /\ RowOnly(d.proposals, d.proposals, k) /\ SameKeys(d.proposals, d.proposals)
BY DEF Good, ToldOnce, KeepsClosed, Only, RowOnly, SameKeys

LEMMA LoanWaitMeans ==
    ASSUME NEW d, NEW e, TablesOK(d), EventOK(e), e.symbol = "loan_wait"
    PROVE  LET x == loan_wait(d, e)
           IN  /\ Good(d, x) /\ Only(d, x, {"proposals"})
               /\ RowOnly(d.proposals, x.proposals, e.nr) /\ SameKeys(d.proposals, x.proposals)
               /\ Pending(d.proposals, e.nr) =>
                    HasRow(x.proposals, e.nr, [d.proposals[e.nr] EXCEPT !.status = "approved_pending_disbursement"])
               /\ ~Pending(d.proposals, e.nr) => x.proposals = d.proposals
<1> DEFINE a  == d.proposals[e.nr].borrower
           x1 == notify([d EXCEPT !.proposals[e.nr].status = "approved_pending_disbursement"], e, a)
<1>1. CASE Pending(d.proposals, e.nr)
  <2>1. a \in Addresses /\ e.id \in Nat /\ "approved_pending_disbursement" \in ProposalStates
    BY <1>1 DEF EventOK, Names, Pending, TablesOK, IsTable, ProposalRows, ProposalStates
  <2>2. loan_wait(d, e) = x1
    BY <1>1 DEF loan_wait, Close
  <2> HIDE DEF a
  <2>3. /\ Good(d, x1) /\ Only(d, x1, {"proposals"})
        /\ RowOnly(d.proposals, x1.proposals, e.nr) /\ SameKeys(d.proposals, x1.proposals)
        /\ HasRow(x1.proposals, e.nr, [d.proposals[e.nr] EXCEPT !.status = "approved_pending_disbursement"])
    BY <1>1, <2>1, ProposalsClosed
  <2> HIDE DEF x1
  <2> QED
    BY <1>1, <2>2, <2>3
<1>2. CASE ~Pending(d.proposals, e.nr)
  <2>1. loan_wait(d, e) = d
    BY <1>2 DEF loan_wait, Close
  <2> QED
    BY <1>2, <2>1, ProposalsStay
<1> QED
  BY <1>1, <1>2

LEMMA LoanRejMeans ==
    ASSUME NEW d, NEW e, TablesOK(d), EventOK(e), e.symbol = "loan_rej"
    PROVE  LET x == loan_rej(d, e)
           IN  /\ Good(d, x) /\ Only(d, x, {"proposals"})
               /\ RowOnly(d.proposals, x.proposals, e.nr) /\ SameKeys(d.proposals, x.proposals)
               /\ Pending(d.proposals, e.nr) =>
                    HasRow(x.proposals, e.nr, [d.proposals[e.nr] EXCEPT !.status = "rejected"])
               /\ ~Pending(d.proposals, e.nr) => x.proposals = d.proposals
<1> DEFINE a  == d.proposals[e.nr].borrower
           x1 == notify([d EXCEPT !.proposals[e.nr].status = "rejected"], e, a)
<1>1. CASE Pending(d.proposals, e.nr)
  <2>1. a \in Addresses /\ e.id \in Nat /\ "rejected" \in ProposalStates
    BY <1>1 DEF EventOK, Names, Pending, TablesOK, IsTable, ProposalRows, ProposalStates
  <2>2. loan_rej(d, e) = x1
    BY <1>1 DEF loan_rej, Close
  <2> HIDE DEF a
  <2>3. /\ Good(d, x1) /\ Only(d, x1, {"proposals"})
        /\ RowOnly(d.proposals, x1.proposals, e.nr) /\ SameKeys(d.proposals, x1.proposals)
        /\ HasRow(x1.proposals, e.nr, [d.proposals[e.nr] EXCEPT !.status = "rejected"])
    BY <1>1, <2>1, ProposalsClosed
  <2> HIDE DEF x1
  <2> QED
    BY <1>1, <2>2, <2>3
<1>2. CASE ~Pending(d.proposals, e.nr)
  <2>1. loan_rej(d, e) = d
    BY <1>2 DEF loan_rej, Close
  <2> QED
    BY <1>2, <2>1, ProposalsStay
<1> QED
  BY <1>1, <1>2

LEMMA LoanExpMeans ==
    ASSUME NEW d, NEW e, TablesOK(d), EventOK(e), e.symbol = "loan_exp"
    PROVE  LET x == loan_exp(d, e)
           IN  /\ Good(d, x) /\ Only(d, x, {"proposals"})
               /\ RowOnly(d.proposals, x.proposals, e.nr) /\ SameKeys(d.proposals, x.proposals)
               /\ Pending(d.proposals, e.nr) =>
                    HasRow(x.proposals, e.nr, [d.proposals[e.nr] EXCEPT !.status = "rejected"])
               /\ ~Pending(d.proposals, e.nr) => x.proposals = d.proposals
<1> DEFINE a  == e.who
           x1 == notify([d EXCEPT !.proposals[e.nr].status = "rejected"], e, a)
<1>1. CASE Pending(d.proposals, e.nr)
  <2>1. a \in Addresses /\ e.id \in Nat /\ "rejected" \in ProposalStates
    BY <1>1 DEF EventOK, Names, Pending, TablesOK, IsTable, ProposalRows, ProposalStates
  <2>2. loan_exp(d, e) = x1
    BY <1>1 DEF loan_exp
  <2> HIDE DEF a
  <2>3. /\ Good(d, x1) /\ Only(d, x1, {"proposals"})
        /\ RowOnly(d.proposals, x1.proposals, e.nr) /\ SameKeys(d.proposals, x1.proposals)
        /\ HasRow(x1.proposals, e.nr, [d.proposals[e.nr] EXCEPT !.status = "rejected"])
    BY <1>1, <2>1, ProposalsClosed
  <2> HIDE DEF x1
  <2> QED
    BY <1>1, <2>2, <2>3
<1>2. CASE ~Pending(d.proposals, e.nr)
  <2>1. loan_exp(d, e) = d
    BY <1>2 DEF loan_exp
  <2> QED
    BY <1>2, <2>1, ProposalsStay
<1> QED
  BY <1>1, <1>2


\* A pending row of treasury that gets another status, and a member who is told.
LEMMA TreasuryClosed ==
    ASSUME NEW d, NEW e, NEW s \in ProposalStates, NEW a, TablesOK(d), e.id \in Nat,
           Pending(d.treasury, e.nr), a \in Addresses
    PROVE  LET x == notify([d EXCEPT !.treasury[e.nr].status = s], e, a)
           IN  /\ Good(d, x) /\ Only(d, x, {"treasury"})
               /\ RowOnly(d.treasury, x.treasury, e.nr) /\ SameKeys(d.treasury, x.treasury)
               /\ HasRow(x.treasury, e.nr, [d.treasury[e.nr] EXCEPT !.status = s])
<1> DEFINE row == [d.treasury[e.nr] EXCEPT !.status = s]
           d1  == [d EXCEPT !.treasury = Patch(d.treasury, e.nr, row)]
           x   == notify(d1, e, a)
<1>1. e.nr \in DOMAIN d.treasury /\ d.treasury[e.nr].status = "pending"
  BY DEF Pending
<1>2. row \in TreasuryRows
  BY <1>1 DEF TablesOK, IsTable, TreasuryRows
<1>3. [d EXCEPT !.treasury[e.nr].status = s] = d1
  BY <1>1 DEF Patch
<1> HIDE DEF row
<1>4. /\ TablesOK(d1) /\ KeepsClosed(d, d1) /\ Only(d, d1, {"treasury"})
      /\ d1.notifications = d.notifications /\ RowOnly(d.treasury, d1.treasury, e.nr)
      /\ SameKeys(d.treasury, d1.treasury)
      /\ e.nr \in DOMAIN d.treasury => HasRow(d1.treasury, e.nr, row)
  BY <1>1, <1>2, TreasurySet
<1> HIDE DEF d1
<1>5. Good(d, x) /\ Only(d, x, {"treasury"}) /\ SameTables(d1, x)
  BY <1>4, ThenTold
<1> HIDE DEF x
<1>6. /\ Good(d, x) /\ Only(d, x, {"treasury"})
      /\ RowOnly(d.treasury, x.treasury, e.nr) /\ SameKeys(d.treasury, x.treasury)
      /\ HasRow(x.treasury, e.nr, row)
  BY <1>1, <1>4, <1>5 DEF SameTables
<1> QED
  BY <1>3, <1>6 DEF row, x

\* The same for treasury proposals.
LEMMA TreasuryStay ==
    ASSUME NEW d, NEW k, TablesOK(d)
    PROVE  /\ Good(d, d) /\ Only(d, d, {"treasury"})
           /\ RowOnly(d.treasury, d.treasury, k) /\ SameKeys(d.treasury, d.treasury)
BY DEF Good, ToldOnce, KeepsClosed, Only, RowOnly, SameKeys

LEMMA TreWaitMeans ==
    ASSUME NEW d, NEW e, TablesOK(d), EventOK(e), e.symbol = "tre_wait"
    PROVE  LET x == tre_wait(d, e)
           IN  /\ Good(d, x) /\ Only(d, x, {"treasury"})
               /\ RowOnly(d.treasury, x.treasury, e.nr) /\ SameKeys(d.treasury, x.treasury)
               /\ Pending(d.treasury, e.nr) =>
                    HasRow(x.treasury, e.nr, [d.treasury[e.nr] EXCEPT !.status = "approved_pending_disbursement"])
               /\ ~Pending(d.treasury, e.nr) => x.treasury = d.treasury
<1> DEFINE a  == d.treasury[e.nr].destination
           x1 == notify([d EXCEPT !.treasury[e.nr].status = "approved_pending_disbursement"], e, a)
<1>1. CASE Pending(d.treasury, e.nr)
  <2>1. a \in Addresses /\ e.id \in Nat /\ "approved_pending_disbursement" \in ProposalStates
    BY <1>1 DEF EventOK, Names, Pending, TablesOK, IsTable, TreasuryRows, ProposalStates
  <2>2. tre_wait(d, e) = x1
    BY <1>1 DEF tre_wait, CloseTreasury
  <2> HIDE DEF a
  <2>3. /\ Good(d, x1) /\ Only(d, x1, {"treasury"})
        /\ RowOnly(d.treasury, x1.treasury, e.nr) /\ SameKeys(d.treasury, x1.treasury)
        /\ HasRow(x1.treasury, e.nr, [d.treasury[e.nr] EXCEPT !.status = "approved_pending_disbursement"])
    BY <1>1, <2>1, TreasuryClosed
  <2> HIDE DEF x1
  <2> QED
    BY <1>1, <2>2, <2>3
<1>2. CASE ~Pending(d.treasury, e.nr)
  <2>1. tre_wait(d, e) = d
    BY <1>2 DEF tre_wait, CloseTreasury
  <2> QED
    BY <1>2, <2>1, TreasuryStay
<1> QED
  BY <1>1, <1>2

LEMMA TreRejMeans ==
    ASSUME NEW d, NEW e, TablesOK(d), EventOK(e), e.symbol = "tre_rej"
    PROVE  LET x == tre_rej(d, e)
           IN  /\ Good(d, x) /\ Only(d, x, {"treasury"})
               /\ RowOnly(d.treasury, x.treasury, e.nr) /\ SameKeys(d.treasury, x.treasury)
               /\ Pending(d.treasury, e.nr) =>
                    HasRow(x.treasury, e.nr, [d.treasury[e.nr] EXCEPT !.status = "rejected"])
               /\ ~Pending(d.treasury, e.nr) => x.treasury = d.treasury
<1> DEFINE a  == d.treasury[e.nr].destination
           x1 == notify([d EXCEPT !.treasury[e.nr].status = "rejected"], e, a)
<1>1. CASE Pending(d.treasury, e.nr)
  <2>1. a \in Addresses /\ e.id \in Nat /\ "rejected" \in ProposalStates
    BY <1>1 DEF EventOK, Names, Pending, TablesOK, IsTable, TreasuryRows, ProposalStates
  <2>2. tre_rej(d, e) = x1
    BY <1>1 DEF tre_rej, CloseTreasury
  <2> HIDE DEF a
  <2>3. /\ Good(d, x1) /\ Only(d, x1, {"treasury"})
        /\ RowOnly(d.treasury, x1.treasury, e.nr) /\ SameKeys(d.treasury, x1.treasury)
        /\ HasRow(x1.treasury, e.nr, [d.treasury[e.nr] EXCEPT !.status = "rejected"])
    BY <1>1, <2>1, TreasuryClosed
  <2> HIDE DEF x1
  <2> QED
    BY <1>1, <2>2, <2>3
<1>2. CASE ~Pending(d.treasury, e.nr)
  <2>1. tre_rej(d, e) = d
    BY <1>2 DEF tre_rej, CloseTreasury
  <2> QED
    BY <1>2, <2>1, TreasuryStay
<1> QED
  BY <1>1, <1>2


LEMMA InterestMeans ==
    ASSUME NEW d, NEW e, TablesOK(d), EventOK(e), e.symbol = "interest"
    PROVE  LET x == interest(d, e)
           IN  /\ Good(d, x) /\ Only(d, x, {"interest", "totals"})
               /\ DOMAIN x.interest \subseteq DOMAIN d.interest \cup {e.id}
               /\ x.totals.lent = d.totals.lent /\ x.totals.repaid = d.totals.repaid
               /\ x.totals.defaulted = d.totals.defaulted
               /\ x.totals.interest =
                    IF e.id \in DOMAIN d.interest THEN d.totals.interest
                    ELSE d.totals.interest + e.amount
<1> DEFINE x == interest(d, e)
<1>1. CASE e.id \in DOMAIN d.interest
  <2>1. x = d
    BY <1>1 DEF interest
  <2> QED
    BY <1>1, <2>1 DEF Good, ToldOnce, KeepsClosed, Only
<1>2. CASE e.id \notin DOMAIN d.interest
  <2> DEFINE u == Upsert(d.interest, e.id, [amount |-> e.amount])
             n == [d.totals EXCEPT !.interest = d.totals.interest + e.amount]
             y == [d EXCEPT !.interest = u, !.totals = n]
  <2>1. x = y
    BY <1>2 DEF interest, TablesOK, TableNames
  <2>2. e.amount \in Nat /\ d.totals \in TotalsRows
    BY DEF EventOK, Amounts, TablesOK
  <2>3. d.totals.interest + e.amount \in Nat
    BY <2>2 DEF TotalsRows
  <2>4. /\ n \in TotalsRows /\ n.lent = d.totals.lent /\ n.repaid = d.totals.repaid
        /\ n.defaulted = d.totals.defaulted /\ n.interest = d.totals.interest + e.amount
    BY <2>2, <2>3 DEF TotalsRows
  <2>5. DOMAIN u = DOMAIN d.interest \cup {e.id}
    BY DEF Upsert
  <2> HIDE DEF u, n
  <2>6. /\ DOMAIN y = TableNames /\ y.interest = u /\ y.totals = n
        /\ \A f \in TableNames \ {"interest", "totals"} : y[f] = d[f]
    BY DEF TablesOK, TableNames
  <2> HIDE DEF y
  <2>7. TablesOK(y)
    BY <2>4, <2>6 DEF TablesOK, TableNames
  <2>8. Good(d, y) /\ Only(d, y, {"interest", "totals"})
    BY <2>6, <2>7 DEF Good, ToldOnce, KeepsClosed, Only, TableNames
  <2> QED
    BY <1>2, <2>1, <2>4, <2>5, <2>6, <2>8
<1> QED
  BY <1>1, <1>2

LEMMA DocAttnMeans ==
    ASSUME NEW d, NEW e, TablesOK(d)
    PROVE  Good(d, doc_attn(d, e)) /\ Only(d, doc_attn(d, e), {"documents"})
<1> DEFINE x == doc_attn(d, e)
<1>1. CASE e.id \in DOMAIN d.documents
  <2>1. x = d
    BY <1>1 DEF doc_attn
  <2> QED
    BY <2>1 DEF Good, ToldOnce, KeepsClosed, Only
<1>2. CASE e.id \notin DOMAIN d.documents
  <2> DEFINE u == Upsert(d.documents, e.id, [proposal |-> e.nr, caller |-> e.who])
  <2>1. x = [d EXCEPT !.documents = u]
    BY <1>2 DEF doc_attn
  <2> HIDE DEF u
  <2>2. DOMAIN x = TableNames /\ \A f \in TableNames \ {"documents"} : x[f] = d[f]
    BY <2>1 DEF TablesOK, TableNames
  <2> HIDE DEF x
  <2>3. TablesOK(x)
    BY <2>2 DEF TablesOK, TableNames
  <2> QED
    BY <2>2, <2>3 DEF Good, ToldOnce, KeepsClosed, Only, TableNames, x
<1> QED
  BY <1>1, <1>2

LEMMA CommittedMeans ==
    ASSUME NEW d, NEW e, TablesOK(d), EventOK(e), e.symbol = "committed"
    PROVE  Good(d, committed(d, e)) /\ Only(d, committed(d, e), {})
<1> DEFINE a == IF "who" \in e.bad THEN NULL ELSE e.who
<1>1. a \in Addresses \cup {NULL} /\ e.id \in Nat
  BY DEF EventOK
<1>2. committed(d, e) = notify(d, e, a)
  BY DEF committed
<1>3. KeepsClosed(d, d) /\ Only(d, d, {})
  BY DEF KeepsClosed, Only
<1> HIDE DEF a
<1> QED
  BY <1>1, <1>2, <1>3, ThenTold

-----------------------------------------------------------------------------
\* Sums over the columns of a table.  Total takes the keys in an order that a CHOOSE
\* fixes; here it is shown not to matter.

\* The key MapThenSumSet takes next.
Pick(s) == CHOOSE x \in s : TRUE

\* it sums f over every set of D, as the recursion in the library does.
IsIter(it, f, D) ==
    it = [s \in D |-> IF s = {} THEN 0 ELSE f[Pick(s)] + it[s \ {Pick(s)}]]

\* The subsets of S with at most n members.
UpTo(S, n) == {s \in SUBSET S : Cardinality(s) <= n}

\* The sum of f over S.
Sum(f, S) == MapThenSumSet(LAMBDA k : f[k], S)

\* Taking a key away leaves one fewer.
LEMMA PickOne ==
    ASSUME NEW S, IsFiniteSet(S), NEW s \in SUBSET S, s # {}
    PROVE  /\ Pick(s) \in s /\ s \ {Pick(s)} \in SUBSET S /\ IsFiniteSet(s)
           /\ Cardinality(s) \in Nat /\ Cardinality(s) # 0
           /\ Cardinality(s \ {Pick(s)}) = Cardinality(s) - 1
<1>1. Pick(s) \in s
  BY DEF Pick
<1>2. IsFiniteSet(s)
  BY FS_Subset
<1>3. Cardinality(s) \in Nat /\ Cardinality(s) # 0
  BY <1>2, FS_CardinalityType, FS_EmptySet
<1>4. Cardinality(s \ {Pick(s)}) = Cardinality(s) - 1
  BY <1>1, <1>2, FS_RemoveElement
<1> QED
  BY <1>1, <1>2, <1>3, <1>4

\* The recursion of the sum has a solution on the subsets of a finite set.
LEMMA IterUpTo ==
    ASSUME NEW S, IsFiniteSet(S), NEW f, NEW n \in Nat
    PROVE  \E it : IsIter(it, f, UpTo(S, n))
<1> DEFINE Fails == {m \in Nat : ~\E it : IsIter(it, f, UpTo(S, m))}
<1> SUFFICES ASSUME n \in Fails PROVE FALSE
  OBVIOUS
<1>1. PICK m \in Fails : \A y \in Fails : m <= y
  BY Least
<1>2. CASE m = 0
  <2>1. \A s \in UpTo(S, 0) : s = {}
    <3> SUFFICES ASSUME NEW s \in UpTo(S, 0), s # {} PROVE FALSE
      OBVIOUS
    <3>1. s \in SUBSET S /\ Cardinality(s) <= 0
      BY DEF UpTo
    <3>2. Cardinality(s) \in Nat /\ Cardinality(s) # 0
      BY <3>1, PickOne
    <3> QED
      BY <3>1, <3>2
  <2>2. IsIter([s \in UpTo(S, 0) |-> 0], f, UpTo(S, 0))
    BY <2>1 DEF IsIter
  <2> QED
    BY <1>1, <1>2, <2>2
<1>3. CASE m # 0
  <2>1. m \in Nat /\ m - 1 \in Nat /\ ~(m <= m - 1)
    BY <1>1, <1>3
  <2>2. PICK it : IsIter(it, f, UpTo(S, m - 1))
    BY <1>1, <2>1
  <2> DEFINE val(s) == IF s = {} THEN 0 ELSE f[Pick(s)] + it[s \ {Pick(s)}]
             more   == [s \in UpTo(S, m) |-> val(s)]
  <2>3. ASSUME NEW s \in UpTo(S, m), s # {}
        PROVE  more[s \ {Pick(s)}] = it[s \ {Pick(s)}]
    <3> DEFINE r == s \ {Pick(s)}
    <3>1. s \in SUBSET S /\ Cardinality(s) <= m
      BY DEF UpTo
    <3>2. r \in SUBSET S /\ Cardinality(s) \in Nat /\ Cardinality(r) = Cardinality(s) - 1
      BY <2>3, <3>1, PickOne
    <3>3. Cardinality(r) <= m - 1 /\ Cardinality(r) <= m
      BY <2>1, <3>1, <3>2
    <3> HIDE DEF r
    <3>4. r \in UpTo(S, m - 1) /\ r \in UpTo(S, m)
      BY <3>2, <3>3 DEF UpTo
    <3>5. more[r] = val(r)
      BY <3>4
    <3>6. it[r] = val(r)
      BY <2>2, <3>4 DEF IsIter
    <3> QED
      BY <3>5, <3>6 DEF r
  <2> DEFINE again == [s \in UpTo(S, m) |-> IF s = {} THEN 0 ELSE f[Pick(s)] + more[s \ {Pick(s)}]]
  <2>4. \A s \in UpTo(S, m) : more[s] = again[s]
    BY <2>3
  <2>5. more = again
    <3>1. DOMAIN more = UpTo(S, m) /\ DOMAIN again = UpTo(S, m)
      OBVIOUS
    <3>2. more = [s \in UpTo(S, m) |-> more[s]] /\ again = [s \in UpTo(S, m) |-> again[s]]
      OBVIOUS
    <3> QED
      BY <2>4, <3>2
  <2>6. IsIter(more, f, UpTo(S, m))
    BY <2>5 DEF IsIter
  <2> QED
    BY <1>1, <2>6
<1> QED
  BY <1>2, <1>3

\* Sum is the value of such a solution.
LEMMA SumIs ==
    ASSUME NEW f, NEW S, IsFiniteSet(S)
    PROVE  \E it : IsIter(it, f, SUBSET S) /\ Sum(f, S) = it[S]
<1>1. Cardinality(S) \in Nat
  BY FS_CardinalityType
<1>2. UpTo(S, Cardinality(S)) = SUBSET S
  <2>1. \A s \in SUBSET S : Cardinality(s) <= Cardinality(S)
    BY FS_Subset
  <2> QED
    BY <2>1 DEF UpTo
<1>3. \E it : IsIter(it, f, SUBSET S)
  <2>1. \E it : IsIter(it, f, UpTo(S, Cardinality(S)))
    BY <1>1, IterUpTo
  <2> QED
    BY <1>2, <2>1, Zenon
<1> DEFINE it == CHOOSE it : IsIter(it, f, SUBSET S)
<1>4. IsIter(it, f, SUBSET S)
  BY <1>3
<1>5. Sum(f, S) = it[S]
  BY DEF Sum, MapThenSumSet, MapThenFoldSet, IsIter, Pick
<1> HIDE DEF it
<1> QED
  BY <1>4, <1>5

\* f and g are equal on S.
Agree(f, g, S) == \A x \in S : f[x] = g[x]

\* Solutions for functions that agree have the same values.
LEMMA IterAgree ==
    ASSUME NEW S, IsFiniteSet(S), NEW T \in SUBSET S, NEW f, NEW g, NEW it, NEW jt,
           IsIter(it, f, SUBSET S), IsIter(jt, g, SUBSET T), Agree(f, g, T)
    PROVE  it[T] = jt[T]
<1> DEFINE Differ == {m \in Nat : \E s \in SUBSET T : Cardinality(s) = m /\ it[s] # jt[s]}
<1>1. IsFiniteSet(T) /\ Cardinality(T) \in Nat
  BY FS_Subset, FS_CardinalityType
<1> SUFFICES ASSUME Cardinality(T) \in Differ PROVE FALSE
  BY <1>1
<1>2. PICK m \in Differ : \A y \in Differ : m <= y
  BY Least
<1>3. PICK s \in SUBSET T : Cardinality(s) = m /\ it[s] # jt[s]
  BY <1>2
<1>4. s \in SUBSET S
  BY <1>3
<1>5. it[s] = IF s = {} THEN 0 ELSE f[Pick(s)] + it[s \ {Pick(s)}]
  BY <1>4 DEF IsIter
<1>6. jt[s] = IF s = {} THEN 0 ELSE g[Pick(s)] + jt[s \ {Pick(s)}]
  BY <1>3 DEF IsIter
<1>7. s # {}
  BY <1>3, <1>5, <1>6
<1>8. /\ Pick(s) \in s /\ s \ {Pick(s)} \in SUBSET T /\ Cardinality(s) \in Nat
      /\ Cardinality(s) # 0 /\ Cardinality(s \ {Pick(s)}) = Cardinality(s) - 1
  BY <1>1, <1>3, <1>7, PickOne
<1>9. m - 1 \in Nat /\ ~(m <= m - 1)
  BY <1>3, <1>8
<1>10. it[s \ {Pick(s)}] = jt[s \ {Pick(s)}]
  BY <1>2, <1>3, <1>8, <1>9
<1>11. f[Pick(s)] = g[Pick(s)]
  BY <1>3, <1>8 DEF Agree
<1> QED
  BY <1>3, <1>5, <1>6, <1>7, <1>10, <1>11

\* Only the values on S matter.
LEMMA SumSame ==
    ASSUME NEW f, NEW g, NEW S, IsFiniteSet(S), \A x \in S : f[x] = g[x]
    PROVE  Sum(f, S) = Sum(g, S)
<1>1. PICK it : IsIter(it, f, SUBSET S) /\ Sum(f, S) = it[S]
  BY SumIs
<1>2. PICK jt : IsIter(jt, g, SUBSET S) /\ Sum(g, S) = jt[S]
  BY SumIs
<1>3. Agree(f, g, S)
  BY DEF Agree
<1> QED
  BY <1>1, <1>2, <1>3, IterAgree

LEMMA SumEmpty == ASSUME NEW f PROVE Sum(f, {}) = 0
<1>1. PICK it : IsIter(it, f, SUBSET {}) /\ Sum(f, {}) = it[{}]
  BY SumIs, FS_EmptySet
<1> QED
  BY <1>1 DEF IsIter

\* The recursion, one step.
LEMMA SumPick ==
    ASSUME NEW f, NEW S, IsFiniteSet(S), S # {}
    PROVE  Sum(f, S) = f[Pick(S)] + Sum(f, S \ {Pick(S)})
<1> DEFINE T == S \ {Pick(S)}
<1>1. IsFiniteSet(T) /\ T \in SUBSET S
  BY FS_RemoveElement
<1>2. PICK it : IsIter(it, f, SUBSET S) /\ Sum(f, S) = it[S]
  BY SumIs
<1>3. it[S] = f[Pick(S)] + it[T]
  BY <1>2 DEF IsIter
<1> HIDE DEF T
<1>4. PICK jt : IsIter(jt, f, SUBSET T) /\ Sum(f, T) = jt[T]
  BY <1>1, SumIs
<1>5. it[T] = jt[T]
  <2>1. Agree(f, f, T)
    BY DEF Agree
  <2> QED
    BY <1>1, <1>2, <1>4, <2>1, IterAgree
<1> QED
  BY <1>2, <1>3, <1>4, <1>5 DEF T

\* A sum of naturals is a natural.
LEMMA SumNat ==
    ASSUME NEW f, NEW S, IsFiniteSet(S), \A x \in S : f[x] \in Nat
    PROVE  Sum(f, S) \in Nat
<1> DEFINE Fails == {m \in Nat : \E s \in SUBSET S : Cardinality(s) = m /\ Sum(f, s) \notin Nat}
<1>1. Cardinality(S) \in Nat
  BY FS_CardinalityType
<1> SUFFICES ASSUME Cardinality(S) \in Fails PROVE FALSE
  BY <1>1
<1>2. PICK m \in Fails : \A y \in Fails : m <= y
  BY Least
<1>3. PICK s \in SUBSET S : Cardinality(s) = m /\ Sum(f, s) \notin Nat
  BY <1>2
<1>4. s # {}
  BY <1>3, SumEmpty
<1> DEFINE p == Pick(s)
           r == s \ {p}
<1>5. /\ p \in s /\ r \in SUBSET S /\ IsFiniteSet(s) /\ Cardinality(s) \in Nat
      /\ Cardinality(s) # 0 /\ Cardinality(r) = Cardinality(s) - 1
  BY <1>3, <1>4, PickOne
<1>6. m - 1 \in Nat /\ ~(m <= m - 1)
  BY <1>3, <1>5
<1>7. Sum(f, r) \in Nat
  BY <1>2, <1>3, <1>5, <1>6
<1>8. Sum(f, s) = f[p] + Sum(f, r)
  BY <1>4, <1>5, SumPick
<1> QED
  BY <1>3, <1>5, <1>7, <1>8

\* Any key can be the first one.
LEMMA SumAny ==
    ASSUME NEW f, NEW S, IsFiniteSet(S), \A x \in S : f[x] \in Nat, NEW k \in S
    PROVE  Sum(f, S) = f[k] + Sum(f, S \ {k})
<1> DEFINE Bad(s) == \E x \in s : Sum(f, s) # f[x] + Sum(f, s \ {x})
           Fails == {m \in Nat : \E s \in SUBSET S : Cardinality(s) = m /\ Bad(s)}
<1>1. Cardinality(S) \in Nat
  BY FS_CardinalityType
<1> SUFFICES ASSUME Cardinality(S) \in Fails PROVE FALSE
  BY <1>1
<1>2. PICK m \in Fails : \A y \in Fails : m <= y
  BY Least
<1>3. PICK s \in SUBSET S : Cardinality(s) = m /\ Bad(s)
  BY <1>2
<1>4. PICK x \in s : Sum(f, s) # f[x] + Sum(f, s \ {x})
  BY <1>3
<1> DEFINE p == Pick(s)
<1>5. /\ p \in s /\ s \ {p} \in SUBSET S /\ IsFiniteSet(s) /\ Cardinality(s) \in Nat
      /\ Cardinality(s) # 0 /\ Cardinality(s \ {p}) = Cardinality(s) - 1
  BY <1>3, <1>4, PickOne
<1>6. m - 1 \in Nat /\ ~(m <= m - 1)
  BY <1>3, <1>5
<1>7. Sum(f, s) = f[p] + Sum(f, s \ {p})
  BY <1>4, <1>5, SumPick
<1> HIDE DEF p
<1>8. x # p
  BY <1>4, <1>7
<1>9. Cardinality(s \ {x}) = m - 1 /\ s \ {x} \in SUBSET S
  BY <1>3, <1>4, <1>5, FS_RemoveElement
<1>10. ~Bad(s \ {p}) /\ ~Bad(s \ {x})
  BY <1>2, <1>3, <1>5, <1>6, <1>9
<1>11. Sum(f, s \ {p}) = f[x] + Sum(f, (s \ {p}) \ {x})
  BY <1>4, <1>8, <1>10
<1>12. Sum(f, s \ {x}) = f[p] + Sum(f, (s \ {x}) \ {p})
  BY <1>5, <1>8, <1>10
<1>13. (s \ {p}) \ {x} = (s \ {x}) \ {p}
  OBVIOUS
<1>14. IsFiniteSet((s \ {p}) \ {x})
  BY <1>5, FS_RemoveElement
<1>15. Sum(f, (s \ {p}) \ {x}) \in Nat
  BY <1>14, SumNat
<1>16. f[x] \in Nat /\ f[p] \in Nat
  BY <1>4, <1>5
<1> DEFINE rest == Sum(f, (s \ {p}) \ {x})
<1>17. Sum(f, s) = f[p] + (f[x] + rest) /\ f[x] + Sum(f, s \ {x}) = f[x] + (f[p] + rest)
  BY <1>7, <1>11, <1>12, <1>13
<1> HIDE DEF rest
<1>18. f[p] + (f[x] + rest) = f[x] + (f[p] + rest)
  BY <1>15, <1>16 DEF rest
<1> QED
  BY <1>4, <1>17, <1>18

\* Total of EventFold is this sum over the function's domain.
LEMMA TotalIs == ASSUME NEW f PROVE Total(f) = Sum(f, DOMAIN f)
BY DEF Total, Sum

LEMMA TotalNat ==
    ASSUME NEW S, IsFiniteSet(S), NEW f \in [S -> Nat]
    PROVE  Total(f) \in Nat
<1>1. DOMAIN f = S /\ \A x \in S : f[x] \in Nat
  OBVIOUS
<1>2. Sum(f, S) \in Nat
  BY <1>1, SumNat
<1> QED
  BY <1>1, <1>2, TotalIs

\* A new key adds its value.
LEMMA TotalAdd ==
    ASSUME NEW S, IsFiniteSet(S), NEW k, k \notin S,
           NEW f \in [S -> Nat], NEW g \in [S \cup {k} -> Nat], Agree(f, g, S)
    PROVE  Total(g) = Total(f) + g[k]
<1> DEFINE T == S \cup {k}
<1>1. DOMAIN f = S /\ DOMAIN g = T /\ (\A x \in T : g[x] \in Nat) /\ k \in T /\ T \ {k} = S
  OBVIOUS
<1>2. IsFiniteSet(T)
  BY FS_AddElement
<1> HIDE DEF T
<1>3. Sum(g, T) = g[k] + Sum(g, T \ {k})
  BY <1>1, <1>2, SumAny
<1>4. Sum(g, S) = Sum(f, S)
  BY SumSame DEF Agree
<1>5. Total(g) = Sum(g, T) /\ Total(f) = Sum(f, S)
  BY <1>1, TotalIs
<1>6. Total(f) \in Nat /\ g[k] \in Nat
  BY <1>1, TotalNat
<1>7. Total(g) = g[k] + Total(f)
  BY <1>1, <1>3, <1>4, <1>5
<1> QED
  BY <1>6, <1>7

\* Changing one value changes the total by the difference.
LEMMA TotalChange ==
    ASSUME NEW S, IsFiniteSet(S), NEW k \in S,
           NEW f \in [S -> Nat], NEW g \in [S -> Nat], Agree(f, g, S \ {k})
    PROVE  Total(g) + f[k] = Total(f) + g[k]
<1> DEFINE T == S \ {k}
<1>1. DOMAIN f = S /\ DOMAIN g = S /\ \A x \in S : f[x] \in Nat /\ g[x] \in Nat
  OBVIOUS
<1>2. IsFiniteSet(T) /\ T \subseteq S
  BY FS_RemoveElement
<1>3. Sum(g, S) = g[k] + Sum(g, T)
  BY <1>1, SumAny
<1>4. Sum(f, S) = f[k] + Sum(f, T)
  BY <1>1, SumAny
<1> HIDE DEF T
<1>5. Sum(g, T) = Sum(f, T)
  BY <1>2, SumSame DEF Agree, T
<1>6. Sum(f, T) \in Nat
  BY <1>1, <1>2, SumNat
<1>7. Total(g) = Sum(g, S) /\ Total(f) = Sum(f, S)
  BY <1>1, TotalIs
<1> QED
  BY <1>1, <1>3, <1>4, <1>5, <1>6, <1>7

\* A day of the statistics is counted up.
Daily(d, c) == Total(Column(d.daily, c))

\* The counters of daily_loan_stats.
Columns == {"originated", "lent", "repaid", "defaults", "defaulted"}

\* What a handler adds to a counter: 0 when it does not name it.
Delta(delta, c) == IF c \in DOMAIN delta THEN delta[c] ELSE 0

\* A counter summed over all days is a natural.
LEMMA DailyNat == ASSUME NEW d, TablesOK(d), NEW c \in Columns PROVE Daily(d, c) \in Nat
<1>1. IsFiniteSet(DOMAIN d.daily) /\ Column(d.daily, c) \in [DOMAIN d.daily -> Nat]
  BY DEF TablesOK, IsTable, DayRows, Columns, Column
<1> QED
  BY <1>1, TotalNat DEF Daily

\* incrementDailyLoanStats adds its deltas to the sums over all days, whether or not
\* the day has a row yet.
LEMMA DailyAdds ==
    ASSUME NEW d, NEW e, NEW delta, TablesOK(d), \A c \in DOMAIN delta : delta[c] \in Nat
    PROVE  LET x == incrementDailyLoanStats(d, e, delta)
           IN  /\ TablesOK(x) /\ KeepsClosed(d, x) /\ Only(d, x, {"daily"})
               /\ x.notifications = d.notifications
               /\ \A c \in Columns : Daily(x, c) = Daily(d, c) + Delta(delta, c)
<1> DEFINE k   == Day(e)
           S   == DOMAIN d.daily
           old == IF k \in S THEN d.daily[k] ELSE NewDay
           row == [c \in DOMAIN old |-> old[c] + (IF c \in DOMAIN delta THEN delta[c] ELSE 0)]
           u   == Upsert(d.daily, k, row)
           x   == [d EXCEPT !.daily = u]
<1>1. incrementDailyLoanStats(d, e, delta) = x
  BY DEF incrementDailyLoanStats
<1>2. IsTable(d.daily, DayRows) /\ IsFiniteSet(S)
  BY DEF TablesOK
<1>3. old \in DayRows
  BY <1>2 DEF IsTable, DayRows, NewDay
<1>4. DOMAIN old = Columns /\ \A c \in Columns : old[c] \in Nat
  BY <1>3 DEF DayRows, Columns
<1>5. \A c : Delta(delta, c) \in Nat
  BY DEF Delta
<1>6. DOMAIN row = Columns /\ row = [c \in Columns |-> old[c] + Delta(delta, c)]
  BY <1>4 DEF Delta
<1> HIDE DEF row
<1>7. \A c \in Columns : row[c] = old[c] + Delta(delta, c) /\ row[c] \in Nat
  BY <1>4, <1>5, <1>6
<1>8. row \in [Columns -> Nat]
  BY <1>6, <1>7
<1>9. row \in DayRows
  BY <1>8 DEF DayRows, Columns
<1>10. IsTable(u, DayRows) /\ RowOnly(d.daily, u, k)
  BY <1>2, <1>9, UpsertTable
<1>11. DOMAIN u = S \cup {k} /\ u[k] = row
  BY DEF Upsert
<1>12. IsFiniteSet(DOMAIN u)
  BY <1>2, <1>11, FS_AddElement
<1>13. \A c \in Columns : old[c] = IF k \in S THEN d.daily[k][c] ELSE 0
  BY DEF NewDay, Columns
<1> HIDE DEF u, old, k
<1>14. /\ DOMAIN x = TableNames /\ x.daily = u
       /\ \A f \in TableNames \ {"daily"} : x[f] = d[f]
  BY DEF TablesOK, TableNames
<1> HIDE DEF x
<1>15. TablesOK(x)
  BY <1>10, <1>12, <1>14 DEF TablesOK, TableNames
<1>16. KeepsClosed(d, x) /\ Only(d, x, {"daily"}) /\ x.notifications = d.notifications
  BY <1>14 DEF KeepsClosed, Only, TableNames
<1>17. ASSUME NEW c \in Columns PROVE Daily(x, c) = Daily(d, c) + Delta(delta, c)
  <2> DEFINE f == Column(d.daily, c)
             g == Column(u, c)
  <2>1. f \in [S -> Nat] /\ g \in [DOMAIN u -> Nat]
    BY <1>2, <1>10 DEF Column, IsTable, DayRows, Columns
  <2>2. Agree(f, g, S \ {k}) /\ g[k] = row[c] /\ (k \in S => f[k] = d.daily[k][c])
    BY <1>10, <1>11 DEF Agree, Column, RowOnly
  <2>3. Daily(x, c) = Total(g) /\ Daily(d, c) = Total(f)
    BY <1>14 DEF Daily
  <2>4. row[c] = old[c] + Delta(delta, c) /\ old[c] \in Nat /\ Delta(delta, c) \in Nat
    BY <1>4, <1>5, <1>7
  <2> HIDE DEF f, g
  <2>5. Total(f) \in Nat
    BY <1>2, <2>1, TotalNat
  <2>6. CASE k \in S
    <3>1. DOMAIN u = S
      BY <1>11, <2>6
    <3>2. g \in [S -> Nat]
      BY <2>1, <3>1
    <3>3. Total(g) + f[k] = Total(f) + g[k]
      BY <1>2, <2>1, <2>2, <2>6, <3>2, TotalChange
    <3>4. f[k] = old[c]
      BY <1>13, <2>2, <2>6
    <3>5. Total(g) \in Nat
      BY <1>2, <3>2, TotalNat
    <3> QED
      BY <2>2, <2>3, <2>4, <2>5, <3>3, <3>4, <3>5
  <2>7. CASE k \notin S
    <3>1. g \in [S \cup {k} -> Nat]
      BY <1>11, <2>1
    <3>2. Agree(f, g, S)
      BY <2>2, <2>7 DEF Agree
    <3>3. Total(g) = Total(f) + g[k]
      BY <1>2, <2>1, <2>7, <3>1, <3>2, TotalAdd
    <3>4. old[c] = 0
      BY <1>13, <2>7
    <3> QED
      BY <2>2, <2>3, <2>4, <2>5, <3>3, <3>4
  <2> QED
    BY <2>6, <2>7
<1> QED
  BY <1>1, <1>15, <1>16, <1>17

-----------------------------------------------------------------------------
\* The handlers of a loan's life write several tables.

\* A loan's row written: still finitely many loans.
LEMMA LoanRowPut ==
    ASSUME NEW t, NEW k, NEW row \in LoanRows, IsTable(t, LoanRows), IsFiniteSet(DOMAIN t)
    PROVE  LET u == Upsert(t, k, row)
           IN  IsTable(u, LoanRows) /\ IsFiniteSet(DOMAIN u) /\ RowOnly(t, u, k) /\ HasRow(u, k, row)
<1> DEFINE u == Upsert(t, k, row)
<1>1. IsTable(u, LoanRows) /\ RowOnly(t, u, k)
  BY UpsertTable
<1>2. DOMAIN u = DOMAIN t \cup {k} /\ u[k] = row
  BY DEF Upsert
<1>3. IsFiniteSet(DOMAIN u)
  BY <1>2, FS_AddElement
<1> HIDE DEF u
<1> QED
  BY <1>1, <1>2, <1>3 DEF HasRow, u

\* One row updated by its key.
LEMMA RowSet ==
    ASSUME NEW t, NEW k, NEW rows, NEW row, IsTable(t, rows), k \in DOMAIN t => row \in rows
    PROVE  LET u == Patch(t, k, row)
           IN  /\ IsTable(u, rows) /\ RowOnly(t, u, k) /\ SameKeys(t, u)
               /\ k \in DOMAIN t => HasRow(u, k, row)
BY DEF Patch, IsTable, RowOnly, SameKeys, HasRow

\* members.has_active_loan set for one member.
LEMMA FlagSet ==
    ASSUME NEW t, NEW k, NEW flag \in BOOLEAN, IsTable(t, MemberRows)
    PROVE  LET u == HasActiveLoan(t, k, flag)
           IN  /\ IsTable(u, MemberRows) /\ RowOnly(t, u, k) /\ SameKeys(t, u)
               /\ k \in DOMAIN t => HasRow(u, k, [t[k] EXCEPT !.has_active_loan = flag])
<1> DEFINE row == [t[k] EXCEPT !.has_active_loan = flag]
<1>1. k \in DOMAIN t => row \in MemberRows
  BY DEF IsTable, MemberRows
<1>2. HasActiveLoan(t, k, flag) = Patch(t, k, row)
  BY DEF HasActiveLoan
<1> HIDE DEF row
<1>3. LET u == Patch(t, k, row)
      IN  /\ IsTable(u, MemberRows) /\ RowOnly(t, u, k) /\ SameKeys(t, u)
          /\ k \in DOMAIN t => HasRow(u, k, row)
  BY <1>1, RowSet
<1> QED
  BY <1>2, <1>3 DEF row

\* The tables a loan event does not write.
Aside(d, x) == x.treasury = d.treasury /\ x.interest = d.interest /\ x.documents = d.documents

\* Tables that differ from tables in what a loan event writes.
LEMMA LoanTables ==
    ASSUME NEW d, NEW y, TablesOK(d), DOMAIN y = TableNames, Aside(d, y),
           y.notifications = d.notifications, y.daily = d.daily,
           IsTable(y.members, MemberRows), IsTable(y.proposals, ProposalRows),
           IsTable(y.loans, LoanRows), IsFiniteSet(DOMAIN y.loans), y.totals \in TotalsRows,
           \A l \in DOMAIN d.proposals : d.proposals[l].status = "approved" =>
             l \in DOMAIN y.proposals /\ y.proposals[l].status = "approved"
    PROVE  TablesOK(y) /\ KeepsClosed(d, y)
BY DEF TablesOK, KeepsClosed, Aside

\* What loan_appr writes: the loan is running, the proposal approved, the borrower
\* flagged, the principal booked.
ApprovedEffect(d, e, x) ==
    LET isNew == e.nr \notin DOMAIN d.loans
        total == IF e.nr \in DOMAIN d.proposals THEN d.proposals[e.nr].total ELSE e.amount
        row   == IF isNew
                 THEN [borrower |-> e.who, amount |-> e.amount, total |-> total,
                       outstanding |-> total, status |-> "active", approved_ledger |-> e.id,
                       repaid_ledger |-> NULL, defaulted_ledger |-> NULL]
                 ELSE [d.loans[e.nr] EXCEPT !.status = "active", !.approved_ledger = e.id]
    IN  /\ Aside(d, x)
        /\ RowOnly(d.proposals, x.proposals, e.nr) /\ SameKeys(d.proposals, x.proposals)
        /\ e.nr \in DOMAIN d.proposals =>
             HasRow(x.proposals, e.nr, [d.proposals[e.nr] EXCEPT !.status = "approved"])
        /\ RowOnly(d.loans, x.loans, e.nr) /\ HasRow(x.loans, e.nr, row)
        /\ RowOnly(d.members, x.members, e.who) /\ SameKeys(d.members, x.members)
        /\ e.who \in DOMAIN d.members =>
             HasRow(x.members, e.who, [d.members[e.who] EXCEPT !.has_active_loan = TRUE])
        /\ x.totals = [d.totals EXCEPT !.lent = @ + (IF isNew THEN e.amount ELSE 0)]
        /\ \A c \in Columns : Daily(x, c) =
             Daily(d, c) + (IF isNew THEN Delta([originated |-> 1, lent |-> e.amount], c) ELSE 0)

LEMMA LoanApprMeans ==
    ASSUME NEW d, NEW e, TablesOK(d), EventOK(e), e.symbol = "loan_appr"
    PROVE  Good(d, loan_appr(d, e)) /\ ApprovedEffect(d, e, loan_appr(d, e))
<1> DEFINE isNew == e.nr \notin DOMAIN d.loans
           total == IF e.nr \in DOMAIN d.proposals THEN d.proposals[e.nr].total ELSE e.amount
           row   == IF isNew
                    THEN [borrower |-> e.who, amount |-> e.amount, total |-> total,
                          outstanding |-> total, status |-> "active", approved_ledger |-> e.id,
                          repaid_ledger |-> NULL, defaulted_ledger |-> NULL]
                    ELSE [d.loans[e.nr] EXCEPT !.status = "active", !.approved_ledger = e.id]
           prow  == [d.proposals[e.nr] EXCEPT !.status = "approved"]
           mrow  == [d.members[e.who] EXCEPT !.has_active_loan = TRUE]
           P     == Patch(d.proposals, e.nr, prow)
           L     == Upsert(d.loans, e.nr, row)
           M     == HasActiveLoan(d.members, e.who, TRUE)
           d1    == [d EXCEPT !.proposals = P, !.loans = L, !.members = M]
           delta == [originated |-> 1, lent |-> e.amount]
           N     == [d.totals EXCEPT !.lent = @ + e.amount]
           dt    == [d1 EXCEPT !.totals = N]
           d2    == incrementDailyLoanStats(dt, e, delta)
           dx    == IF isNew THEN d2 ELSE d1
           x     == notify(dx, e, e.who)
<1>1. e.who \in Addresses /\ e.amount \in Nat /\ e.id \in Nat
  BY DEF EventOK, Names, Amounts
<1>2. /\ IsTable(d.proposals, ProposalRows) /\ IsTable(d.loans, LoanRows)
      /\ IsTable(d.members, MemberRows) /\ IsFiniteSet(DOMAIN d.loans)
      /\ d.totals \in TotalsRows /\ DOMAIN d = TableNames
  BY DEF TablesOK
<1>3. total \in Nat
  BY <1>1, <1>2 DEF IsTable, ProposalRows
<1>4. row \in LoanRows
  <2> HIDE DEF total
  <2>1. CASE isNew
    BY <1>1, <1>3, <2>1 DEF LoanRows
  <2>2. CASE ~isNew
    <3>1. d.loans[e.nr] \in LoanRows
      BY <1>2, <2>2 DEF IsTable
    <3>2. row = [d.loans[e.nr] EXCEPT !.status = "active", !.approved_ledger = e.id]
      BY <2>2
    <3> HIDE DEF row
    <3> QED
      BY <1>1, <3>1, <3>2 DEF LoanRows
  <2> QED
    BY <2>1, <2>2
<1>5. e.nr \in DOMAIN d.proposals => prow \in ProposalRows /\ prow.status = "approved"
  BY <1>2 DEF IsTable, ProposalRows, ProposalStates
<1>6. N \in TotalsRows
  <2>1. d.totals.lent + e.amount \in Nat
    BY <1>1, <1>2 DEF TotalsRows
  <2> QED
    BY <1>2, <2>1 DEF TotalsRows
<1>7. loan_appr(d, e) = x
  <2>1. [d1 EXCEPT !.totals.lent = @ + e.amount] = dt
    BY <1>2 DEF TableNames
  <2> HIDE DEF row, prow
  <2>2. d1 = [d EXCEPT !.proposals = Patch(@, e.nr, [@[e.nr] EXCEPT !.status = "approved"]),
                       !.loans = Upsert(@, e.nr, row),
                       !.members = HasActiveLoan(@, e.who, TRUE)]
    BY <1>2 DEF prow, TableNames
  <2> HIDE DEF d1
  <2> QED
    BY <2>1, <2>2 DEF loan_appr, row
<1> HIDE DEF row, prow, N, total
<1>8. /\ IsTable(P, ProposalRows) /\ RowOnly(d.proposals, P, e.nr) /\ SameKeys(d.proposals, P)
      /\ e.nr \in DOMAIN d.proposals => HasRow(P, e.nr, prow)
  BY <1>2, <1>5, RowSet
<1>9. IsTable(L, LoanRows) /\ IsFiniteSet(DOMAIN L) /\ RowOnly(d.loans, L, e.nr) /\ HasRow(L, e.nr, row)
  BY <1>2, <1>4, LoanRowPut
<1>10. /\ IsTable(M, MemberRows) /\ RowOnly(d.members, M, e.who) /\ SameKeys(d.members, M)
       /\ e.who \in DOMAIN d.members => HasRow(M, e.who, mrow)
  BY <1>2, FlagSet
<1>11. \A l \in DOMAIN d.proposals : d.proposals[l].status = "approved" =>
         l \in DOMAIN P /\ P[l].status = "approved"
  BY <1>5, <1>8 DEF RowOnly, SameKeys, HasRow
<1> HIDE DEF P, L, M, mrow
<1>12. /\ DOMAIN d1 = TableNames /\ Aside(d, d1) /\ d1.daily = d.daily
       /\ d1.notifications = d.notifications /\ d1.totals = d.totals
       /\ d1.proposals = P /\ d1.loans = L /\ d1.members = M
  BY <1>2 DEF TableNames, Aside
<1> HIDE DEF d1
<1>13. /\ DOMAIN dt = TableNames /\ Aside(d, dt) /\ dt.daily = d.daily
       /\ dt.notifications = d.notifications /\ dt.totals = N
       /\ dt.proposals = P /\ dt.loans = L /\ dt.members = M
  BY <1>12 DEF TableNames, Aside
<1> HIDE DEF dt
<1>14. TablesOK(d1) /\ KeepsClosed(d, d1)
  BY <1>2, <1>8, <1>9, <1>10, <1>11, <1>12, LoanTables
<1>15. TablesOK(dt) /\ KeepsClosed(d, dt)
  BY <1>2, <1>6, <1>8, <1>9, <1>10, <1>11, <1>13, LoanTables
<1>16. \A c \in DOMAIN delta : delta[c] \in Nat
  BY <1>1
<1> HIDE DEF delta
<1>17. /\ TablesOK(d2) /\ KeepsClosed(dt, d2) /\ Only(dt, d2, {"daily"})
       /\ d2.notifications = dt.notifications
       /\ \A c \in Columns : Daily(d2, c) = Daily(dt, c) + Delta(delta, c)
  BY <1>15, <1>16, DailyAdds
<1> HIDE DEF d2
<1>18. /\ d2.proposals = P /\ d2.loans = L /\ d2.members = M /\ d2.totals = N
       /\ Aside(d, d2) /\ d2.notifications = d.notifications /\ KeepsClosed(d, d2)
  BY <1>13, <1>15, <1>17 DEF Only, TableNames, Aside, KeepsClosed
<1>19. /\ \A c \in Columns : Daily(d1, c) = Daily(d, c)
       /\ \A c \in Columns : Daily(dt, c) = Daily(d, c)
  BY <1>12, <1>13 DEF Daily
<1>20. /\ TablesOK(dx) /\ KeepsClosed(d, dx) /\ Aside(d, dx) /\ dx.notifications = d.notifications
       /\ dx.proposals = P /\ dx.loans = L /\ dx.members = M
       /\ dx.totals = IF isNew THEN N ELSE d.totals
       /\ \A c \in Columns : Daily(dx, c) = IF isNew THEN Daily(d, c) + Delta(delta, c) ELSE Daily(d, c)
  BY <1>12, <1>14, <1>17, <1>18, <1>19
<1> HIDE DEF dx
<1>21. Only(d, dx, TableNames)
  BY DEF Only
<1>22. Good(d, x) /\ SameTables(dx, x)
  BY <1>1, <1>20, <1>21, ThenTold
<1> HIDE DEF x
<1>23. /\ x.proposals = P /\ x.loans = L /\ x.members = M /\ Aside(d, x)
       /\ x.totals = IF isNew THEN N ELSE d.totals
       /\ \A c \in Columns : Daily(x, c) = IF isNew THEN Daily(d, c) + Delta(delta, c) ELSE Daily(d, c)
  BY <1>20, <1>22 DEF SameTables, Aside, Daily
<1>24. x.totals = [d.totals EXCEPT !.lent = @ + (IF isNew THEN e.amount ELSE 0)]
  <2>1. d.totals.lent \in Nat /\ d.totals.lent + 0 = d.totals.lent
    BY <1>2 DEF TotalsRows
  <2>2. [d.totals EXCEPT !.lent = d.totals.lent] = d.totals
    BY <1>2 DEF TotalsRows
  <2> QED
    BY <1>23, <2>1, <2>2 DEF N
<1>25. \A c \in Columns : Daily(x, c) =
         Daily(d, c) + (IF isNew THEN Delta(delta, c) ELSE 0)
  BY <1>23, DailyNat
<1> QED
  BY <1>7, <1>8, <1>9, <1>10, <1>22, <1>23, <1>24, <1>25 DEF row, prow, mrow, total, delta, ApprovedEffect

\* What loan_rpy writes: the outstanding amount and, at zero, the status, the flag and,
\* unless the loan already stood repaid, the counters.
RepaidEffect(d, e, x) ==
    LET clears == ClearsLoan(d, e)
        lent   == d.loans[e.nr].amount
        row    == [d.loans[e.nr] EXCEPT !.outstanding = e.amount,
                           !.status = IF e.amount = 0 THEN "repaid" ELSE "active",
                           !.repaid_ledger = IF e.amount = 0 THEN e.id ELSE @]
    IN  /\ Aside(d, x) /\ x.proposals = d.proposals
        /\ RowOnly(d.loans, x.loans, e.nr) /\ SameKeys(d.loans, x.loans)
        /\ e.nr \in DOMAIN d.loans => HasRow(x.loans, e.nr, row)
        /\ RowOnly(d.members, x.members, e.who) /\ SameKeys(d.members, x.members)
        /\ e.amount # 0 => x.members = d.members
        /\ e.amount = 0 /\ e.who \in DOMAIN d.members =>
             HasRow(x.members, e.who, [d.members[e.who] EXCEPT !.has_active_loan = FALSE])
        /\ x.totals = [d.totals EXCEPT !.repaid = @ + (IF clears THEN lent ELSE 0)]
        /\ \A c \in Columns : Daily(x, c) =
             Daily(d, c) + (IF clears THEN Delta([repaid |-> lent], c) ELSE 0)

LEMMA LoanRpyMeans ==
    ASSUME NEW d, NEW e, TablesOK(d), EventOK(e), e.symbol = "loan_rpy"
    PROVE  Good(d, loan_rpy(d, e)) /\ RepaidEffect(d, e, loan_rpy(d, e))
<1> DEFINE repaid == e.amount = 0
           clears == ClearsLoan(d, e)
           lent   == d.loans[e.nr].amount
           row    == [d.loans[e.nr] EXCEPT !.outstanding = e.amount,
                              !.status = IF e.amount = 0 THEN "repaid" ELSE "active",
                              !.repaid_ledger = IF e.amount = 0 THEN e.id ELSE @]
           mrow   == [d.members[e.who] EXCEPT !.has_active_loan = FALSE]
           L      == Patch(d.loans, e.nr, row)
           M      == IF repaid THEN HasActiveLoan(d.members, e.who, FALSE) ELSE d.members
           d1     == [d EXCEPT !.loans = L, !.members = M]
           delta  == [repaid |-> lent]
           N      == [d.totals EXCEPT !.repaid = @ + lent]
           dt     == [d1 EXCEPT !.totals = N]
           d2     == incrementDailyLoanStats(dt, e, delta)
           dx     == IF clears THEN d2 ELSE d1
           x      == notify(dx, e, e.who)
<1>1. e.who \in Addresses /\ e.amount \in Nat /\ e.id \in Nat
  BY DEF EventOK, Names, Amounts
<1>2. /\ IsTable(d.proposals, ProposalRows) /\ IsTable(d.loans, LoanRows)
      /\ IsTable(d.members, MemberRows) /\ IsFiniteSet(DOMAIN d.loans)
      /\ d.totals \in TotalsRows /\ DOMAIN d = TableNames
  BY DEF TablesOK
<1>3. clears => lent \in Nat
  BY <1>2 DEF IsTable, LoanRows, ClearsLoan
<1>4. e.nr \in DOMAIN d.loans => row \in LoanRows
  <2> SUFFICES ASSUME e.nr \in DOMAIN d.loans PROVE row \in LoanRows
    OBVIOUS
  <2>1. d.loans[e.nr] \in LoanRows
    BY <1>2 DEF IsTable
  <2>2. CASE e.amount = 0
    <3>1. row = [d.loans[e.nr] EXCEPT !.outstanding = e.amount, !.status = "repaid",
                                      !.repaid_ledger = e.id]
      BY <2>2
    <3> QED
      BY <1>1, <2>1, <3>1 DEF LoanRows
  <2>3. CASE e.amount # 0
    <3>1. row = [d.loans[e.nr] EXCEPT !.outstanding = e.amount, !.status = "active"]
      BY <2>1, <2>3 DEF LoanRows
    <3> QED
      BY <1>1, <2>1, <3>1 DEF LoanRows
  <2> QED
    BY <2>2, <2>3
<1>5. clears => N \in TotalsRows
  <2> SUFFICES ASSUME clears PROVE N \in TotalsRows
    OBVIOUS
  <2> HIDE DEF lent
  <2>1. d.totals.repaid + lent \in Nat
    BY <1>2, <1>3 DEF TotalsRows
  <2> QED
    BY <1>2, <2>1 DEF TotalsRows
<1>6. loan_rpy(d, e) = x
  <2>1. [d1 EXCEPT !.totals.repaid = @ + lent] = dt
    BY <1>2 DEF TableNames
  <2> HIDE DEF row
  <2>2. d1 = [d EXCEPT !.loans = Patch(@, e.nr, row),
                       !.members = IF repaid THEN HasActiveLoan(@, e.who, FALSE) ELSE @]
    BY <1>2 DEF TableNames
  <2> HIDE DEF d1
  <2> QED
    BY <2>1, <2>2 DEF loan_rpy, row
<1> HIDE DEF row, N, lent, clears
<1>7. /\ IsTable(L, LoanRows) /\ RowOnly(d.loans, L, e.nr) /\ SameKeys(d.loans, L)
      /\ e.nr \in DOMAIN d.loans => HasRow(L, e.nr, row)
  BY <1>2, <1>4, RowSet
<1>8. IsFiniteSet(DOMAIN L)
  BY <1>2, <1>7 DEF SameKeys
<1>9. /\ IsTable(M, MemberRows) /\ RowOnly(d.members, M, e.who) /\ SameKeys(d.members, M)
      /\ e.amount # 0 => M = d.members
      /\ e.amount = 0 /\ e.who \in DOMAIN d.members => HasRow(M, e.who, mrow)
  <2>1. CASE repaid
    BY <1>2, <2>1, FlagSet
  <2>2. CASE ~repaid
    BY <1>2, <2>2 DEF RowOnly, SameKeys
  <2> QED
    BY <2>1, <2>2
<1>10. \A l \in DOMAIN d.proposals : d.proposals[l].status = "approved" =>
         l \in DOMAIN d.proposals /\ d.proposals[l].status = "approved"
  OBVIOUS
<1> HIDE DEF L, M, mrow
<1>11. /\ DOMAIN d1 = TableNames /\ Aside(d, d1) /\ d1.daily = d.daily
       /\ d1.notifications = d.notifications /\ d1.totals = d.totals
       /\ d1.proposals = d.proposals /\ d1.loans = L /\ d1.members = M
  BY <1>2 DEF TableNames, Aside
<1> HIDE DEF d1
<1>12. /\ DOMAIN dt = TableNames /\ Aside(d, dt) /\ dt.daily = d.daily
       /\ dt.notifications = d.notifications /\ dt.totals = N
       /\ dt.proposals = d.proposals /\ dt.loans = L /\ dt.members = M
  BY <1>11 DEF TableNames, Aside
<1> HIDE DEF dt
<1>13. TablesOK(d1) /\ KeepsClosed(d, d1)
  BY <1>2, <1>7, <1>8, <1>9, <1>10, <1>11, LoanTables
<1>14. clears => TablesOK(dt) /\ KeepsClosed(d, dt)
  BY <1>2, <1>5, <1>7, <1>8, <1>9, <1>10, <1>12, LoanTables
<1>15. clears => \A c \in DOMAIN delta : delta[c] \in Nat
  BY <1>3
<1> HIDE DEF delta
<1>16. clears =>
         /\ TablesOK(d2) /\ KeepsClosed(dt, d2) /\ Only(dt, d2, {"daily"})
         /\ d2.notifications = dt.notifications
         /\ \A c \in Columns : Daily(d2, c) = Daily(dt, c) + Delta(delta, c)
  BY <1>14, <1>15, DailyAdds
<1> HIDE DEF d2
<1>17. clears =>
         /\ d2.proposals = d.proposals /\ d2.loans = L /\ d2.members = M /\ d2.totals = N
         /\ Aside(d, d2) /\ d2.notifications = d.notifications /\ KeepsClosed(d, d2)
  BY <1>12, <1>14, <1>16 DEF Only, TableNames, Aside, KeepsClosed
<1>18. /\ \A c \in Columns : Daily(d1, c) = Daily(d, c)
       /\ \A c \in Columns : Daily(dt, c) = Daily(d, c)
  BY <1>11, <1>12 DEF Daily
<1>19. /\ TablesOK(dx) /\ KeepsClosed(d, dx) /\ Aside(d, dx) /\ dx.notifications = d.notifications
       /\ dx.proposals = d.proposals /\ dx.loans = L /\ dx.members = M
       /\ dx.totals = IF clears THEN N ELSE d.totals
       /\ \A c \in Columns : Daily(dx, c) = IF clears THEN Daily(d, c) + Delta(delta, c) ELSE Daily(d, c)
  BY <1>11, <1>13, <1>16, <1>17, <1>18
<1> HIDE DEF dx
<1>20. Only(d, dx, TableNames)
  BY DEF Only
<1>21. Good(d, x) /\ SameTables(dx, x)
  BY <1>1, <1>19, <1>20, ThenTold
<1> HIDE DEF x
<1>22. /\ x.proposals = d.proposals /\ x.loans = L /\ x.members = M /\ Aside(d, x)
       /\ x.totals = IF clears THEN N ELSE d.totals
       /\ \A c \in Columns : Daily(x, c) = IF clears THEN Daily(d, c) + Delta(delta, c) ELSE Daily(d, c)
  BY <1>19, <1>21 DEF SameTables, Aside, Daily
<1>23. x.totals = [d.totals EXCEPT !.repaid = @ + (IF clears THEN lent ELSE 0)]
  <2>1. d.totals.repaid \in Nat /\ d.totals.repaid + 0 = d.totals.repaid
    BY <1>2 DEF TotalsRows
  <2>2. [d.totals EXCEPT !.repaid = d.totals.repaid] = d.totals
    BY <1>2 DEF TotalsRows
  <2> QED
    BY <1>22, <2>1, <2>2 DEF N
<1>24. \A c \in Columns : Daily(x, c) =
         Daily(d, c) + (IF clears THEN Delta(delta, c) ELSE 0)
  BY <1>22, DailyNat
<1> QED
  BY <1>6, <1>7, <1>9, <1>21, <1>22, <1>23, <1>24 DEF row, mrow, lent, delta, clears, RepaidEffect

\* What loan_dflt writes: nothing if the loan already stands defaulted.
DefaultedEffect(d, e, x) ==
    LET fails == e.nr \in DOMAIN d.loans /\ d.loans[e.nr].status # "defaulted"
        owed  == d.loans[e.nr].outstanding
        row   == [d.loans[e.nr] EXCEPT !.status = "defaulted", !.defaulted_ledger = e.id]
        mrow  == [d.members[e.who] EXCEPT !.contribution = Monus(@, e.amount),
                          !.defaults = @ + 1, !.has_active_loan = FALSE]
    IN  /\ Aside(d, x) /\ x.proposals = d.proposals
        /\ ~fails => x = d
        /\ fails =>
             /\ RowOnly(d.loans, x.loans, e.nr) /\ SameKeys(d.loans, x.loans)
             /\ HasRow(x.loans, e.nr, row)
             /\ RowOnly(d.members, x.members, e.who) /\ SameKeys(d.members, x.members)
             /\ e.who \in DOMAIN d.members => HasRow(x.members, e.who, mrow)
             /\ x.totals = [d.totals EXCEPT !.defaulted = @ + owed]
             /\ \A c \in Columns : Daily(x, c) =
                  Daily(d, c) + Delta([defaults |-> 1, defaulted |-> owed], c)

LEMMA LoanDfltMeans ==
    ASSUME NEW d, NEW e, TablesOK(d), EventOK(e), e.symbol = "loan_dflt"
    PROVE  Good(d, loan_dflt(d, e)) /\ DefaultedEffect(d, e, loan_dflt(d, e))
<1> DEFINE fails == e.nr \in DOMAIN d.loans /\ d.loans[e.nr].status # "defaulted"
           owed  == d.loans[e.nr].outstanding
           row   == [d.loans[e.nr] EXCEPT !.status = "defaulted", !.defaulted_ledger = e.id]
           mrow  == [d.members[e.who] EXCEPT !.contribution = Monus(@, e.amount),
                             !.defaults = @ + 1, !.has_active_loan = FALSE]
           L     == Patch(d.loans, e.nr, row)
           M     == Patch(d.members, e.who, mrow)
           N     == [d.totals EXCEPT !.defaulted = @ + owed]
           d1    == [d EXCEPT !.loans = L, !.totals = N, !.members = M]
           delta == [defaults |-> 1, defaulted |-> owed]
           d2    == incrementDailyLoanStats(d1, e, delta)
           x     == notify(d2, e, e.who)
<1>1. e.who \in Addresses /\ e.amount \in Nat /\ e.id \in Nat
  BY DEF EventOK, Names, Amounts
<1>2. /\ IsTable(d.proposals, ProposalRows) /\ IsTable(d.loans, LoanRows)
      /\ IsTable(d.members, MemberRows) /\ IsFiniteSet(DOMAIN d.loans)
      /\ d.totals \in TotalsRows /\ DOMAIN d = TableNames
  BY DEF TablesOK
<1>3. CASE ~fails
  <2>1. loan_dflt(d, e) = d
    BY <1>3 DEF loan_dflt
  <2>2. Good(d, d) /\ Aside(d, d)
    BY DEF Good, ToldOnce, KeepsClosed, Aside
  <2> QED
    BY <1>3, <2>1, <2>2 DEF DefaultedEffect
<1>4. CASE fails
  <2>1. loan_dflt(d, e) = x
    <3> DEFINE y == [d EXCEPT !.loans[e.nr].status = "defaulted",
                              !.loans[e.nr].defaulted_ledger = e.id,
                              !.totals.defaulted = @ + owed,
                              !.members = Patch(@, e.who, mrow)]
    <3>1. loan_dflt(d, e) = notify(incrementDailyLoanStats(y, e, delta), e, e.who)
      BY <1>4 DEF loan_dflt
    <3> HIDE DEF mrow
    <3>2. L = [d.loans EXCEPT ![e.nr] = row]
      BY <1>4 DEF Patch
    <3>3. y = [d EXCEPT !.loans = [d.loans EXCEPT ![e.nr] = row], !.totals = N, !.members = M]
      BY <1>2, <1>4 DEF TableNames
    <3> QED
      BY <3>1, <3>2, <3>3
  <2>2. d.loans[e.nr] \in LoanRows
    BY <1>2, <1>4 DEF IsTable
  <2>3. owed \in Nat /\ row \in LoanRows
    BY <1>1, <2>2 DEF LoanRows
  <2>4. e.who \in DOMAIN d.members => mrow \in MemberRows
    <3> SUFFICES ASSUME e.who \in DOMAIN d.members PROVE mrow \in MemberRows
      OBVIOUS
    <3>1. d.members[e.who] \in MemberRows
      BY <1>2 DEF IsTable
    <3>2. d.members[e.who].contribution \in Nat /\ d.members[e.who].defaults \in Nat
      BY <3>1 DEF MemberRows
    <3>3. Monus(d.members[e.who].contribution, e.amount) \in Nat /\ d.members[e.who].defaults + 1 \in Nat
      BY <1>1, <3>2 DEF Monus
    <3> QED
      BY <3>1, <3>3 DEF MemberRows
  <2>5. N \in TotalsRows
    <3> HIDE DEF owed
    <3>1. d.totals.defaulted + owed \in Nat
      BY <1>2, <2>3 DEF TotalsRows
    <3> QED
      BY <1>2, <3>1 DEF TotalsRows
  <2> HIDE DEF row, mrow, N, owed
  <2>6. /\ IsTable(L, LoanRows) /\ RowOnly(d.loans, L, e.nr) /\ SameKeys(d.loans, L)
        /\ e.nr \in DOMAIN d.loans => HasRow(L, e.nr, row)
    BY <1>2, <2>3, RowSet
  <2>7. IsFiniteSet(DOMAIN L)
    BY <1>2, <2>6 DEF SameKeys
  <2>8. /\ IsTable(M, MemberRows) /\ RowOnly(d.members, M, e.who) /\ SameKeys(d.members, M)
        /\ e.who \in DOMAIN d.members => HasRow(M, e.who, mrow)
    BY <1>2, <2>4, RowSet
  <2>9. \A l \in DOMAIN d.proposals : d.proposals[l].status = "approved" =>
          l \in DOMAIN d.proposals /\ d.proposals[l].status = "approved"
    OBVIOUS
  <2> HIDE DEF L, M
  <2>10. /\ DOMAIN d1 = TableNames /\ Aside(d, d1) /\ d1.daily = d.daily
         /\ d1.notifications = d.notifications /\ d1.totals = N
         /\ d1.proposals = d.proposals /\ d1.loans = L /\ d1.members = M
    BY <1>2 DEF TableNames, Aside
  <2> HIDE DEF d1
  <2>11. TablesOK(d1) /\ KeepsClosed(d, d1)
    BY <1>2, <2>5, <2>6, <2>7, <2>8, <2>9, <2>10, LoanTables
  <2>12. \A c \in DOMAIN delta : delta[c] \in Nat
    BY <2>3
  <2> HIDE DEF delta
  <2>13. /\ TablesOK(d2) /\ KeepsClosed(d1, d2) /\ Only(d1, d2, {"daily"})
         /\ d2.notifications = d1.notifications
         /\ \A c \in Columns : Daily(d2, c) = Daily(d1, c) + Delta(delta, c)
    BY <2>11, <2>12, DailyAdds
  <2> HIDE DEF d2
  <2>14. /\ d2.proposals = d.proposals /\ d2.loans = L /\ d2.members = M /\ d2.totals = N
         /\ Aside(d, d2) /\ d2.notifications = d.notifications /\ KeepsClosed(d, d2)
    BY <2>10, <2>11, <2>13 DEF Only, TableNames, Aside, KeepsClosed
  <2>15. \A c \in Columns : Daily(d1, c) = Daily(d, c)
    BY <2>10 DEF Daily
  <2>16. Only(d, d2, TableNames)
    BY DEF Only
  <2>17. Good(d, x) /\ SameTables(d2, x)
    BY <1>1, <2>13, <2>14, <2>16, ThenTold
  <2> HIDE DEF x
  <2>18. /\ x.proposals = d.proposals /\ x.loans = L /\ x.members = M /\ Aside(d, x) /\ x.totals = N
         /\ \A c \in Columns : Daily(x, c) = Daily(d, c) + Delta(delta, c)
    BY <2>13, <2>14, <2>15, <2>17 DEF SameTables, Aside, Daily
  <2> QED
    BY <1>4, <2>1, <2>6, <2>8, <2>17, <2>18 DEF row, mrow, owed, delta, N, DefaultedEffect
<1> QED
  BY <1>3, <1>4

-----------------------------------------------------------------------------
\* applyEvent: a handler per symbol.

\* The symbols applyEvent has a handler for.
Handled ==
    {"joined", "exited", "claimed", "loan_req", "loan_edit", "loan_vote", "loan_wait", "loan_rej",
     "loan_appr", "loan_rpy", "loan_dflt", "loan_exp", "interest", "tre_prop", "tre_vote", "tre_wait",
     "tre_rej", "tre_exec", "staked", "unstaked", "name_reg", "committed", "doc_attn", "revealed"}

\* An event without a handler changes nothing.
LEMMA ApplyOther ==
    ASSUME NEW d, NEW e, e.symbol \notin Handled
    PROVE  applyEvent(d, e) = d
BY DEF applyEvent, Handled

\* What every handler guarantees, applyEvent guarantees.
LEMMA ApplyGood ==
    ASSUME NEW d, NEW e, TablesOK(d), EventOK(e)
    PROVE  Good(d, applyEvent(d, e))
<1>1. CASE e.symbol \notin Handled
  <2>1. Good(d, d)
    BY DEF Good, ToldOnce, KeepsClosed
  <2> QED
    BY <1>1, <2>1, ApplyOther
<1>2. CASE e.symbol = "joined"
  <2>1. applyEvent(d, e) = joined(d, e)
    BY <1>2 DEF applyEvent
  <2> QED
    BY <1>2, <2>1, JoinedMeans
<1>3. CASE e.symbol = "exited"
  <2>1. applyEvent(d, e) = exited(d, e)
    BY <1>3 DEF applyEvent
  <2> QED
    BY <1>3, <2>1, ExitedMeans
<1>4. CASE e.symbol = "claimed"
  <2>1. applyEvent(d, e) = claimed(d, e)
    BY <1>4 DEF applyEvent
  <2> QED
    BY <1>4, <2>1, ClaimedMeans
<1>5. CASE e.symbol = "loan_req"
  <2>1. applyEvent(d, e) = loan_req(d, e)
    BY <1>5 DEF applyEvent
  <2> QED
    BY <1>5, <2>1, LoanReqMeans
<1>6. CASE e.symbol = "loan_edit"
  <2>1. applyEvent(d, e) = loan_edit(d, e)
    BY <1>6 DEF applyEvent
  <2> QED
    BY <1>6, <2>1, LoanEditMeans
<1>7. CASE e.symbol = "loan_vote"
  <2>1. applyEvent(d, e) = loan_vote(d, e)
    BY <1>7 DEF applyEvent
  <2> QED
    BY <1>7, <2>1, LoanVoteMeans
<1>8. CASE e.symbol = "loan_wait"
  <2>1. applyEvent(d, e) = loan_wait(d, e)
    BY <1>8 DEF applyEvent
  <2> QED
    BY <1>8, <2>1, LoanWaitMeans
<1>9. CASE e.symbol = "loan_rej"
  <2>1. applyEvent(d, e) = loan_rej(d, e)
    BY <1>9 DEF applyEvent
  <2> QED
    BY <1>9, <2>1, LoanRejMeans
<1>10. CASE e.symbol = "loan_appr"
  <2>1. applyEvent(d, e) = loan_appr(d, e)
    BY <1>10 DEF applyEvent
  <2> QED
    BY <1>10, <2>1, LoanApprMeans
<1>11. CASE e.symbol = "loan_rpy"
  <2>1. applyEvent(d, e) = loan_rpy(d, e)
    BY <1>11 DEF applyEvent
  <2> QED
    BY <1>11, <2>1, LoanRpyMeans
<1>12. CASE e.symbol = "loan_dflt"
  <2>1. applyEvent(d, e) = loan_dflt(d, e)
    BY <1>12 DEF applyEvent
  <2> QED
    BY <1>12, <2>1, LoanDfltMeans
<1>13. CASE e.symbol = "loan_exp"
  <2>1. applyEvent(d, e) = loan_exp(d, e)
    BY <1>13 DEF applyEvent
  <2> QED
    BY <1>13, <2>1, LoanExpMeans
<1>14. CASE e.symbol = "interest"
  <2>1. applyEvent(d, e) = interest(d, e)
    BY <1>14 DEF applyEvent
  <2> QED
    BY <1>14, <2>1, InterestMeans
<1>15. CASE e.symbol = "tre_prop"
  <2>1. applyEvent(d, e) = tre_prop(d, e)
    BY <1>15 DEF applyEvent
  <2> QED
    BY <1>15, <2>1, TrePropMeans
<1>16. CASE e.symbol = "tre_vote"
  <2>1. applyEvent(d, e) = tre_vote(d, e)
    BY <1>16 DEF applyEvent
  <2> QED
    BY <1>16, <2>1, TreVoteMeans
<1>17. CASE e.symbol = "tre_wait"
  <2>1. applyEvent(d, e) = tre_wait(d, e)
    BY <1>17 DEF applyEvent
  <2> QED
    BY <1>17, <2>1, TreWaitMeans
<1>18. CASE e.symbol = "tre_rej"
  <2>1. applyEvent(d, e) = tre_rej(d, e)
    BY <1>18 DEF applyEvent
  <2> QED
    BY <1>18, <2>1, TreRejMeans
<1>19. CASE e.symbol = "tre_exec"
  <2>1. applyEvent(d, e) = tre_exec(d, e)
    BY <1>19 DEF applyEvent
  <2> QED
    BY <1>19, <2>1, TreExecMeans
<1>20. CASE e.symbol = "staked"
  <2>1. applyEvent(d, e) = staked(d, e)
    BY <1>20 DEF applyEvent
  <2> QED
    BY <1>20, <2>1, StakedMeans
<1>21. CASE e.symbol = "unstaked"
  <2>1. applyEvent(d, e) = unstaked(d, e)
    BY <1>21 DEF applyEvent
  <2> QED
    BY <1>21, <2>1, UnstakedMeans
<1>22. CASE e.symbol = "name_reg"
  <2>1. applyEvent(d, e) = name_reg(d, e)
    BY <1>22 DEF applyEvent
  <2> QED
    BY <1>22, <2>1, NameRegMeans
<1>23. CASE e.symbol = "committed"
  <2>1. applyEvent(d, e) = committed(d, e)
    BY <1>23 DEF applyEvent
  <2> QED
    BY <1>23, <2>1, CommittedMeans
<1>24. CASE e.symbol = "doc_attn"
  <2>1. applyEvent(d, e) = doc_attn(d, e)
    BY <1>24 DEF applyEvent
  <2> QED
    BY <1>24, <2>1, DocAttnMeans
<1>25. CASE e.symbol = "revealed"
  <2>1. applyEvent(d, e) = revealed(d, e)
    BY <1>25 DEF applyEvent
  <2> QED
    BY <1>25, <2>1, RevealedMeans
<1> QED
  BY <1>1, <1>2, <1>3, <1>4, <1>5, <1>6, <1>7, <1>8, <1>9, <1>10, <1>11, <1>12, <1>13,
     <1>14, <1>15, <1>16, <1>17, <1>18, <1>19, <1>20, <1>21, <1>22, <1>23, <1>24, <1>25 DEF Handled

\* The tables a reindex starts from.
LEMMA EmptyOK == TablesOK(EmptyTables) /\ IsInjective(EmptyTables.notifications)
<1>1. DOMAIN EmptyTables = TableNames
  BY DEF EmptyTables, TableNames
<1>2. DOMAIN NoRows = {} /\ \A R : IsTable(NoRows, R)
  BY DEF NoRows, IsTable
<1>3. IsFiniteSet({})
  BY FS_EmptySet
<1>4. << >> \in Seq(Tellings) /\ IsInjective(<< >>)
  BY DEF IsInjective
<1>5. EmptyTables.totals \in TotalsRows
  BY DEF EmptyTables, TotalsRows
<1> QED
  BY <1>1, <1>2, <1>3, <1>4, <1>5 DEF EmptyTables, TablesOK

-----------------------------------------------------------------------------
\* The books, one fold after another.  The unconditional part.

\* The totals agree with the days, the principal lent with the loans, and the loans are
\* counted once, whatever was redelivered.
Balanced(d) ==
    /\ d.totals.lent = PrincipalOf(d, DOMAIN d.loans)
    /\ Daily(d, "lent") = d.totals.lent
    /\ Daily(d, "repaid") = d.totals.repaid
    /\ Daily(d, "defaulted") = d.totals.defaulted
    /\ Daily(d, "originated") = Cardinality(DOMAIN d.loans)

\* What is repaid and defaulted agrees with the loans.
ClosedBooks(d) ==
    /\ d.totals.repaid = PrincipalOf(d, LoansWith(d, "repaid_ledger"))
    /\ Daily(d, "defaults") = Cardinality(LoansWith(d, "defaulted_ledger"))

\* Principal counts only the amounts of the loans it is taken over.
LEMMA PrincipalSame ==
    ASSUME NEW d, NEW x, NEW S, \A l \in S : x.loans[l].amount = d.loans[l].amount
    PROVE  PrincipalOf(x, S) = PrincipalOf(d, S)
<1>1. [l \in S |-> x.loans[l].amount] = [l \in S |-> d.loans[l].amount]
  OBVIOUS
<1> QED
  BY <1>1 DEF PrincipalOf

\* A loan more adds its principal.
LEMMA PrincipalAdd ==
    ASSUME NEW d, NEW S, IsFiniteSet(S), NEW k, k \notin S, \A l \in S \cup {k} : d.loans[l].amount \in Nat
    PROVE  /\ PrincipalOf(d, S \cup {k}) = PrincipalOf(d, S) + d.loans[k].amount
           /\ PrincipalOf(d, S) \in Nat
<1> DEFINE f == [l \in S |-> d.loans[l].amount]
           g == [l \in S \cup {k} |-> d.loans[l].amount]
<1>1. /\ f \in [S -> Nat] /\ g \in [S \cup {k} -> Nat] /\ Agree(f, g, S)
      /\ g[k] = d.loans[k].amount
  BY DEF Agree
<1>2. PrincipalOf(d, S) = Total(f) /\ PrincipalOf(d, S \cup {k}) = Total(g)
  BY DEF PrincipalOf
<1> HIDE DEF f, g
<1>3. Total(g) = Total(f) + g[k]
  BY <1>1, TotalAdd
<1>4. Total(f) \in Nat
  BY <1>1, TotalNat
<1> QED
  BY <1>1, <1>2, <1>3, <1>4

\* The deltas of the three handlers, counter by counter.
LEMMA DeltaOf ==
    /\ \A v : LET delta == [originated |-> 1, lent |-> v]
              IN  /\ Delta(delta, "originated") = 1 /\ Delta(delta, "lent") = v
                  /\ Delta(delta, "repaid") = 0 /\ Delta(delta, "defaults") = 0
                  /\ Delta(delta, "defaulted") = 0
    /\ \A v : LET delta == [repaid |-> v]
              IN  /\ Delta(delta, "originated") = 0 /\ Delta(delta, "lent") = 0
                  /\ Delta(delta, "repaid") = v /\ Delta(delta, "defaults") = 0
                  /\ Delta(delta, "defaulted") = 0
    /\ \A v : LET delta == [defaults |-> 1, defaulted |-> v]
              IN  /\ Delta(delta, "originated") = 0 /\ Delta(delta, "lent") = 0
                  /\ Delta(delta, "repaid") = 0 /\ Delta(delta, "defaults") = 1
                  /\ Delta(delta, "defaulted") = v
BY DEF Delta

\* A loan event adds to every column what its effect says.
Adds(d, x, originated, lent, repaid, defaults, defaulted) ==
    /\ Daily(x, "originated") = Daily(d, "originated") + originated
    /\ Daily(x, "lent") = Daily(d, "lent") + lent
    /\ Daily(x, "repaid") = Daily(d, "repaid") + repaid
    /\ Daily(x, "defaults") = Daily(d, "defaults") + defaults
    /\ Daily(x, "defaulted") = Daily(d, "defaulted") + defaulted
    /\ x.totals.lent = d.totals.lent + lent
    /\ x.totals.repaid = d.totals.repaid + repaid
    /\ x.totals.defaulted = d.totals.defaulted + defaulted

\* All five counters at once.
LEMMA DailyColumns ==
    ASSUME NEW d, TablesOK(d)
    PROVE  /\ Daily(d, "originated") \in Nat /\ Daily(d, "lent") \in Nat /\ Daily(d, "repaid") \in Nat
           /\ Daily(d, "defaults") \in Nat /\ Daily(d, "defaulted") \in Nat
           /\ d.totals.lent \in Nat /\ d.totals.repaid \in Nat /\ d.totals.defaulted \in Nat
<1>1. /\ "originated" \in Columns /\ "lent" \in Columns /\ "repaid" \in Columns
      /\ "defaults" \in Columns /\ "defaulted" \in Columns
  BY DEF Columns
<1>2. d.totals \in TotalsRows
  BY DEF TablesOK
<1> QED
  BY <1>1, <1>2, DailyNat DEF TotalsRows

\* What the three handlers add to the days.
LEMMA ApprovedAdds ==
    ASSUME NEW d, NEW e, NEW x, TablesOK(d), EventOK(e), e.symbol = "loan_appr", ApprovedEffect(d, e, x)
    PROVE  IF e.nr \notin DOMAIN d.loans
           THEN Adds(d, x, 1, e.amount, 0, 0, 0)
           ELSE Adds(d, x, 0, 0, 0, 0, 0)
<1>1. /\ "originated" \in Columns /\ "lent" \in Columns /\ "repaid" \in Columns
      /\ "defaults" \in Columns /\ "defaulted" \in Columns
  BY DEF Columns
<1>2. d.totals \in TotalsRows /\ e.amount \in Nat
  BY DEF TablesOK, EventOK, Amounts
<1> DEFINE new == IF e.nr \notin DOMAIN d.loans THEN e.amount ELSE 0
<1>3. x.totals = [d.totals EXCEPT !.lent = @ + new]
  BY DEF ApprovedEffect
<1>4. /\ x.totals.lent = d.totals.lent + new /\ x.totals.repaid = d.totals.repaid
      /\ x.totals.defaulted = d.totals.defaulted
  <2> HIDE DEF new
  <2> QED
    BY <1>2, <1>3 DEF TotalsRows
<1>5. \A c \in Columns : Daily(x, c) =
        Daily(d, c) + (IF e.nr \notin DOMAIN d.loans THEN Delta([originated |-> 1, lent |-> e.amount], c) ELSE 0)
  BY DEF ApprovedEffect
<1> QED
  BY <1>1, <1>2, <1>4, <1>5, DeltaOf, DailyColumns DEF Adds

LEMMA RepaidAdds ==
    ASSUME NEW d, NEW e, NEW x, TablesOK(d), EventOK(e), e.symbol = "loan_rpy", RepaidEffect(d, e, x)
    PROVE  IF ClearsLoan(d, e)
           THEN Adds(d, x, 0, 0, d.loans[e.nr].amount, 0, 0)
           ELSE Adds(d, x, 0, 0, 0, 0, 0)
<1>1. /\ "originated" \in Columns /\ "lent" \in Columns /\ "repaid" \in Columns
      /\ "defaults" \in Columns /\ "defaulted" \in Columns
  BY DEF Columns
<1>2. d.totals \in TotalsRows
  BY DEF TablesOK
<1> DEFINE new == IF ClearsLoan(d, e) THEN d.loans[e.nr].amount ELSE 0
<1>3. x.totals = [d.totals EXCEPT !.repaid = @ + new]
  BY DEF RepaidEffect
<1>4. /\ x.totals.repaid = d.totals.repaid + new /\ x.totals.lent = d.totals.lent
      /\ x.totals.defaulted = d.totals.defaulted
  <2> HIDE DEF new
  <2> QED
    BY <1>2, <1>3 DEF TotalsRows
<1>5. \A c \in Columns : Daily(x, c) =
        Daily(d, c) + (IF ClearsLoan(d, e) THEN Delta([repaid |-> d.loans[e.nr].amount], c) ELSE 0)
  BY DEF RepaidEffect
<1>6. ClearsLoan(d, e) => d.loans[e.nr].amount \in Nat
  BY DEF TablesOK, IsTable, LoanRows, ClearsLoan
<1> QED
  BY <1>1, <1>2, <1>4, <1>5, <1>6, DeltaOf, DailyColumns DEF Adds

LEMMA DefaultedAdds ==
    ASSUME NEW d, NEW e, NEW x, TablesOK(d), EventOK(e), e.symbol = "loan_dflt", DefaultedEffect(d, e, x),
           e.nr \in DOMAIN d.loans, d.loans[e.nr].status # "defaulted"
    PROVE  Adds(d, x, 0, 0, 0, 1, d.loans[e.nr].outstanding)
<1>1. /\ "originated" \in Columns /\ "lent" \in Columns /\ "repaid" \in Columns
      /\ "defaults" \in Columns /\ "defaulted" \in Columns
  BY DEF Columns
<1>2. d.totals \in TotalsRows
  BY DEF TablesOK
<1> DEFINE owed == d.loans[e.nr].outstanding
<1>3. x.totals = [d.totals EXCEPT !.defaulted = @ + owed]
  BY DEF DefaultedEffect
<1>4. \A c \in Columns : Daily(x, c) = Daily(d, c) + Delta([defaults |-> 1, defaulted |-> owed], c)
  BY DEF DefaultedEffect
<1>5. owed \in Nat
  BY DEF TablesOK, IsTable, LoanRows
<1> HIDE DEF owed
<1>6. /\ x.totals.defaulted = d.totals.defaulted + owed /\ x.totals.lent = d.totals.lent
      /\ x.totals.repaid = d.totals.repaid
  BY <1>2, <1>3 DEF TotalsRows
<1>7. Adds(d, x, 0, 0, 0, 1, owed)
  BY <1>1, <1>2, <1>4, <1>5, <1>6, DeltaOf, DailyColumns DEF Adds
<1> QED
  BY <1>7 DEF owed

\* A step that keeps the loans and what was lent of each keeps the books balanced.
LEMMA BalanceKept ==
    ASSUME NEW d, NEW x, NEW r \in Nat, NEW n \in Nat, NEW f \in Nat, TablesOK(d), Balanced(d),
           Adds(d, x, 0, 0, r, n, f), SameKeys(d.loans, x.loans),
           \A l \in DOMAIN d.loans : x.loans[l].amount = d.loans[l].amount
    PROVE  Balanced(x)
<1>1. DOMAIN x.loans = DOMAIN d.loans
  BY DEF SameKeys
<1>2. PrincipalOf(x, DOMAIN d.loans) = PrincipalOf(d, DOMAIN d.loans)
  BY PrincipalSame
<1>3. PrincipalOf(x, DOMAIN x.loans) = PrincipalOf(d, DOMAIN d.loans)
      /\ Cardinality(DOMAIN x.loans) = Cardinality(DOMAIN d.loans)
  BY <1>1, <1>2
<1> QED
  BY <1>3, DailyColumns DEF Balanced, Adds

\* The books on closed loans survive a step that closes none.
LEMMA ClosedKept ==
    ASSUME NEW d, NEW x, NEW o \in Nat, NEW n \in Nat, NEW f \in Nat, TablesOK(d), ClosedBooks(d),
           Adds(d, x, o, n, 0, 0, f),
           LoansWith(x, "repaid_ledger") = LoansWith(d, "repaid_ledger"),
           LoansWith(x, "defaulted_ledger") = LoansWith(d, "defaulted_ledger"),
           \A l \in LoansWith(d, "repaid_ledger") : x.loans[l].amount = d.loans[l].amount
    PROVE  ClosedBooks(x)
<1> DEFINE R == LoansWith(d, "repaid_ledger")
<1>1. PrincipalOf(x, R) = PrincipalOf(d, R)
  BY PrincipalSame
<1> HIDE DEF R
<1>2. PrincipalOf(x, LoansWith(x, "repaid_ledger")) = PrincipalOf(d, LoansWith(d, "repaid_ledger"))
      /\ Cardinality(LoansWith(x, "defaulted_ledger")) = Cardinality(LoansWith(d, "defaulted_ledger"))
  BY <1>1 DEF R
<1> QED
  BY <1>2, DailyColumns DEF ClosedBooks, Adds

\* A closed loan says when it was closed.
Dated(d) ==
    \A l \in DOMAIN d.loans :
        /\ d.loans[l].status = "repaid" => d.loans[l].repaid_ledger # NULL
        /\ d.loans[l].status = "defaulted" => d.loans[l].defaulted_ledger # NULL

\* e is the final repayment of l.
Repays(e, l) == e.symbol = "loan_rpy" /\ e.nr = l /\ e.amount = 0

\* e is the default of l.
Defaults(e, l) == e.symbol = "loan_dflt" /\ e.nr = l

\* What an event leaves of the loans: a date comes from the event that closes the loan,
\* and the loan is closed after it.
LoansAfter(d, e, x) ==
    \A l \in DOMAIN x.loans :
        /\ x.loans[l].repaid_ledger # NULL =>
             Repays(e, l) \/ (l \in DOMAIN d.loans /\ d.loans[l].repaid_ledger # NULL)
        /\ x.loans[l].defaulted_ledger # NULL =>
             Defaults(e, l) \/ (l \in DOMAIN d.loans /\ d.loans[l].defaulted_ledger # NULL)
        /\ Repays(e, l) => x.loans[l].status = "repaid"
        /\ Defaults(e, l) => x.loans[l].status = "defaulted"

\* The event does not close a loan that was closed that way before.
FirstClosing(d, e) ==
    e.nr \in DOMAIN d.loans =>
        /\ e.symbol = "loan_rpy" /\ e.amount = 0 /\ d.loans[e.nr].status # "repaid" =>
             d.loans[e.nr].repaid_ledger = NULL
        /\ e.symbol = "loan_dflt" /\ d.loans[e.nr].status # "defaulted" =>
             d.loans[e.nr].defaulted_ledger = NULL

\* One fold keeps the books: the unconditional part always, the part on closed loans when
\* the loan is being closed this way for the first time.
BooksStep(d, e, x) ==
    /\ Balanced(d) => Balanced(x)
    /\ Dated(d) => Dated(x)
    /\ Dated(d) /\ FirstClosing(d, e) /\ ClosedBooks(d) => ClosedBooks(x)
    /\ Dated(d) => LoansAfter(d, e, x)

\* The three handlers that write to the books.
LEMMA ApprovedBooks ==
    ASSUME NEW d, NEW e, NEW x, TablesOK(d), EventOK(e), e.symbol = "loan_appr", ApprovedEffect(d, e, x)
    PROVE  BooksStep(d, e, x)
<1> DEFINE k == e.nr
           D == DOMAIN d.loans
<1>1. e.amount \in Nat /\ IsTable(d.loans, LoanRows) /\ IsFiniteSet(D)
  BY DEF EventOK, Amounts, TablesOK
<1>2. RowOnly(d.loans, x.loans, k) /\ k \in DOMAIN x.loans
  BY DEF ApprovedEffect, HasRow
<1>3. DOMAIN x.loans = D \cup {k} /\ \A l \in D \ {k} : x.loans[l] = d.loans[l]
  BY <1>2 DEF RowOnly
<1>4. CASE k \notin D
  <2>1. /\ x.loans[k].amount = e.amount /\ x.loans[k].status = "active"
        /\ x.loans[k].repaid_ledger = NULL /\ x.loans[k].defaulted_ledger = NULL
    BY <1>4 DEF ApprovedEffect, HasRow
  <2>2. Adds(d, x, 1, e.amount, 0, 0, 0)
    BY <1>4, ApprovedAdds
  <2>3. \A l \in D : x.loans[l] = d.loans[l]
    BY <1>3, <1>4
  <2>4. \A l \in D : d.loans[l] \in LoanRows
    BY <1>1 DEF IsTable
  <2>5. Balanced(d) => Balanced(x)
    <3>1. \A l \in D \cup {k} : x.loans[l].amount \in Nat
      BY <1>1, <2>1, <2>3, <2>4 DEF LoanRows
    <3>2. PrincipalOf(x, D \cup {k}) = PrincipalOf(x, D) + x.loans[k].amount
      BY <1>1, <1>4, <3>1, PrincipalAdd
    <3>3. PrincipalOf(x, D) = PrincipalOf(d, D)
      BY <2>3, PrincipalSame
    <3>4. PrincipalOf(x, DOMAIN x.loans) = PrincipalOf(d, D) + e.amount
      BY <1>3, <2>1, <3>2, <3>3
    <3>5. Cardinality(DOMAIN x.loans) = Cardinality(D) + 1
      BY <1>1, <1>3, <1>4, FS_AddElement
    <3> QED
      BY <2>2, <3>4, <3>5, DailyColumns DEF Balanced, Adds
  <2>6. LoansWith(x, "repaid_ledger") = LoansWith(d, "repaid_ledger")
    BY <1>3, <2>1, <2>3 DEF LoansWith
  <2>7. LoansWith(x, "defaulted_ledger") = LoansWith(d, "defaulted_ledger")
    BY <1>3, <2>1, <2>3 DEF LoansWith
  <2>8. ClosedBooks(d) => ClosedBooks(x)
    <3>1. \A l \in LoansWith(d, "repaid_ledger") : x.loans[l].amount = d.loans[l].amount
      BY <2>3 DEF LoansWith
    <3> QED
      BY <1>1, <2>2, <2>6, <2>7, <3>1, ClosedKept
  <2>9. Dated(d) => Dated(x)
    BY <1>3, <2>1, <2>3 DEF Dated
  <2>10. LoansAfter(d, e, x)
    BY <1>3, <2>1, <2>3 DEF LoansAfter, Repays, Defaults
  <2> QED
    BY <2>5, <2>8, <2>9, <2>10 DEF BooksStep
<1>5. CASE k \in D
  <2>1. d.loans[k] \in LoanRows /\ HasRow(x.loans, k, [d.loans[k] EXCEPT !.status = "active", !.approved_ledger = e.id])
    BY <1>1, <1>5 DEF ApprovedEffect, IsTable
  <2>2. /\ x.loans[k].amount = d.loans[k].amount /\ x.loans[k].status = "active"
        /\ x.loans[k].repaid_ledger = d.loans[k].repaid_ledger
        /\ x.loans[k].defaulted_ledger = d.loans[k].defaulted_ledger
    BY <2>1 DEF HasRow, LoanRows
  <2>3. Adds(d, x, 0, 0, 0, 0, 0)
    BY <1>5, ApprovedAdds
  <2>4. DOMAIN x.loans = D
    BY <1>3, <1>5
  <2>5. SameKeys(d.loans, x.loans) /\ \A l \in D : x.loans[l].amount = d.loans[l].amount
    BY <1>3, <2>2, <2>4 DEF SameKeys
  <2>6. Balanced(d) => Balanced(x)
    BY <2>3, <2>5, BalanceKept
  <2>7. LoansWith(x, "repaid_ledger") = LoansWith(d, "repaid_ledger")
    BY <1>3, <2>2, <2>4 DEF LoansWith
  <2>8. LoansWith(x, "defaulted_ledger") = LoansWith(d, "defaulted_ledger")
    BY <1>3, <2>2, <2>4 DEF LoansWith
  <2>9. ClosedBooks(d) => ClosedBooks(x)
    <3>1. \A l \in LoansWith(d, "repaid_ledger") : x.loans[l].amount = d.loans[l].amount
      BY <2>5 DEF LoansWith
    <3> QED
      BY <1>1, <2>3, <2>7, <2>8, <3>1, ClosedKept
  <2>10. Dated(d) => Dated(x)
    BY <1>3, <2>2, <2>4 DEF Dated
  <2>11. LoansAfter(d, e, x)
    BY <1>3, <2>2, <2>4 DEF LoansAfter, Repays, Defaults
  <2> QED
    BY <2>6, <2>9, <2>10, <2>11 DEF BooksStep
<1> QED
  BY <1>4, <1>5

LEMMA RepaidBooks ==
    ASSUME NEW d, NEW e, NEW x, TablesOK(d), EventOK(e), e.symbol = "loan_rpy", RepaidEffect(d, e, x)
    PROVE  BooksStep(d, e, x)
<1> DEFINE k == e.nr
           D == DOMAIN d.loans
           row == [d.loans[k] EXCEPT !.outstanding = e.amount,
                      !.status = IF e.amount = 0 THEN "repaid" ELSE "active",
                      !.repaid_ledger = IF e.amount = 0 THEN e.id ELSE @]
<1>1. /\ e.amount \in Nat /\ e.id \in Nat /\ e.id # NULL
      /\ IsTable(d.loans, LoanRows) /\ IsFiniteSet(D)
  BY FoldAssumption DEF EventOK, Amounts, TablesOK
<1>2. RowOnly(d.loans, x.loans, k) /\ SameKeys(d.loans, x.loans)
  BY DEF RepaidEffect
<1>3. DOMAIN x.loans = D /\ \A l \in D \ {k} : x.loans[l] = d.loans[l]
  BY <1>2 DEF RowOnly, SameKeys
<1>4. k \in D => HasRow(x.loans, k, row)
  BY DEF RepaidEffect
<1>5. k \in D =>
        /\ x.loans[k].amount = d.loans[k].amount /\ d.loans[k].amount \in Nat
        /\ x.loans[k].status = (IF e.amount = 0 THEN "repaid" ELSE "active")
        /\ x.loans[k].repaid_ledger = (IF e.amount = 0 THEN e.id ELSE d.loans[k].repaid_ledger)
        /\ x.loans[k].defaulted_ledger = d.loans[k].defaulted_ledger
  <2> SUFFICES ASSUME k \in D
               PROVE  /\ x.loans[k].amount = d.loans[k].amount /\ d.loans[k].amount \in Nat
                      /\ x.loans[k].status = (IF e.amount = 0 THEN "repaid" ELSE "active")
                      /\ x.loans[k].repaid_ledger = (IF e.amount = 0 THEN e.id ELSE d.loans[k].repaid_ledger)
                      /\ x.loans[k].defaulted_ledger = d.loans[k].defaulted_ledger
    OBVIOUS
  <2>1. d.loans[k] \in LoanRows
    BY <1>1 DEF IsTable
  <2> QED
    BY <1>4, <2>1 DEF HasRow, LoanRows
<1> DEFINE paid == IF ClearsLoan(d, e) THEN d.loans[k].amount ELSE 0
<1>6. Adds(d, x, 0, 0, paid, 0, 0)
  BY RepaidAdds
<1>7. paid \in Nat
  BY <1>5 DEF ClearsLoan
<1>8. \A l \in D : x.loans[l].amount = d.loans[l].amount
  BY <1>3, <1>5
<1>9. Balanced(d) => Balanced(x)
  <2> HIDE DEF paid
  <2> QED
    BY <1>2, <1>6, <1>7, <1>8, BalanceKept
<1>10. LoansWith(x, "defaulted_ledger") = LoansWith(d, "defaulted_ledger")
  BY <1>3, <1>5 DEF LoansWith
<1>11. ASSUME Dated(d), FirstClosing(d, e), ClosedBooks(d) PROVE ClosedBooks(x)
  <2>1. CASE ClearsLoan(d, e)
    <3> DEFINE R == LoansWith(d, "repaid_ledger")
    <3>1. k \in D /\ e.amount = 0 /\ d.loans[k].repaid_ledger = NULL /\ k \notin R
      BY <1>11, <2>1 DEF ClearsLoan, FirstClosing, LoansWith
    <3>2. LoansWith(x, "repaid_ledger") = R \cup {k}
      BY <1>1, <1>3, <1>5, <3>1 DEF LoansWith
    <3>3. R \subseteq D /\ IsFiniteSet(R)
      BY <1>1, FS_Subset DEF LoansWith
    <3>4. \A l \in R \cup {k} : x.loans[l].amount \in Nat
      BY <1>1, <1>8, <3>1, <3>3 DEF IsTable, LoanRows
    <3> HIDE DEF R
    <3>5. PrincipalOf(x, R \cup {k}) = PrincipalOf(x, R) + x.loans[k].amount
      BY <3>1, <3>3, <3>4, PrincipalAdd
    <3>6. PrincipalOf(x, R) = PrincipalOf(d, R)
      BY <1>8, <3>3, PrincipalSame
    <3>7. PrincipalOf(x, LoansWith(x, "repaid_ledger")) = PrincipalOf(d, R) + d.loans[k].amount
      BY <1>8, <3>1, <3>2, <3>5, <3>6
    <3>8. x.totals.repaid = d.totals.repaid + d.loans[k].amount
      BY <1>6, <2>1 DEF Adds
    <3>9. Daily(x, "defaults") = Daily(d, "defaults")
      BY <1>6, DailyColumns DEF Adds
    <3>10. d.totals.repaid = PrincipalOf(d, R) /\ Daily(d, "defaults") = Cardinality(LoansWith(d, "defaulted_ledger"))
      BY <1>11 DEF ClosedBooks, R
    <3>11. Cardinality(LoansWith(x, "defaulted_ledger")) = Cardinality(LoansWith(d, "defaulted_ledger"))
      BY <1>10
    <3> QED
      BY <3>7, <3>8, <3>9, <3>10, <3>11 DEF ClosedBooks
  <2>2. CASE ~ClearsLoan(d, e)
    <3>1. Adds(d, x, 0, 0, 0, 0, 0)
      BY <1>6, <2>2
    <3>2. k \in D /\ e.amount = 0 => d.loans[k].repaid_ledger # NULL
      BY <1>11, <2>2 DEF ClearsLoan, Dated
    <3>3. LoansWith(x, "repaid_ledger") = LoansWith(d, "repaid_ledger")
      BY <1>1, <1>3, <1>5, <3>2 DEF LoansWith
    <3>4. \A l \in LoansWith(d, "repaid_ledger") : x.loans[l].amount = d.loans[l].amount
      BY <1>8 DEF LoansWith
    <3> QED
      BY <1>10, <1>11, <3>1, <3>3, <3>4, ClosedKept
  <2> QED
    BY <2>1, <2>2
<1>12. Dated(d) => Dated(x)
  BY <1>1, <1>3, <1>5 DEF Dated
<1>13. LoansAfter(d, e, x)
  BY <1>1, <1>3, <1>5 DEF LoansAfter, Repays, Defaults
<1> QED
  BY <1>9, <1>11, <1>12, <1>13 DEF BooksStep

LEMMA DefaultedBooks ==
    ASSUME NEW d, NEW e, NEW x, TablesOK(d), EventOK(e), e.symbol = "loan_dflt", DefaultedEffect(d, e, x)
    PROVE  BooksStep(d, e, x)
<1> DEFINE k == e.nr
           D == DOMAIN d.loans
<1>1. CASE k \in D /\ d.loans[k].status # "defaulted"
  <2>1. /\ e.id \in Nat /\ e.id # NULL /\ d.loans[k] \in LoanRows /\ IsFiniteSet(D)
        /\ IsTable(d.loans, LoanRows)
    BY <1>1, FoldAssumption DEF EventOK, TablesOK, IsTable
  <2>2. RowOnly(d.loans, x.loans, k) /\ SameKeys(d.loans, x.loans)
    BY <1>1 DEF DefaultedEffect
  <2>3. DOMAIN x.loans = D /\ \A l \in D \ {k} : x.loans[l] = d.loans[l]
    BY <2>2 DEF RowOnly, SameKeys
  <2>4. HasRow(x.loans, k, [d.loans[k] EXCEPT !.status = "defaulted", !.defaulted_ledger = e.id])
    BY <1>1 DEF DefaultedEffect
  <2>5. /\ x.loans[k].amount = d.loans[k].amount /\ x.loans[k].status = "defaulted"
        /\ x.loans[k].repaid_ledger = d.loans[k].repaid_ledger
        /\ x.loans[k].defaulted_ledger = e.id
    BY <2>1, <2>4 DEF HasRow, LoanRows
  <2> DEFINE owed == d.loans[k].outstanding
  <2>6. Adds(d, x, 0, 0, 0, 1, owed)
    BY <1>1, DefaultedAdds
  <2>7. owed \in Nat
    BY <2>1 DEF LoanRows
  <2> HIDE DEF owed
  <2>8. \A l \in D : x.loans[l].amount = d.loans[l].amount
    BY <2>3, <2>5
  <2>9. Balanced(d) => Balanced(x)
    BY <2>2, <2>6, <2>7, <2>8, BalanceKept
  <2>10. LoansWith(x, "repaid_ledger") = LoansWith(d, "repaid_ledger")
    BY <2>3, <2>5 DEF LoansWith
  <2>11. ASSUME FirstClosing(d, e), ClosedBooks(d) PROVE ClosedBooks(x)
    <3> DEFINE F == LoansWith(d, "defaulted_ledger")
               R == LoansWith(d, "repaid_ledger")
    <3>1. d.loans[k].defaulted_ledger = NULL /\ k \notin F
      BY <1>1, <2>11 DEF FirstClosing, LoansWith
    <3>2. LoansWith(x, "defaulted_ledger") = F \cup {k}
      BY <1>1, <2>1, <2>3, <2>5, <3>1 DEF LoansWith
    <3>3. F \subseteq D /\ IsFiniteSet(F)
      BY <2>1, FS_Subset DEF LoansWith
    <3>4. Cardinality(LoansWith(x, "defaulted_ledger")) = Cardinality(F) + 1
      BY <3>1, <3>2, <3>3, FS_AddElement
    <3>5. \A l \in R : x.loans[l].amount = d.loans[l].amount
      BY <2>8 DEF LoansWith
    <3>6. PrincipalOf(x, R) = PrincipalOf(d, R)
      BY <3>5, PrincipalSame
    <3>7. PrincipalOf(x, LoansWith(x, "repaid_ledger")) = PrincipalOf(d, R)
      BY <2>10, <3>6
    <3>8. d.totals.repaid = PrincipalOf(d, R) /\ Daily(d, "defaults") = Cardinality(F)
      BY <2>11 DEF ClosedBooks
    <3> HIDE DEF F, R
    <3> QED
      BY <2>6, <3>4, <3>7, <3>8, DailyColumns DEF ClosedBooks, Adds
  <2>12. Dated(d) => Dated(x)
    BY <2>1, <2>3, <2>5 DEF Dated
  <2>13. LoansAfter(d, e, x)
    BY <2>1, <2>3, <2>5 DEF LoansAfter, Repays, Defaults
  <2> QED
    BY <2>9, <2>11, <2>12, <2>13 DEF BooksStep
<1>2. CASE ~(k \in D /\ d.loans[k].status # "defaulted")
  <2>1. x = d
    BY <1>2 DEF DefaultedEffect
  <2>2. LoansAfter(d, e, d)
    BY <1>2 DEF LoansAfter, Repays, Defaults
  <2> QED
    BY <2>1, <2>2 DEF BooksStep
<1> QED
  BY <1>1, <1>2

\* An event that leaves the loans and the books alone.
SameBooks(d, x) ==
    /\ x.loans = d.loans /\ x.daily = d.daily /\ x.totals.lent = d.totals.lent
    /\ x.totals.repaid = d.totals.repaid /\ x.totals.defaulted = d.totals.defaulted

\* The others leave the books alone.
LEMMA OtherBooks ==
    ASSUME NEW d, NEW e, NEW x, SameBooks(d, x), e.symbol \notin {"loan_rpy", "loan_dflt"}
    PROVE  BooksStep(d, e, x)
<1>1. /\ x.loans = d.loans /\ LoansWith(x, "repaid_ledger") = LoansWith(d, "repaid_ledger")
      /\ LoansWith(x, "defaulted_ledger") = LoansWith(d, "defaulted_ledger")
  BY DEF SameBooks, LoansWith
<1>2. \A S : PrincipalOf(x, S) = PrincipalOf(d, S)
  BY <1>1 DEF PrincipalOf
<1>3. \A c : Daily(x, c) = Daily(d, c)
  BY DEF SameBooks, Daily
<1>4. Balanced(d) => Balanced(x)
  BY <1>1, <1>2, <1>3 DEF Balanced, SameBooks
<1>5. ClosedBooks(d) => ClosedBooks(x)
  BY <1>1, <1>2, <1>3 DEF ClosedBooks, SameBooks
<1>6. (Dated(d) => Dated(x)) /\ LoansAfter(d, e, x)
  BY <1>1 DEF Dated, LoansAfter, Repays, Defaults
<1> QED
  BY <1>4, <1>5, <1>6 DEF BooksStep

\* The books after an event, and the interest that was collected.
BooksAfter(d, e, x) ==
    BooksStep(d, e, x) /\ DOMAIN x.interest \subseteq DOMAIN d.interest \cup {e.id}

\* The same for a handler that writes none of the tables the books are kept in.
LEMMA AsideBooks ==
    ASSUME NEW d, NEW e, NEW x, NEW F, Only(d, x, F), e.symbol \notin {"loan_rpy", "loan_dflt"},
           "loans" \notin F, "daily" \notin F, "totals" \notin F, "interest" \notin F
    PROVE  BooksAfter(d, e, x)
<1>1. x.loans = d.loans /\ x.daily = d.daily /\ x.totals = d.totals /\ x.interest = d.interest
  BY DEF Only, TableNames
<1>2. SameBooks(d, x)
  BY <1>1 DEF SameBooks
<1>3. BooksStep(d, e, x)
  BY <1>2, OtherBooks
<1> QED
  BY <1>1, <1>3 DEF BooksAfter

\* So every fold keeps the books.
LEMMA ApplyBooks ==
    ASSUME NEW d, NEW e, TablesOK(d), EventOK(e)
    PROVE  BooksAfter(d, e, applyEvent(d, e))
<1> DEFINE x == applyEvent(d, e)
<1>1. CASE e.symbol \notin Handled
  <2>1. x = d /\ Only(d, d, {}) /\ e.symbol \notin {"loan_rpy", "loan_dflt"}
    BY <1>1, ApplyOther DEF Only, Handled
  <2> HIDE DEF x
  <2> QED
    BY <2>1, AsideBooks DEF x
<1>2. CASE e.symbol = "loan_appr"
  <2>1. x = loan_appr(d, e)
    BY <1>2 DEF applyEvent
  <2> HIDE DEF x
  <2>2. ApprovedEffect(d, e, x)
    BY <1>2, <2>1, LoanApprMeans
  <2>3. x.interest = d.interest
    BY <2>2 DEF ApprovedEffect, Aside
  <2> QED
    BY <1>2, <2>2, <2>3, ApprovedBooks DEF BooksAfter, x
<1>3. CASE e.symbol = "loan_rpy"
  <2>1. x = loan_rpy(d, e)
    BY <1>3 DEF applyEvent
  <2> HIDE DEF x
  <2>2. RepaidEffect(d, e, x)
    BY <1>3, <2>1, LoanRpyMeans
  <2>3. x.interest = d.interest
    BY <2>2 DEF RepaidEffect, Aside
  <2> QED
    BY <1>3, <2>2, <2>3, RepaidBooks DEF BooksAfter, x
<1>4. CASE e.symbol = "loan_dflt"
  <2>1. x = loan_dflt(d, e)
    BY <1>4 DEF applyEvent
  <2> HIDE DEF x
  <2>2. DefaultedEffect(d, e, x)
    BY <1>4, <2>1, LoanDfltMeans
  <2>3. x.interest = d.interest
    BY <2>2 DEF DefaultedEffect, Aside
  <2> QED
    BY <1>4, <2>2, <2>3, DefaultedBooks DEF BooksAfter, x
<1>5. CASE e.symbol = "interest"
  <2>1. x = interest(d, e)
    BY <1>5 DEF applyEvent
  <2> HIDE DEF x
  <2>2. Only(d, x, {"interest", "totals"})
    BY <1>5, <2>1, InterestMeans
  <2>3. /\ x.totals.lent = d.totals.lent /\ x.totals.repaid = d.totals.repaid
        /\ x.totals.defaulted = d.totals.defaulted
    BY <1>5, <2>1, InterestMeans
  <2>4. DOMAIN x.interest \subseteq DOMAIN d.interest \cup {e.id}
    BY <1>5, <2>1, InterestMeans
  <2>5. SameBooks(d, x)
    BY <2>2, <2>3 DEF SameBooks, Only, TableNames
  <2>6. BooksStep(d, e, x)
    BY <1>5, <2>5, OtherBooks
  <2> QED
    BY <2>4, <2>6 DEF BooksAfter, x
<1>6. CASE e.symbol = "joined"
  <2>1. x = joined(d, e)
    BY <1>6 DEF applyEvent
  <2> HIDE DEF x
  <2>2. Only(d, x, {"members"})
    BY <1>6, <2>1, JoinedMeans DEF JoinedEffect
  <2> QED
    BY <1>6, <2>2, AsideBooks DEF x
<1>7. CASE e.symbol = "exited"
  <2>1. x = exited(d, e)
    BY <1>7 DEF applyEvent
  <2> HIDE DEF x
  <2>2. Only(d, x, {"members"})
    BY <1>7, <2>1, ExitedMeans
  <2> QED
    BY <1>7, <2>2, AsideBooks DEF x
<1>8. CASE e.symbol = "claimed"
  <2>1. x = claimed(d, e)
    BY <1>8 DEF applyEvent
  <2> HIDE DEF x
  <2>2. Only(d, x, {"members"})
    BY <1>8, <2>1, ClaimedMeans
  <2> QED
    BY <1>8, <2>2, AsideBooks DEF x
<1>9. CASE e.symbol = "staked"
  <2>1. x = staked(d, e)
    BY <1>9 DEF applyEvent
  <2> HIDE DEF x
  <2>2. Only(d, x, {"members"})
    BY <1>9, <2>1, StakedMeans
  <2> QED
    BY <1>9, <2>2, AsideBooks DEF x
<1>10. CASE e.symbol = "unstaked"
  <2>1. x = unstaked(d, e)
    BY <1>10 DEF applyEvent
  <2> HIDE DEF x
  <2>2. Only(d, x, {"members"})
    BY <1>10, <2>1, UnstakedMeans
  <2> QED
    BY <1>10, <2>2, AsideBooks DEF x
<1>11. CASE e.symbol = "name_reg"
  <2>1. x = name_reg(d, e)
    BY <1>11 DEF applyEvent
  <2> HIDE DEF x
  <2>2. Only(d, x, {"members"})
    BY <1>11, <2>1, NameRegMeans
  <2> QED
    BY <1>11, <2>2, AsideBooks DEF x
<1>12. CASE e.symbol = "loan_req"
  <2>1. x = loan_req(d, e)
    BY <1>12 DEF applyEvent
  <2> HIDE DEF x
  <2>2. Only(d, x, {"proposals"})
    BY <1>12, <2>1, LoanReqMeans
  <2> QED
    BY <1>12, <2>2, AsideBooks DEF x
<1>13. CASE e.symbol = "loan_edit"
  <2>1. x = loan_edit(d, e)
    BY <1>13 DEF applyEvent
  <2> HIDE DEF x
  <2>2. Only(d, x, {"proposals"})
    BY <1>13, <2>1, LoanEditMeans
  <2> QED
    BY <1>13, <2>2, AsideBooks DEF x
<1>14. CASE e.symbol = "loan_vote"
  <2>1. x = loan_vote(d, e)
    BY <1>14 DEF applyEvent
  <2> HIDE DEF x
  <2>2. Only(d, x, {"proposals"})
    BY <1>14, <2>1, LoanVoteMeans
  <2> QED
    BY <1>14, <2>2, AsideBooks DEF x
<1>15. CASE e.symbol = "loan_wait"
  <2>1. x = loan_wait(d, e)
    BY <1>15 DEF applyEvent
  <2> HIDE DEF x
  <2>2. Only(d, x, {"proposals"})
    BY <1>15, <2>1, LoanWaitMeans
  <2> QED
    BY <1>15, <2>2, AsideBooks DEF x
<1>16. CASE e.symbol = "loan_rej"
  <2>1. x = loan_rej(d, e)
    BY <1>16 DEF applyEvent
  <2> HIDE DEF x
  <2>2. Only(d, x, {"proposals"})
    BY <1>16, <2>1, LoanRejMeans
  <2> QED
    BY <1>16, <2>2, AsideBooks DEF x
<1>17. CASE e.symbol = "loan_exp"
  <2>1. x = loan_exp(d, e)
    BY <1>17 DEF applyEvent
  <2> HIDE DEF x
  <2>2. Only(d, x, {"proposals"})
    BY <1>17, <2>1, LoanExpMeans
  <2> QED
    BY <1>17, <2>2, AsideBooks DEF x
<1>18. CASE e.symbol = "tre_prop"
  <2>1. x = tre_prop(d, e)
    BY <1>18 DEF applyEvent
  <2> HIDE DEF x
  <2>2. Only(d, x, {"treasury"})
    BY <1>18, <2>1, TrePropMeans
  <2> QED
    BY <1>18, <2>2, AsideBooks DEF x
<1>19. CASE e.symbol = "tre_vote"
  <2>1. x = tre_vote(d, e)
    BY <1>19 DEF applyEvent
  <2> HIDE DEF x
  <2>2. Only(d, x, {"treasury"})
    BY <1>19, <2>1, TreVoteMeans
  <2> QED
    BY <1>19, <2>2, AsideBooks DEF x
<1>20. CASE e.symbol = "revealed"
  <2>1. x = revealed(d, e)
    BY <1>20 DEF applyEvent
  <2> HIDE DEF x
  <2>2. Only(d, x, {"treasury"})
    BY <1>20, <2>1, RevealedMeans
  <2> QED
    BY <1>20, <2>2, AsideBooks DEF x
<1>21. CASE e.symbol = "tre_wait"
  <2>1. x = tre_wait(d, e)
    BY <1>21 DEF applyEvent
  <2> HIDE DEF x
  <2>2. Only(d, x, {"treasury"})
    BY <1>21, <2>1, TreWaitMeans
  <2> QED
    BY <1>21, <2>2, AsideBooks DEF x
<1>22. CASE e.symbol = "tre_rej"
  <2>1. x = tre_rej(d, e)
    BY <1>22 DEF applyEvent
  <2> HIDE DEF x
  <2>2. Only(d, x, {"treasury"})
    BY <1>22, <2>1, TreRejMeans
  <2> QED
    BY <1>22, <2>2, AsideBooks DEF x
<1>23. CASE e.symbol = "tre_exec"
  <2>1. x = tre_exec(d, e)
    BY <1>23 DEF applyEvent
  <2> HIDE DEF x
  <2>2. Only(d, x, {"treasury"})
    BY <1>23, <2>1, TreExecMeans
  <2> QED
    BY <1>23, <2>2, AsideBooks DEF x
<1>24. CASE e.symbol = "doc_attn"
  <2>1. x = doc_attn(d, e)
    BY <1>24 DEF applyEvent
  <2> HIDE DEF x
  <2>2. Only(d, x, {"documents"})
    BY <1>24, <2>1, DocAttnMeans
  <2> QED
    BY <1>24, <2>2, AsideBooks DEF x
<1>25. CASE e.symbol = "committed"
  <2>1. x = committed(d, e)
    BY <1>25 DEF applyEvent
  <2> HIDE DEF x
  <2>2. Only(d, x, {})
    BY <1>25, <2>1, CommittedMeans
  <2> QED
    BY <1>25, <2>2, AsideBooks DEF x
<1> QED
  BY <1>1, <1>2, <1>3, <1>4, <1>5, <1>6, <1>7, <1>8, <1>9, <1>10, <1>11, <1>12, <1>13,
     <1>14, <1>15, <1>16, <1>17, <1>18, <1>19, <1>20, <1>21, <1>22, <1>23, <1>24, <1>25 DEF Handled

-----------------------------------------------------------------------------
\* A log that closes every loan at most once each way, and tables folded from it.

\* e is the final repayment or the default of a loan.
Closing(e) == e.symbol = "loan_dflt" \/ (e.symbol = "loan_rpy" /\ e.amount = 0)

\* The log holds at most one event of each closing kind for a loan.
ClosesOnce(log) ==
    \A i, j \in 1 .. Len(log) :
        /\ Closing(log[i]) /\ Closing(log[j])
        /\ log[i].symbol = log[j].symbol /\ log[i].nr = log[j].nr
        => i = j

\* s: the rows of the log that were folded, in the order in which they were.
Traced(d, s, log) ==
    \A l \in DOMAIN d.loans :
        /\ d.loans[l].repaid_ledger # NULL => \E j \in 1 .. Len(s) : Repays(log[s[j]], l)
        /\ d.loans[l].defaulted_ledger # NULL => \E j \in 1 .. Len(s) : Defaults(log[s[j]], l)
        /\ Len(s) > 0 =>
             /\ Repays(log[s[Len(s)]], l) => d.loans[l].status = "repaid"
             /\ Defaults(log[s[Len(s)]], l) => d.loans[l].status = "defaulted"

\* Tables d were made by folding rows s of the log, one after the other, redeliveries
\* included: the rows are of their types, nobody was told twice, the books balance, and
\* every closed loan traces back to its event.
FoldedFrom(d, s, log) ==
    /\ TablesOK(d)
    /\ IsInjective(d.notifications)
    /\ Balanced(d)
    /\ Dated(d)
    /\ Traced(d, s, log)
    /\ RetriedAtOnce(s) => ClosedBooks(d)
    /\ \A k \in DOMAIN d.interest : \E j \in 1 .. Len(s) : k = log[s[j]].id

\* A row folded again right after itself, and never later.
LEMMA RetriedBefore ==
    ASSUME NEW S, NEW s \in Seq(S), NEW i \in S, RetriedAtOnce(Append(s, i))
    PROVE  /\ RetriedAtOnce(s)
           /\ \A p \in 1 .. Len(s) : s[p] = i => s[Len(s)] = i
<1> DEFINE t == Append(s, i)
           n == Len(s)
<1>1. /\ n \in Nat /\ DOMAIN s = 1 .. n /\ DOMAIN t = 1 .. (n + 1)
      /\ t[n + 1] = i /\ \A p \in 1 .. n : t[p] = s[p]
  OBVIOUS
<1>2. \A p, q \in DOMAIN t : p < q /\ t[p] = t[q] => \A k \in p .. q : t[k] = t[p]
  BY DEF RetriedAtOnce
<1> HIDE DEF t
<1>3. RetriedAtOnce(s)
  <2> SUFFICES ASSUME NEW p \in DOMAIN s, NEW q \in DOMAIN s, p < q, s[p] = s[q], NEW k \in p .. q
               PROVE  s[k] = s[p]
    BY DEF RetriedAtOnce
  <2>1. p \in 1 .. n /\ q \in 1 .. n /\ k \in 1 .. n
    BY <1>1
  <2>2. t[p] = s[p] /\ t[q] = s[q] /\ t[k] = s[k]
    BY <1>1, <2>1
  <2> QED
    BY <1>1, <1>2, <2>1, <2>2
<1>4. ASSUME NEW p \in 1 .. n, s[p] = i PROVE s[n] = i
  <2>1. p \in DOMAIN t /\ n + 1 \in DOMAIN t /\ p < n + 1 /\ t[p] = t[n + 1]
    BY <1>1, <1>4
  <2>2. n \in p .. (n + 1) /\ n \in 1 .. n
    BY <1>1
  <2>3. t[n] = t[p]
    BY <1>2, <2>1, <2>2
  <2> QED
    BY <1>1, <1>4, <2>2, <2>3
<1> QED
  BY <1>3, <1>4

\* Empty tables are folded from nothing.
LEMMA FoldedFromEmpty == ASSUME NEW log PROVE FoldedFrom(EmptyTables, << >>, log)
<1>1. /\ EmptyTables.loans = NoRows /\ EmptyTables.daily = NoRows /\ EmptyTables.interest = NoRows
      /\ EmptyTables.totals = [interest |-> 0, lent |-> 0, repaid |-> 0, defaulted |-> 0]
  BY DEF EmptyTables
<1>2. DOMAIN NoRows = {}
  BY DEF NoRows
<1>3. \A f : DOMAIN f = {} => Total(f) = 0
  BY TotalIs, SumEmpty
<1>4. \A c : Daily(EmptyTables, c) = 0
  <2> TAKE c
  <2>1. DOMAIN Column(NoRows, c) = {}
    BY <1>2 DEF Column
  <2> QED
    BY <1>1, <1>3, <2>1 DEF Daily
<1>5. DOMAIN EmptyTables.loans = {} /\ \A c : LoansWith(EmptyTables, c) = {}
  BY <1>1, <1>2 DEF LoansWith
<1>6. PrincipalOf(EmptyTables, {}) = 0
  BY <1>3 DEF PrincipalOf
<1>7. Cardinality({}) = 0
  BY FS_EmptySet
<1>8. Balanced(EmptyTables)
  BY <1>1, <1>4, <1>5, <1>6, <1>7 DEF Balanced
<1>9. ClosedBooks(EmptyTables)
  <2>1. LoansWith(EmptyTables, "repaid_ledger") = {} /\ LoansWith(EmptyTables, "defaulted_ledger") = {}
    BY <1>5
  <2>2. /\ PrincipalOf(EmptyTables, LoansWith(EmptyTables, "repaid_ledger")) = 0
        /\ Cardinality(LoansWith(EmptyTables, "defaulted_ledger")) = 0
    BY <1>6, <1>7, <2>1
  <2>3. EmptyTables.totals.repaid = 0
    BY <1>1
  <2> QED
    BY <1>4, <2>2, <2>3 DEF ClosedBooks
<1>10. Dated(EmptyTables) /\ Traced(EmptyTables, << >>, log)
  BY <1>5 DEF Dated, Traced
<1> QED
  BY <1>1, <1>2, <1>8, <1>9, <1>10, EmptyOK DEF FoldedFrom

\* One fold more, of any row of the log.
LEMMA FoldedFromStep ==
    ASSUME NEW log, NEW n \in Nat, n = Len(log), NEW s \in Seq(1 .. n), NEW i \in 1 .. n, NEW d,
           ClosesOnce(log), FoldedFrom(d, s, log), EventOK(log[i])
    PROVE  FoldedFrom(applyEvent(d, log[i]), Append(s, i), log)
<1> DEFINE e == log[i]
           x == applyEvent(d, e)
           t == Append(s, i)
           m == Len(s)
<1>1. /\ m \in Nat /\ Len(t) = m + 1 /\ t[m + 1] = i /\ \A p \in 1 .. m : t[p] = s[p] /\ s[p] \in 1 .. n
  OBVIOUS
<1>2. /\ TablesOK(d) /\ IsInjective(d.notifications) /\ Balanced(d) /\ Dated(d)
      /\ Traced(d, s, log)
      /\ RetriedAtOnce(s) => ClosedBooks(d)
  BY DEF FoldedFrom
<1>3. TablesOK(x) /\ ToldOnce(d, x) /\ KeepsClosed(d, x)
  BY <1>2, ApplyGood DEF Good
<1>4. BooksAfter(d, e, x)
  BY <1>2, ApplyBooks
<1> HIDE DEF x, t
<1>5. IsInjective(x.notifications)
  BY <1>2, <1>3 DEF ToldOnce
<1>6. Balanced(x) /\ Dated(x) /\ LoansAfter(d, e, x)
  BY <1>2, <1>4 DEF BooksAfter, BooksStep
<1>7. Traced(x, t, log)
  <2> SUFFICES ASSUME NEW l \in DOMAIN x.loans
               PROVE  /\ x.loans[l].repaid_ledger # NULL => \E j \in 1 .. Len(t) : Repays(log[t[j]], l)
                      /\ x.loans[l].defaulted_ledger # NULL => \E j \in 1 .. Len(t) : Defaults(log[t[j]], l)
                      /\ Repays(log[t[Len(t)]], l) => x.loans[l].status = "repaid"
                      /\ Defaults(log[t[Len(t)]], l) => x.loans[l].status = "defaulted"
    BY DEF Traced
  <2>1. m + 1 \in 1 .. Len(t) /\ log[t[m + 1]] = e /\ \A j \in 1 .. m : j \in 1 .. Len(t) /\ t[j] = s[j]
    BY <1>1
  <2>2. ASSUME x.loans[l].repaid_ledger # NULL PROVE \E j \in 1 .. Len(t) : Repays(log[t[j]], l)
    <3>1. CASE Repays(e, l)
      BY <2>1, <3>1
    <3>2. CASE ~Repays(e, l)
      <4>1. l \in DOMAIN d.loans /\ d.loans[l].repaid_ledger # NULL
        BY <1>6, <2>2, <3>2 DEF LoansAfter
      <4>2. PICK j \in 1 .. m : Repays(log[s[j]], l)
        BY <1>2, <4>1 DEF Traced
      <4> QED
        BY <2>1, <4>2
    <3> QED
      BY <3>1, <3>2
  <2>3. ASSUME x.loans[l].defaulted_ledger # NULL PROVE \E j \in 1 .. Len(t) : Defaults(log[t[j]], l)
    <3>1. CASE Defaults(e, l)
      BY <2>1, <3>1
    <3>2. CASE ~Defaults(e, l)
      <4>1. l \in DOMAIN d.loans /\ d.loans[l].defaulted_ledger # NULL
        BY <1>6, <2>3, <3>2 DEF LoansAfter
      <4>2. PICK j \in 1 .. m : Defaults(log[s[j]], l)
        BY <1>2, <4>1 DEF Traced
      <4> QED
        BY <2>1, <4>2
    <3> QED
      BY <3>1, <3>2
  <2>4. log[t[Len(t)]] = e
    BY <1>1
  <2> QED
    BY <1>6, <2>2, <2>3, <2>4 DEF LoansAfter
<1>8. RetriedAtOnce(t) => ClosedBooks(x)
  <2> SUFFICES ASSUME RetriedAtOnce(t) PROVE ClosedBooks(x)
    OBVIOUS
  <2>1. RetriedAtOnce(s) /\ \A p \in 1 .. m : s[p] = i => s[m] = i
    BY RetriedBefore DEF t
  <2>2. FirstClosing(d, e)
    <3> SUFFICES ASSUME e.nr \in DOMAIN d.loans
                 PROVE  /\ e.symbol = "loan_rpy" /\ e.amount = 0 /\ d.loans[e.nr].status # "repaid" =>
                             d.loans[e.nr].repaid_ledger = NULL
                        /\ e.symbol = "loan_dflt" /\ d.loans[e.nr].status # "defaulted" =>
                             d.loans[e.nr].defaulted_ledger = NULL
      BY DEF FirstClosing
    <3>1. ASSUME e.symbol = "loan_rpy", e.amount = 0, d.loans[e.nr].status # "repaid",
                 d.loans[e.nr].repaid_ledger # NULL
          PROVE  FALSE
      <4>1. PICK j \in 1 .. m : Repays(log[s[j]], e.nr)
        BY <1>2, <3>1 DEF Traced
      <4>2. s[j] \in 1 .. n /\ Closing(log[s[j]]) /\ Closing(log[i])
            /\ log[s[j]].symbol = log[i].symbol /\ log[s[j]].nr = log[i].nr
        BY <1>1, <3>1, <4>1 DEF Repays, Closing
      <4>3. s[j] = i
        BY <4>2 DEF ClosesOnce
      <4>4. s[m] = i /\ m > 0
        BY <1>1, <2>1, <4>3
      <4>5. Repays(log[s[m]], e.nr)
        BY <3>1, <4>4 DEF Repays
      <4> QED
        BY <1>2, <3>1, <4>4, <4>5 DEF Traced
    <3>2. ASSUME e.symbol = "loan_dflt", d.loans[e.nr].status # "defaulted",
                 d.loans[e.nr].defaulted_ledger # NULL
          PROVE  FALSE
      <4>1. PICK j \in 1 .. m : Defaults(log[s[j]], e.nr)
        BY <1>2, <3>2 DEF Traced
      <4>2. s[j] \in 1 .. n /\ Closing(log[s[j]]) /\ Closing(log[i])
            /\ log[s[j]].symbol = log[i].symbol /\ log[s[j]].nr = log[i].nr
        BY <1>1, <3>2, <4>1 DEF Defaults, Closing
      <4>3. s[j] = i
        BY <4>2 DEF ClosesOnce
      <4>4. s[m] = i /\ m > 0
        BY <1>1, <2>1, <4>3
      <4>5. Defaults(log[s[m]], e.nr)
        BY <3>2, <4>4 DEF Defaults
      <4> QED
        BY <1>2, <3>2, <4>4, <4>5 DEF Traced
    <3> QED
      BY <3>1, <3>2
  <2> QED
    BY <1>2, <1>4, <2>1, <2>2 DEF BooksAfter, BooksStep
<1>9. \A k \in DOMAIN x.interest : \E j \in 1 .. Len(t) : k = log[t[j]].id
  <2> SUFFICES ASSUME NEW k \in DOMAIN x.interest PROVE \E j \in 1 .. Len(t) : k = log[t[j]].id
    OBVIOUS
  <2>1. m + 1 \in 1 .. Len(t) /\ log[t[m + 1]] = e /\ \A j \in 1 .. m : j \in 1 .. Len(t) /\ t[j] = s[j]
    BY <1>1
  <2>2. k \in DOMAIN d.interest \/ k = e.id
    BY <1>4 DEF BooksAfter
  <2>3. CASE k = e.id
    BY <2>1, <2>3
  <2>4. CASE k \in DOMAIN d.interest
    <3>1. PICK j \in 1 .. m : k = log[s[j]].id
      BY <2>4 DEF FoldedFrom
    <3> QED
      BY <2>1, <3>1
  <2> QED
    BY <2>2, <2>3, <2>4
<1> QED
  BY <1>3, <1>5, <1>6, <1>7, <1>8, <1>9 DEF FoldedFrom, x, t

\* The first n rows of the log, in order.
Ident(n) == [i \in 1 .. n |-> i]

\* The rows 1 to n in order.
LEMMA IdentIs ==
    ASSUME NEW n \in Nat
    PROVE  /\ \A m \in Nat : n <= m => Ident(n) \in Seq(1 .. m)
           /\ Len(Ident(n)) = n
           /\ Append(Ident(n), n + 1) = Ident(n + 1)
<1>1. \A m \in Nat : n <= m => Ident(n) \in Seq(1 .. m)
  <2> SUFFICES ASSUME NEW m \in Nat, n <= m PROVE Ident(n) \in Seq(1 .. m)
    OBVIOUS
  <2>1. Ident(n) \in [1 .. n -> 1 .. m]
    BY DEF Ident
  <2> QED
    BY <2>1
<1>2. Ident(n) \in Seq(1 .. n) /\ DOMAIN Ident(n) = 1 .. n
  BY <1>1 DEF Ident
<1>3. Len(Ident(n)) = n
  BY <1>2
<1>4. Append(Ident(n), n + 1) = Ident(n + 1)
  <2> DEFINE a == Append(Ident(n), n + 1)
             b == Ident(n + 1)
  <2>1. DOMAIN a = 1 .. (n + 1) /\ a[n + 1] = n + 1 /\ \A i \in 1 .. n : a[i] = Ident(n)[i]
    BY <1>2, <1>3
  <2>2. \A i \in 1 .. n : Ident(n)[i] = i
    BY DEF Ident
  <2>3. DOMAIN b = 1 .. (n + 1) /\ \A i \in 1 .. (n + 1) : b[i] = i
    BY DEF Ident
  <2>4. \A i \in 1 .. (n + 1) : i \in 1 .. n \/ i = n + 1
    OBVIOUS
  <2>5. \A i \in 1 .. (n + 1) : a[i] = b[i]
    <3> HIDE DEF a, b
    <3> QED
      BY <2>1, <2>2, <2>3, <2>4
  <2>6. a = [i \in 1 .. (n + 1) |-> a[i]]
    <3>1. Ident(n) \in Seq(Nat) /\ n + 1 \in Nat
      BY <1>1, <1>2
    <3>2. a \in Seq(Nat)
      BY <3>1
    <3> HIDE DEF a
    <3> QED
      BY <2>1, <3>2
  <2>7. b = [i \in 1 .. (n + 1) |-> b[i]]
    BY DEF Ident
  <2> HIDE DEF a, b
  <2>8. a = b
    BY <2>5, <2>6, <2>7
  <2> QED
    BY <2>8 DEF a, b
<1> QED
  BY <1>1, <1>3, <1>4

\* A rebuild of rows that can be read folds them once each, in order.
LEMMA RebuildFolded ==
    ASSUME NEW log, Len(log) \in Nat, ClosesOnce(log), NEW n \in Nat, n <= Len(log),
           \A i \in 1 .. n : EventOK(log[i])
    PROVE  FoldedFrom(Rebuild(log, n), Ident(n), log)
<1> DEFINE Fails == {m \in 0 .. n : ~FoldedFrom(Rebuild(log, m), Ident(m), log)}
<1> SUFFICES ASSUME n \in Fails PROVE FALSE
  OBVIOUS
<1>1. PICK m \in Fails : \A y \in Fails : m <= y
  <2>1. Fails \in SUBSET Nat /\ Fails # {}
    OBVIOUS
  <2> HIDE DEF Fails
  <2> QED
    BY <2>1, Least
<1>2. m # 0
  <2>1. Rebuild(log, 0) = EmptyTables
    BY RebuildStep
  <2>2. Ident(0) = << >>
    BY DEF Ident
  <2> QED
    BY <1>1, <2>1, <2>2, FoldedFromEmpty
<1> DEFINE p == m - 1
<1>3. /\ p \in Nat /\ p \in 0 .. n /\ p + 1 = m /\ ~(m <= p) /\ m \in 1 .. n
      /\ m \in 1 .. Len(log) /\ p <= Len(log)
  BY <1>1, <1>2
<1>4. FoldedFrom(Rebuild(log, p), Ident(p), log)
  BY <1>1, <1>3
<1>5. Rebuild(log, m) = applyEvent(Rebuild(log, p), log[m])
  BY <1>3, RebuildStep
<1>6. Ident(p) \in Seq(1 .. Len(log)) /\ Append(Ident(p), m) = Ident(m)
  BY <1>3, IdentIs
<1> HIDE DEF p
<1>7. EventOK(log[m])
  BY <1>3
<1>8. FoldedFrom(applyEvent(Rebuild(log, p), log[m]), Append(Ident(p), m), log)
  BY <1>3, <1>4, <1>6, <1>7, FoldedFromStep
<1> QED
  BY <1>1, <1>5, <1>6, <1>8

-----------------------------------------------------------------------------
\* Mirroring, table by table: what is not touched on either side still agrees.

\* Mirrors, table by table.
LoansMirror(d, c) == \A l \in Loans : MirrorsLoan(d, c, l)

TreasuriesMirror(d, c) == \A t \in Treasuries : MirrorsTreasury(d, c, t)

MembersMirror(d, c) == \A a \in Addresses : MirrorsMember(d, c, a)

LEMMA MirrorsIs ==
    ASSUME NEW d, NEW c
    PROVE  Mirrors(d, c) <=> /\ LoansMirror(d, c) /\ TreasuriesMirror(d, c) /\ MembersMirror(d, c)
                             /\ d.totals.interest = c.interest
BY DEF Mirrors, LoansMirror, TreasuriesMirror, MembersMirror

\* One row changed on both sides, or nothing changed on either.
LEMMA LoansMirrored ==
    ASSUME NEW d, NEW c, NEW x, NEW k, NEW l, LoansMirror(d, c),
           RowOnly(d.proposals, x.proposals, l), RowOnly(d.loans, x.loans, l),
           RowOnly(c.loan, k.loan, l), DOMAIN c.loan = Loans, MirrorsLoan(x, k, l)
    PROVE  LoansMirror(x, k)
<1> SUFFICES ASSUME NEW m \in Loans, m # l PROVE MirrorsLoan(x, k, m)
  BY DEF LoansMirror
<1>1. k.loan[m] = c.loan[m]
  BY DEF RowOnly
<1>2. /\ m \in DOMAIN x.proposals <=> m \in DOMAIN d.proposals
      /\ m \in DOMAIN x.loans <=> m \in DOMAIN d.loans
  BY DEF RowOnly
<1>3. /\ m \in DOMAIN d.proposals => x.proposals[m] = d.proposals[m]
      /\ m \in DOMAIN d.loans => x.loans[m] = d.loans[m]
  BY DEF RowOnly
<1>4. MirrorsLoan(d, c, m)
  BY DEF LoansMirror
<1> QED
  BY <1>1, <1>2, <1>3, <1>4 DEF MirrorsLoan

LEMMA LoansAsBefore ==
    ASSUME NEW d, NEW c, NEW x, NEW k, LoansMirror(d, c),
           x.proposals = d.proposals, x.loans = d.loans, k.loan = c.loan
    PROVE  LoansMirror(x, k)
BY DEF LoansMirror, MirrorsLoan

LEMMA TreasuriesMirrored ==
    ASSUME NEW d, NEW c, NEW x, NEW k, NEW t, TreasuriesMirror(d, c),
           RowOnly(d.treasury, x.treasury, t), RowOnly(c.treasury, k.treasury, t),
           DOMAIN c.treasury = Treasuries, MirrorsTreasury(x, k, t)
    PROVE  TreasuriesMirror(x, k)
<1> SUFFICES ASSUME NEW u \in Treasuries, u # t PROVE MirrorsTreasury(x, k, u)
  BY DEF TreasuriesMirror
<1>1. k.treasury[u] = c.treasury[u]
  BY DEF RowOnly
<1>2. u \in DOMAIN x.treasury <=> u \in DOMAIN d.treasury
  BY DEF RowOnly
<1>3. u \in DOMAIN d.treasury => x.treasury[u] = d.treasury[u]
  BY DEF RowOnly
<1>4. MirrorsTreasury(d, c, u)
  BY DEF TreasuriesMirror
<1> QED
  BY <1>1, <1>2, <1>3, <1>4 DEF MirrorsTreasury

LEMMA TreasuriesAsBefore ==
    ASSUME NEW d, NEW c, NEW x, NEW k, TreasuriesMirror(d, c),
           x.treasury = d.treasury, k.treasury = c.treasury
    PROVE  TreasuriesMirror(x, k)
BY DEF TreasuriesMirror, MirrorsTreasury

LEMMA MembersMirrored ==
    ASSUME NEW d, NEW c, NEW x, NEW k, NEW a, MembersMirror(d, c),
           RowOnly(d.members, x.members, a), RowOnly(c.member, k.member, a),
           DOMAIN c.member = Addresses, MirrorsMember(x, k, a)
    PROVE  MembersMirror(x, k)
<1> SUFFICES ASSUME NEW b \in Addresses, b # a PROVE MirrorsMember(x, k, b)
  BY DEF MembersMirror
<1>1. k.member[b] = c.member[b]
  BY DEF RowOnly
<1>2. b \in DOMAIN x.members <=> b \in DOMAIN d.members
  BY DEF RowOnly
<1>3. b \in DOMAIN d.members => x.members[b] = d.members[b]
  BY DEF RowOnly
<1>4. MirrorsMember(d, c, b)
  BY DEF MembersMirror
<1> QED
  BY <1>1, <1>2, <1>3, <1>4 DEF MirrorsMember

LEMMA MembersAsBefore ==
    ASSUME NEW d, NEW c, NEW x, NEW k, MembersMirror(d, c),
           x.members = d.members, k.member = c.member
    PROVE  MembersMirror(x, k)
BY DEF MembersMirror, MirrorsMember

-----------------------------------------------------------------------------
\* The contract's state: nobody outside has a stake or a loan, a proposal that was made
\* has a proposer, and one that was not has no votes.

\* What the contract keeps of a member; nobody outside has a stake or a loan.
MemberStates ==
    {m \in [in : BOOLEAN, contribution : Nat, stake : Nat, loan : BOOLEAN] :
        m.in \/ (m.stake = 0 /\ ~m.loan)}

\* What it keeps of a proposal in one of these states.
Proposed(states) ==
    {p \in [status : states, who : Addresses \cup {NULL}, amount : Nat, total : Nat, owed : Nat,
            yes : Nat, no : Nat] :
        IF p.status = "none" THEN p.yes = 0 /\ p.no = 0 ELSE p.who \in Addresses}

LoanStates ==
    Proposed({"none", "pending", "approved_pending_disbursement", "rejected", "active", "repaid",
              "defaulted"})

TreasuryStates ==
    Proposed({"none", "pending", "approved_pending_disbursement", "rejected", "executed"})

\* The states of the contract.
Contracts ==
    [member : [Addresses -> MemberStates], loan : [Loans -> LoanStates],
     treasury : [Treasuries -> TreasuryStates], interest : Nat]

LEMMA NewContractOK == NewContract \in Contracts
<1>1. Outsider \in MemberStates
  BY DEF Outsider, MemberStates
<1>2. NoProposal \in LoanStates /\ NoProposal \in TreasuryStates
  BY DEF NoProposal, LoanStates, TreasuryStates, Proposed
<1> QED
  BY <1>1, <1>2 DEF NewContract, Contracts

\* The contract changes one member, one loan, or one treasury proposal.
LEMMA MemberSet ==
    ASSUME NEW c \in Contracts, NEW a \in Addresses, NEW row \in MemberStates
    PROVE  LET k == [c EXCEPT !.member[a] = row]
           IN  /\ k \in Contracts /\ HasRow(k.member, a, row) /\ RowOnly(c.member, k.member, a)
               /\ k.loan = c.loan /\ k.treasury = c.treasury /\ k.interest = c.interest
BY DEF Contracts, HasRow, RowOnly

LEMMA LoanSet ==
    ASSUME NEW c \in Contracts, NEW l \in Loans, NEW row \in LoanStates
    PROVE  LET k == [c EXCEPT !.loan[l] = row]
           IN  /\ k \in Contracts /\ HasRow(k.loan, l, row) /\ RowOnly(c.loan, k.loan, l)
               /\ k.member = c.member /\ k.treasury = c.treasury /\ k.interest = c.interest
BY DEF Contracts, HasRow, RowOnly

LEMMA TreasurySetTo ==
    ASSUME NEW c \in Contracts, NEW t \in Treasuries, NEW row \in TreasuryStates
    PROVE  LET k == [c EXCEPT !.treasury[t] = row]
           IN  /\ k \in Contracts /\ HasRow(k.treasury, t, row) /\ RowOnly(c.treasury, k.treasury, t)
               /\ k.member = c.member /\ k.loan = c.loan /\ k.interest = c.interest
BY DEF Contracts, HasRow, RowOnly

\* An event about a member.
LEMMA MemberMirrors ==
    ASSUME NEW d, NEW x, NEW c \in Contracts, NEW a \in Addresses, NEW row \in MemberStates,
           NEW k, k = [c EXCEPT !.member[a] = row],
           Mirrors(d, c), Only(d, x, {"members"}), RowOnly(d.members, x.members, a),
           MirrorsMember(x, k, a)
    PROVE  Mirrors(x, k)
<1>1. /\ RowOnly(c.member, k.member, a)
      /\ k.loan = c.loan /\ k.treasury = c.treasury /\ k.interest = c.interest
  BY MemberSet
<1>2. x.proposals = d.proposals /\ x.loans = d.loans /\ x.treasury = d.treasury /\ x.totals = d.totals
  BY DEF Only, TableNames
<1>3. /\ LoansMirror(d, c) /\ TreasuriesMirror(d, c) /\ MembersMirror(d, c)
      /\ d.totals.interest = c.interest
  BY MirrorsIs
<1>4. DOMAIN c.member = Addresses
  BY DEF Contracts
<1>5. LoansMirror(x, k)
  BY <1>1, <1>2, <1>3, LoansAsBefore
<1>6. TreasuriesMirror(x, k)
  BY <1>1, <1>2, <1>3, TreasuriesAsBefore
<1>7. MembersMirror(x, k)
  BY <1>1, <1>3, <1>4, MembersMirrored
<1> QED
  BY <1>1, <1>2, <1>3, <1>5, <1>6, <1>7, MirrorsIs

\* An event about a loan proposal, before there is a loan.
LEMMA ProposalMirrors ==
    ASSUME NEW d, NEW x, NEW c \in Contracts, NEW l \in Loans, NEW row \in LoanStates,
           NEW k, k = [c EXCEPT !.loan[l] = row],
           Mirrors(d, c), Only(d, x, {"proposals"}), RowOnly(d.proposals, x.proposals, l),
           MirrorsLoan(x, k, l)
    PROVE  Mirrors(x, k)
<1>1. /\ RowOnly(c.loan, k.loan, l)
      /\ k.member = c.member /\ k.treasury = c.treasury /\ k.interest = c.interest
  BY LoanSet
<1>2. x.members = d.members /\ x.loans = d.loans /\ x.treasury = d.treasury /\ x.totals = d.totals
  BY DEF Only, TableNames
<1>3. /\ LoansMirror(d, c) /\ TreasuriesMirror(d, c) /\ MembersMirror(d, c)
      /\ d.totals.interest = c.interest
  BY MirrorsIs
<1>4. DOMAIN c.loan = Loans /\ RowOnly(d.loans, x.loans, l)
  BY <1>2 DEF Contracts, RowOnly
<1>5. LoansMirror(x, k)
  BY <1>1, <1>3, <1>4, LoansMirrored
<1>6. TreasuriesMirror(x, k)
  BY <1>1, <1>2, <1>3, TreasuriesAsBefore
<1>7. MembersMirror(x, k)
  BY <1>1, <1>2, <1>3, MembersAsBefore
<1> QED
  BY <1>1, <1>2, <1>3, <1>5, <1>6, <1>7, MirrorsIs

\* An event about a treasury proposal.
LEMMA TreasuryMirrors ==
    ASSUME NEW d, NEW x, NEW c \in Contracts, NEW t \in Treasuries, NEW row \in TreasuryStates,
           NEW k, k = [c EXCEPT !.treasury[t] = row],
           Mirrors(d, c), Only(d, x, {"treasury"}), RowOnly(d.treasury, x.treasury, t),
           MirrorsTreasury(x, k, t)
    PROVE  Mirrors(x, k)
<1>1. /\ RowOnly(c.treasury, k.treasury, t)
      /\ k.member = c.member /\ k.loan = c.loan /\ k.interest = c.interest
  BY TreasurySetTo
<1>2. x.members = d.members /\ x.proposals = d.proposals /\ x.loans = d.loans /\ x.totals = d.totals
  BY DEF Only, TableNames
<1>3. /\ LoansMirror(d, c) /\ TreasuriesMirror(d, c) /\ MembersMirror(d, c)
      /\ d.totals.interest = c.interest
  BY MirrorsIs
<1>4. DOMAIN c.treasury = Treasuries
  BY DEF Contracts
<1>5. LoansMirror(x, k)
  BY <1>1, <1>2, <1>3, LoansAsBefore
<1>6. TreasuriesMirror(x, k)
  BY <1>1, <1>3, <1>4, TreasuriesMirrored
<1>7. MembersMirror(x, k)
  BY <1>1, <1>2, <1>3, MembersAsBefore
<1> QED
  BY <1>1, <1>2, <1>3, <1>5, <1>6, <1>7, MirrorsIs

\* An event about nothing the contract records.
LEMMA MirrorsStill ==
    ASSUME NEW d, NEW x, NEW c, Mirrors(d, c), Only(d, x, {"documents"})
    PROVE  Mirrors(x, c)
<1>1. /\ x.members = d.members /\ x.proposals = d.proposals /\ x.loans = d.loans
      /\ x.treasury = d.treasury /\ x.totals = d.totals
  BY DEF Only, TableNames
<1> QED
  BY <1>1 DEF Mirrors, MirrorsLoan, MirrorsTreasury, MirrorsMember

-----------------------------------------------------------------------------
\* Every event of the contract, folded into tables that mirror it, leaves tables that
\* mirror what the contract has become.

\* What mirroring says of one member.
LEMMA MemberIs ==
    ASSUME NEW d, NEW c \in Contracts, NEW a \in Addresses, Mirrors(d, c)
    PROVE  /\ c.member[a] \in MemberStates
           /\ c.member[a].in => a \in DOMAIN d.members
           /\ a \in DOMAIN d.members =>
                /\ d.members[a].exited = ~c.member[a].in
                /\ d.members[a].contribution = c.member[a].contribution
                /\ d.members[a].stake = c.member[a].stake
                /\ d.members[a].has_active_loan = c.member[a].loan
<1>1. MirrorsMember(d, c, a)
  BY DEF Mirrors
<1>2. c.member[a] \in MemberStates
  BY DEF Contracts
<1> QED
  BY <1>1, <1>2 DEF MirrorsMember

\* The events about a member.
LEMMA JoinedMirrors ==
    ASSUME NEW d, NEW e, NEW c \in Contracts, NEW a \in Addresses, TablesOK(d), EventOK(e),
           Mirrors(d, c), e.symbol = "joined", e.who = a, e.amount = Fee, ~c.member[a].in
    PROVE  LET row == [c.member[a] EXCEPT !.in = TRUE, !.contribution = Fee]
           IN  row \in MemberStates /\ Mirrors(applyEvent(d, e), [c EXCEPT !.member[a] = row])
<1> DEFINE m   == c.member[a]
           row == [m EXCEPT !.in = TRUE, !.contribution = Fee]
           k   == [c EXCEPT !.member[a] = row]
           x   == applyEvent(d, e)
<1>1. m \in MemberStates /\ m.stake = 0 /\ m.loan = FALSE
  BY DEF Contracts, MemberStates
<1>2. row \in MemberStates /\ row.in = TRUE /\ row.contribution = Fee /\ row.stake = 0 /\ row.loan = FALSE
  BY <1>1 DEF MemberStates, Fee
<1>3. x = joined(d, e)
  BY DEF applyEvent
<1> HIDE DEF x
<1>4. JoinedEffect(d, e, x)
  BY <1>3, JoinedMeans
<1>5. /\ Only(d, x, {"members"}) /\ RowOnly(d.members, x.members, a) /\ a \in DOMAIN x.members
      /\ x.members[a].exited = FALSE /\ x.members[a].contribution = Fee
      /\ x.members[a].has_active_loan = FALSE
      /\ x.members[a].stake = IF a \in DOMAIN d.members THEN d.members[a].stake ELSE 0
  BY <1>4 DEF JoinedEffect
<1>6. a \in DOMAIN d.members => d.members[a].stake = m.stake
  BY MemberIs
<1>7. x.members[a].stake = 0
  BY <1>1, <1>5, <1>6
<1> HIDE DEF row, m
<1>8. k.member[a] = row
  BY DEF Contracts
<1>9. MirrorsMember(x, k, a)
  BY <1>2, <1>5, <1>7, <1>8 DEF MirrorsMember
<1> HIDE DEF k
<1>10. Mirrors(x, k)
  BY <1>2, <1>5, <1>9, MemberMirrors DEF k
<1> QED
  BY <1>2, <1>10 DEF x, k, row, m

LEMMA ExitedMirrors ==
    ASSUME NEW d, NEW e, NEW c \in Contracts, NEW a \in Addresses, TablesOK(d), EventOK(e),
           Mirrors(d, c), e.symbol = "exited", e.who = a, c.member[a].in
    PROVE  LET row == [Outsider EXCEPT !.contribution = c.member[a].contribution]
           IN  row \in MemberStates /\ Mirrors(applyEvent(d, e), [c EXCEPT !.member[a] = row])
<1> DEFINE m   == c.member[a]
           row == [Outsider EXCEPT !.contribution = m.contribution]
           k   == [c EXCEPT !.member[a] = row]
           x   == applyEvent(d, e)
<1>1. /\ m \in MemberStates /\ a \in DOMAIN d.members
      /\ d.members[a].contribution = m.contribution
  BY MemberIs
<1>2. /\ row \in MemberStates /\ row.in = FALSE /\ row.contribution = m.contribution
      /\ row.stake = 0 /\ row.loan = FALSE
  BY <1>1 DEF MemberStates, Outsider
<1>3. x = exited(d, e)
  BY DEF applyEvent
<1> HIDE DEF x
<1>4. /\ Only(d, x, {"members"}) /\ RowOnly(d.members, x.members, a) /\ SameKeys(d.members, x.members)
      /\ x.members[a].exited = TRUE /\ x.members[a].stake = 0 /\ x.members[a].has_active_loan = FALSE
      /\ x.members[a].contribution = d.members[a].contribution
  BY <1>1, <1>3, ExitedMeans
<1> HIDE DEF row, m
<1>5. k.member[a] = row
  BY DEF Contracts
<1>6. MirrorsMember(x, k, a)
  BY <1>1, <1>2, <1>4, <1>5 DEF MirrorsMember
<1> HIDE DEF k
<1>7. Mirrors(x, k)
  BY <1>2, <1>4, <1>6, MemberMirrors DEF k
<1> QED
  BY <1>2, <1>7 DEF x, k, row, m

LEMMA StakedMirrors ==
    ASSUME NEW d, NEW e, NEW c \in Contracts, NEW a \in Addresses, TablesOK(d), EventOK(e),
           Mirrors(d, c), e.symbol = "staked", e.who = a,
           e.amount = c.member[a].stake + 1, c.member[a].in
    PROVE  LET row == [c.member[a] EXCEPT !.stake = @ + 1]
           IN  row \in MemberStates /\ Mirrors(applyEvent(d, e), [c EXCEPT !.member[a] = row])
<1> DEFINE m   == c.member[a]
           row == [m EXCEPT !.stake = @ + 1]
           k   == [c EXCEPT !.member[a] = row]
           x   == applyEvent(d, e)
<1>1. m \in MemberStates
  BY MemberIs
<1>2. row \in MemberStates /\ row.in = m.in /\ row.contribution = m.contribution
      /\ row.loan = m.loan /\ row.stake = e.amount
  <2>1. m.in /\ m.stake \in Nat /\ m.stake + 1 \in Nat
    BY <1>1 DEF MemberStates
  <2> QED
    BY <1>1, <2>1 DEF MemberStates
<1>3. x = staked(d, e)
  BY DEF applyEvent
<1> HIDE DEF x
<1>4. /\ Only(d, x, {"members"}) /\ RowOnly(d.members, x.members, a) /\ SameKeys(d.members, x.members)
      /\ a \in DOMAIN d.members => HasRow(x.members, a, [d.members[a] EXCEPT !.stake = e.amount])
  BY <1>3, StakedMeans
<1>5. ASSUME a \in DOMAIN d.members
      PROVE  /\ x.members[a].exited = d.members[a].exited
             /\ x.members[a].contribution = d.members[a].contribution
             /\ x.members[a].has_active_loan = d.members[a].has_active_loan
             /\ x.members[a].stake = e.amount
  <2>1. d.members[a] \in MemberRows
    BY <1>5 DEF TablesOK, IsTable
  <2>2. x.members[a] = [d.members[a] EXCEPT !.stake = e.amount]
    BY <1>4, <1>5 DEF HasRow
  <2> QED
    BY <2>1, <2>2 DEF MemberRows
<1>6. /\ m.in => a \in DOMAIN d.members
      /\ a \in DOMAIN d.members =>
           /\ d.members[a].exited = ~m.in
           /\ d.members[a].contribution = m.contribution
           /\ d.members[a].stake = m.stake
           /\ d.members[a].has_active_loan = m.loan
  BY MemberIs
<1> HIDE DEF row, m
<1>7. k.member[a] = row
  BY DEF Contracts
<1>8. DOMAIN x.members = DOMAIN d.members
  BY <1>4 DEF SameKeys
<1>9. MirrorsMember(x, k, a)
  BY <1>2, <1>5, <1>6, <1>7, <1>8 DEF MirrorsMember
<1> HIDE DEF k
<1>10. Mirrors(x, k)
  BY <1>2, <1>4, <1>9, MemberMirrors DEF k
<1> QED
  BY <1>2, <1>10 DEF x, k, row, m

LEMMA UnstakedMirrors ==
    ASSUME NEW d, NEW e, NEW c \in Contracts, NEW a \in Addresses, TablesOK(d), EventOK(e),
           Mirrors(d, c), e.symbol = "unstaked", e.who = a,
           e.amount = c.member[a].stake - 1, c.member[a].stake > 0
    PROVE  LET row == [c.member[a] EXCEPT !.stake = @ - 1]
           IN  row \in MemberStates /\ Mirrors(applyEvent(d, e), [c EXCEPT !.member[a] = row])
<1> DEFINE m   == c.member[a]
           row == [m EXCEPT !.stake = @ - 1]
           k   == [c EXCEPT !.member[a] = row]
           x   == applyEvent(d, e)
<1>1. m \in MemberStates
  BY MemberIs
<1>2. row \in MemberStates /\ row.in = m.in /\ row.contribution = m.contribution
      /\ row.loan = m.loan /\ row.stake = e.amount
  BY <1>1 DEF MemberStates
<1>3. x = unstaked(d, e)
  BY DEF applyEvent
<1> HIDE DEF x
<1>4. /\ Only(d, x, {"members"}) /\ RowOnly(d.members, x.members, a) /\ SameKeys(d.members, x.members)
      /\ a \in DOMAIN d.members => HasRow(x.members, a, [d.members[a] EXCEPT !.stake = e.amount])
  BY <1>3, UnstakedMeans
<1>5. ASSUME a \in DOMAIN d.members
      PROVE  /\ x.members[a].exited = d.members[a].exited
             /\ x.members[a].contribution = d.members[a].contribution
             /\ x.members[a].has_active_loan = d.members[a].has_active_loan
             /\ x.members[a].stake = e.amount
  <2>1. d.members[a] \in MemberRows
    BY <1>5 DEF TablesOK, IsTable
  <2>2. x.members[a] = [d.members[a] EXCEPT !.stake = e.amount]
    BY <1>4, <1>5 DEF HasRow
  <2> QED
    BY <2>1, <2>2 DEF MemberRows
<1>6. /\ m.in => a \in DOMAIN d.members
      /\ a \in DOMAIN d.members =>
           /\ d.members[a].exited = ~m.in
           /\ d.members[a].contribution = m.contribution
           /\ d.members[a].stake = m.stake
           /\ d.members[a].has_active_loan = m.loan
  BY MemberIs
<1> HIDE DEF row, m
<1>7. k.member[a] = row
  BY DEF Contracts
<1>8. DOMAIN x.members = DOMAIN d.members
  BY <1>4 DEF SameKeys
<1>9. MirrorsMember(x, k, a)
  BY <1>2, <1>5, <1>6, <1>7, <1>8 DEF MirrorsMember
<1> HIDE DEF k
<1>10. Mirrors(x, k)
  BY <1>2, <1>4, <1>9, MemberMirrors DEF k
<1> QED
  BY <1>2, <1>10 DEF x, k, row, m

LEMMA ClaimedMirrors ==
    ASSUME NEW d, NEW e, NEW c \in Contracts, NEW a \in Addresses, TablesOK(d), EventOK(e),
           Mirrors(d, c), e.symbol = "claimed", e.who = a
    PROVE  LET row == c.member[a]
           IN  row \in MemberStates /\ Mirrors(applyEvent(d, e), [c EXCEPT !.member[a] = row])
<1> DEFINE m   == c.member[a]
           row == m
           k   == [c EXCEPT !.member[a] = row]
           x   == applyEvent(d, e)
<1>1. m \in MemberStates
  BY MemberIs
<1>2. row \in MemberStates /\ row = m
  BY <1>1 DEF MemberStates
<1>3. x = claimed(d, e)
  BY DEF applyEvent
<1> HIDE DEF x
<1>4. /\ Only(d, x, {"members"}) /\ RowOnly(d.members, x.members, a) /\ SameKeys(d.members, x.members)
      /\ a \in DOMAIN d.members => HasRow(x.members, a, [d.members[a] EXCEPT !.claimed = @ + e.amount])
  BY <1>3, ClaimedMeans
<1>5. ASSUME a \in DOMAIN d.members
      PROVE  /\ x.members[a].exited = d.members[a].exited
             /\ x.members[a].contribution = d.members[a].contribution
             /\ x.members[a].has_active_loan = d.members[a].has_active_loan
             /\ x.members[a].stake = d.members[a].stake
  <2>1. d.members[a] \in MemberRows
    BY <1>5 DEF TablesOK, IsTable
  <2>2. x.members[a] = [d.members[a] EXCEPT !.claimed = @ + e.amount]
    BY <1>4, <1>5 DEF HasRow
  <2> QED
    BY <2>1, <2>2 DEF MemberRows
<1>6. /\ m.in => a \in DOMAIN d.members
      /\ a \in DOMAIN d.members =>
           /\ d.members[a].exited = ~m.in
           /\ d.members[a].contribution = m.contribution
           /\ d.members[a].stake = m.stake
           /\ d.members[a].has_active_loan = m.loan
  BY MemberIs
<1> HIDE DEF row, m
<1>7. k.member[a] = row
  BY DEF Contracts
<1>8. DOMAIN x.members = DOMAIN d.members
  BY <1>4 DEF SameKeys
<1>9. MirrorsMember(x, k, a)
  BY <1>2, <1>5, <1>6, <1>7, <1>8 DEF MirrorsMember
<1> HIDE DEF k
<1>10. Mirrors(x, k)
  BY <1>2, <1>4, <1>9, MemberMirrors DEF k
<1> QED
  BY <1>2, <1>10 DEF x, k, row, m

LEMMA NameRegMirrors ==
    ASSUME NEW d, NEW e, NEW c \in Contracts, NEW a \in Addresses, TablesOK(d), EventOK(e),
           Mirrors(d, c), e.symbol = "name_reg", e.who = a
    PROVE  LET row == c.member[a]
           IN  row \in MemberStates /\ Mirrors(applyEvent(d, e), [c EXCEPT !.member[a] = row])
<1> DEFINE m   == c.member[a]
           row == m
           k   == [c EXCEPT !.member[a] = row]
           x   == applyEvent(d, e)
<1>1. m \in MemberStates
  BY MemberIs
<1>2. row \in MemberStates /\ row = m
  BY <1>1 DEF MemberStates
<1>3. x = name_reg(d, e)
  BY DEF applyEvent
<1> HIDE DEF x
<1>4. /\ Only(d, x, {"members"}) /\ RowOnly(d.members, x.members, a) /\ SameKeys(d.members, x.members)
      /\ a \in DOMAIN d.members => HasRow(x.members, a, [d.members[a] EXCEPT !.name = e.id])
  BY <1>3, NameRegMeans
<1>5. ASSUME a \in DOMAIN d.members
      PROVE  /\ x.members[a].exited = d.members[a].exited
             /\ x.members[a].contribution = d.members[a].contribution
             /\ x.members[a].has_active_loan = d.members[a].has_active_loan
             /\ x.members[a].stake = d.members[a].stake
  <2>1. d.members[a] \in MemberRows
    BY <1>5 DEF TablesOK, IsTable
  <2>2. x.members[a] = [d.members[a] EXCEPT !.name = e.id]
    BY <1>4, <1>5 DEF HasRow
  <2> QED
    BY <2>1, <2>2 DEF MemberRows
<1>6. /\ m.in => a \in DOMAIN d.members
      /\ a \in DOMAIN d.members =>
           /\ d.members[a].exited = ~m.in
           /\ d.members[a].contribution = m.contribution
           /\ d.members[a].stake = m.stake
           /\ d.members[a].has_active_loan = m.loan
  BY MemberIs
<1> HIDE DEF row, m
<1>7. k.member[a] = row
  BY DEF Contracts
<1>8. DOMAIN x.members = DOMAIN d.members
  BY <1>4 DEF SameKeys
<1>9. MirrorsMember(x, k, a)
  BY <1>2, <1>5, <1>6, <1>7, <1>8 DEF MirrorsMember
<1> HIDE DEF k
<1>10. Mirrors(x, k)
  BY <1>2, <1>4, <1>9, MemberMirrors DEF k
<1> QED
  BY <1>2, <1>10 DEF x, k, row, m

\* What mirroring says of a loan that is asked for and not decided.
LEMMA PendingIs ==
    ASSUME NEW d, NEW c \in Contracts, NEW l \in Loans, Mirrors(d, c), TablesOK(d),
           c.loan[l].status \in {"pending", "approved_pending_disbursement"}
    PROVE  /\ c.loan[l] \in LoanStates /\ c.loan[l].who \in Addresses
           /\ l \in DOMAIN d.proposals /\ l \notin DOMAIN d.loans
           /\ d.proposals[l] \in ProposalRows
           /\ d.proposals[l].status = c.loan[l].status
           /\ d.proposals[l].borrower = c.loan[l].who
           /\ d.proposals[l].amount = c.loan[l].amount /\ d.proposals[l].total = c.loan[l].total
           /\ d.proposals[l].yes = c.loan[l].yes /\ d.proposals[l].no = c.loan[l].no
<1>1. MirrorsLoan(d, c, l)
  BY DEF Mirrors
<1>2. c.loan[l] \in LoanStates
  BY DEF Contracts
<1>3. l \in DOMAIN d.proposals
  BY <1>1 DEF MirrorsLoan
<1>4. d.proposals[l] \in ProposalRows
  BY <1>3 DEF TablesOK, IsTable
<1>5. c.loan[l].who \in Addresses
  BY <1>2 DEF LoanStates, Proposed
<1> QED
  BY <1>1, <1>2, <1>3, <1>4, <1>5 DEF MirrorsLoan

\* A proposal gets a new row on both sides, and the rows agree.
LEMMA UnlentMirrors ==
    ASSUME NEW d, NEW x, NEW c \in Contracts, NEW l \in Loans, NEW row \in LoanStates, NEW drow,
           Mirrors(d, c), Only(d, x, {"proposals"}), RowOnly(d.proposals, x.proposals, l),
           HasRow(x.proposals, l, drow), l \notin DOMAIN d.loans,
           row.status \in {"pending", "approved_pending_disbursement", "rejected"},
           drow.status = row.status, drow.borrower = row.who, drow.amount = row.amount,
           drow.total = row.total, drow.yes = row.yes, drow.no = row.no
    PROVE  Mirrors(x, [c EXCEPT !.loan[l] = row])
<1> DEFINE k == [c EXCEPT !.loan[l] = row]
<1>1. k.loan[l] = row
  BY DEF Contracts
<1>2. x.loans = d.loans
  BY DEF Only, TableNames
<1>3. l \in DOMAIN x.proposals /\ x.proposals[l] = drow
  BY DEF HasRow
<1>4. MirrorsLoan(x, k, l)
  BY <1>1, <1>2, <1>3 DEF MirrorsLoan
<1> HIDE DEF k
<1>5. Mirrors(x, k)
  BY <1>4, ProposalMirrors DEF k
<1> QED
  BY <1>5 DEF k

\* The events about a loan that has not been disbursed.
LEMMA LoanReqMirrors ==
    ASSUME NEW d, NEW e, NEW c \in Contracts, NEW l \in Loans, NEW a \in Addresses,
           TablesOK(d), EventOK(e), Mirrors(d, c), e.symbol = "loan_req", e.nr = l, e.who = a,
           e.amount = Asked.amount, e.total = Asked.total, c.loan[l].status = "none"
    PROVE  LET row == [c.loan[l] EXCEPT !.status = "pending", !.who = a, !.amount = Asked.amount,
                                        !.total = Asked.total]
           IN  row \in LoanStates /\ Mirrors(applyEvent(d, e), [c EXCEPT !.loan[l] = row])
<1> DEFINE p    == c.loan[l]
           row  == [p EXCEPT !.status = "pending", !.who = a, !.amount = Asked.amount,
                             !.total = Asked.total]
           drow == [borrower |-> e.who, amount |-> e.amount, total |-> e.total,
                    status |-> "pending", yes |-> 0, no |-> 0, voters |-> 0]
           x    == applyEvent(d, e)
<1>1. p \in LoanStates /\ p.yes = 0 /\ p.no = 0
  BY DEF Contracts, LoanStates, Proposed
<1>2. /\ row \in LoanStates /\ row.status = "pending" /\ row.who = a /\ row.amount = e.amount
      /\ row.total = e.total /\ row.yes = 0 /\ row.no = 0
  BY <1>1 DEF LoanStates, Proposed, Asked
<1>3. MirrorsLoan(d, c, l)
  BY DEF Mirrors
<1>4. l \notin DOMAIN d.proposals /\ l \notin DOMAIN d.loans
  BY <1>3 DEF MirrorsLoan
<1>5. x = loan_req(d, e)
  BY DEF applyEvent
<1> HIDE DEF x
<1>6. /\ Only(d, x, {"proposals"}) /\ RowOnly(d.proposals, x.proposals, l)
      /\ HasRow(x.proposals, l, drow)
  BY <1>4, <1>5, LoanReqMeans
<1>7. /\ drow.status = "pending" /\ drow.borrower = a /\ drow.amount = e.amount
      /\ drow.total = e.total /\ drow.yes = 0 /\ drow.no = 0
  OBVIOUS
<1> HIDE DEF row, drow, p
<1>8. Mirrors(x, [c EXCEPT !.loan[l] = row])
  BY <1>2, <1>4, <1>6, <1>7, UnlentMirrors
<1> QED
  BY <1>2, <1>8 DEF x, row, p

LEMMA LoanEditMirrors ==
    ASSUME NEW d, NEW e, NEW c \in Contracts, NEW l \in Loans,
           TablesOK(d), EventOK(e), Mirrors(d, c), e.symbol = "loan_edit", e.nr = l,
           e.amount = Edited.amount, e.total = Edited.total,
           c.loan[l].status = "pending"
    PROVE  LET row == [c.loan[l] EXCEPT !.amount = Edited.amount, !.total = Edited.total]
           IN  row \in LoanStates /\ Mirrors(applyEvent(d, e), [c EXCEPT !.loan[l] = row])
<1> DEFINE p    == c.loan[l]
           row  == [p EXCEPT !.amount = Edited.amount, !.total = Edited.total]
           drow == [d.proposals[l] EXCEPT !.amount = e.amount, !.total = e.total]
           x    == applyEvent(d, e)
<1>1. /\ p \in LoanStates /\ p.who \in Addresses /\ l \in DOMAIN d.proposals /\ l \notin DOMAIN d.loans
      /\ d.proposals[l] \in ProposalRows /\ d.proposals[l].status = "pending"
      /\ d.proposals[l].borrower = p.who
      /\ d.proposals[l].amount = p.amount /\ d.proposals[l].total = p.total
      /\ d.proposals[l].yes = p.yes /\ d.proposals[l].no = p.no
  BY PendingIs
<1>2. /\ row \in LoanStates /\ row.status = "pending" /\ row.who = p.who /\ row.amount = e.amount
      /\ row.total = e.total /\ row.yes = p.yes /\ row.no = p.no
  BY <1>1 DEF LoanStates, Proposed, Edited
<1>3. /\ drow.status = "pending" /\ drow.borrower = p.who /\ drow.amount = e.amount
      /\ drow.total = e.total /\ drow.yes = p.yes /\ drow.no = p.no
  BY <1>1 DEF ProposalRows
<1>4. x = loan_edit(d, e)
  BY DEF applyEvent
<1> HIDE DEF x
<1>5. /\ Only(d, x, {"proposals"}) /\ RowOnly(d.proposals, x.proposals, l)
      /\ HasRow(x.proposals, l, drow)
  BY <1>1, <1>4, LoanEditMeans
<1> HIDE DEF row, drow, p
<1>6. Mirrors(x, [c EXCEPT !.loan[l] = row])
  BY <1>1, <1>2, <1>3, <1>5, UnlentMirrors
<1> QED
  BY <1>2, <1>6 DEF x, row, p

LEMMA LoanWaitMirrors ==
    ASSUME NEW d, NEW e, NEW c \in Contracts, NEW l \in Loans,
           TablesOK(d), EventOK(e), Mirrors(d, c), e.symbol = "loan_wait", e.nr = l,
           c.loan[l].status = "pending"
    PROVE  LET row == [c.loan[l] EXCEPT !.status = "approved_pending_disbursement"]
           IN  row \in LoanStates /\ Mirrors(applyEvent(d, e), [c EXCEPT !.loan[l] = row])
<1> DEFINE p    == c.loan[l]
           row  == [p EXCEPT !.status = "approved_pending_disbursement"]
           drow == [d.proposals[l] EXCEPT !.status = "approved_pending_disbursement"]
           x    == applyEvent(d, e)
<1>1. /\ p \in LoanStates /\ p.who \in Addresses /\ l \in DOMAIN d.proposals /\ l \notin DOMAIN d.loans
      /\ d.proposals[l] \in ProposalRows /\ d.proposals[l].status = "pending"
      /\ d.proposals[l].borrower = p.who
      /\ d.proposals[l].amount = p.amount /\ d.proposals[l].total = p.total
      /\ d.proposals[l].yes = p.yes /\ d.proposals[l].no = p.no
  BY PendingIs
<1>2. /\ row \in LoanStates /\ row.status = "approved_pending_disbursement" /\ row.who = p.who
      /\ row.amount = p.amount /\ row.total = p.total /\ row.yes = p.yes /\ row.no = p.no
  BY <1>1 DEF LoanStates, Proposed
<1>3. /\ drow.status = "approved_pending_disbursement" /\ drow.borrower = p.who
      /\ drow.amount = p.amount /\ drow.total = p.total /\ drow.yes = p.yes /\ drow.no = p.no
  BY <1>1 DEF ProposalRows
<1>4. x = loan_wait(d, e)
  BY DEF applyEvent
<1> HIDE DEF x
<1>5. /\ Only(d, x, {"proposals"}) /\ RowOnly(d.proposals, x.proposals, l)
      /\ HasRow(x.proposals, l, drow)
  BY <1>1, <1>4, LoanWaitMeans DEF Pending
<1> HIDE DEF row, drow, p
<1>6. Mirrors(x, [c EXCEPT !.loan[l] = row])
  BY <1>1, <1>2, <1>3, <1>5, UnlentMirrors
<1> QED
  BY <1>2, <1>6 DEF x, row, p

LEMMA LoanRejMirrors ==
    ASSUME NEW d, NEW e, NEW c \in Contracts, NEW l \in Loans,
           TablesOK(d), EventOK(e), Mirrors(d, c), e.symbol = "loan_rej", e.nr = l,
           c.loan[l].status = "pending"
    PROVE  LET row == [c.loan[l] EXCEPT !.status = "rejected"]
           IN  row \in LoanStates /\ Mirrors(applyEvent(d, e), [c EXCEPT !.loan[l] = row])
<1> DEFINE p    == c.loan[l]
           row  == [p EXCEPT !.status = "rejected"]
           drow == [d.proposals[l] EXCEPT !.status = "rejected"]
           x    == applyEvent(d, e)
<1>1. /\ p \in LoanStates /\ p.who \in Addresses /\ l \in DOMAIN d.proposals /\ l \notin DOMAIN d.loans
      /\ d.proposals[l] \in ProposalRows /\ d.proposals[l].status = "pending"
      /\ d.proposals[l].borrower = p.who
      /\ d.proposals[l].amount = p.amount /\ d.proposals[l].total = p.total
      /\ d.proposals[l].yes = p.yes /\ d.proposals[l].no = p.no
  BY PendingIs
<1>2. /\ row \in LoanStates /\ row.status = "rejected" /\ row.who = p.who
      /\ row.amount = p.amount /\ row.total = p.total /\ row.yes = p.yes /\ row.no = p.no
  BY <1>1 DEF LoanStates, Proposed
<1>3. /\ drow.status = "rejected" /\ drow.borrower = p.who
      /\ drow.amount = p.amount /\ drow.total = p.total /\ drow.yes = p.yes /\ drow.no = p.no
  BY <1>1 DEF ProposalRows
<1>4. x = loan_rej(d, e)
  BY DEF applyEvent
<1> HIDE DEF x
<1>5. /\ Only(d, x, {"proposals"}) /\ RowOnly(d.proposals, x.proposals, l)
      /\ HasRow(x.proposals, l, drow)
  BY <1>1, <1>4, LoanRejMeans DEF Pending
<1> HIDE DEF row, drow, p
<1>6. Mirrors(x, [c EXCEPT !.loan[l] = row])
  BY <1>1, <1>2, <1>3, <1>5, UnlentMirrors
<1> QED
  BY <1>2, <1>6 DEF x, row, p

LEMMA LoanExpMirrors ==
    ASSUME NEW d, NEW e, NEW c \in Contracts, NEW l \in Loans,
           TablesOK(d), EventOK(e), Mirrors(d, c), e.symbol = "loan_exp", e.nr = l,
           c.loan[l].status = "pending"
    PROVE  LET row == [c.loan[l] EXCEPT !.status = "rejected"]
           IN  row \in LoanStates /\ Mirrors(applyEvent(d, e), [c EXCEPT !.loan[l] = row])
<1> DEFINE p    == c.loan[l]
           row  == [p EXCEPT !.status = "rejected"]
           drow == [d.proposals[l] EXCEPT !.status = "rejected"]
           x    == applyEvent(d, e)
<1>1. /\ p \in LoanStates /\ p.who \in Addresses /\ l \in DOMAIN d.proposals /\ l \notin DOMAIN d.loans
      /\ d.proposals[l] \in ProposalRows /\ d.proposals[l].status = "pending"
      /\ d.proposals[l].borrower = p.who
      /\ d.proposals[l].amount = p.amount /\ d.proposals[l].total = p.total
      /\ d.proposals[l].yes = p.yes /\ d.proposals[l].no = p.no
  BY PendingIs
<1>2. /\ row \in LoanStates /\ row.status = "rejected" /\ row.who = p.who
      /\ row.amount = p.amount /\ row.total = p.total /\ row.yes = p.yes /\ row.no = p.no
  BY <1>1 DEF LoanStates, Proposed
<1>3. /\ drow.status = "rejected" /\ drow.borrower = p.who
      /\ drow.amount = p.amount /\ drow.total = p.total /\ drow.yes = p.yes /\ drow.no = p.no
  BY <1>1 DEF ProposalRows
<1>4. x = loan_exp(d, e)
  BY DEF applyEvent
<1> HIDE DEF x
<1>5. /\ Only(d, x, {"proposals"}) /\ RowOnly(d.proposals, x.proposals, l)
      /\ HasRow(x.proposals, l, drow)
  BY <1>1, <1>4, LoanExpMeans DEF Pending
<1> HIDE DEF row, drow, p
<1>6. Mirrors(x, [c EXCEPT !.loan[l] = row])
  BY <1>1, <1>2, <1>3, <1>5, UnlentMirrors
<1> QED
  BY <1>2, <1>6 DEF x, row, p

\* A vote counts the same on both sides.
LEMMA CountedSame ==
    ASSUME NEW p, NEW yes \in Nat, NEW no \in Nat, NEW b \in Ballots, NEW e, NEW row, NEW S,
           p \in [status : S, who : Addresses \cup {NULL}, amount : Nat, total : Nat, owed : Nat,
                  yes : Nat, no : Nat],
           p.yes = yes, p.no = no, row.yes = yes, row.no = no,
           {"yes", "no", "voters"} \subseteq DOMAIN row,
           e.support = b.support, e.weight = b.weight
    PROVE  /\ Counted(p, b) \in [status : S, who : Addresses \cup {NULL}, amount : Nat, total : Nat,
                                 owed : Nat, yes : Nat, no : Nat]
           /\ Counted(p, b).status = p.status /\ Counted(p, b).who = p.who
           /\ Counted(p, b).amount = p.amount /\ Counted(p, b).total = p.total
           /\ Tally(row, e).yes = Counted(p, b).yes /\ Tally(row, e).no = Counted(p, b).no
<1>1. CASE b = [support |-> TRUE, weight |-> NULL]
  <2>1. e.support = TRUE /\ e.weight = NULL /\ b.support = TRUE /\ b.weight = NULL /\ weightOf(e) = 1
    BY <1>1 DEF weightOf
  <2>2. yes + 1 \in Nat /\ no + 0 = no
    OBVIOUS
  <2>3. Counted(p, b) = [p EXCEPT !.yes = yes + 1]
    BY <2>1 DEF Counted
  <2>4. Tally(row, e).yes = yes + 1 /\ Tally(row, e).no = no + 0
    BY <2>1 DEF Tally
  <2> QED
    BY <2>2, <2>3, <2>4
<1>2. CASE b = [support |-> FALSE, weight |-> 2]
  <2>1. e.support = FALSE /\ e.weight = 2 /\ b.support = FALSE /\ b.weight = 2 /\ weightOf(e) = 2
    <3>1. NULL # 2
      BY FoldAssumption
    <3> QED
      BY <1>2, <3>1 DEF weightOf
  <2>2. no + 2 \in Nat /\ yes + 0 = yes
    OBVIOUS
  <2>3. Counted(p, b) = [p EXCEPT !.no = no + 2]
    <3>1. NULL # 2
      BY FoldAssumption
    <3> QED
      BY <2>1, <3>1 DEF Counted
  <2>4. Tally(row, e).yes = yes + 0 /\ Tally(row, e).no = no + 2
    BY <2>1 DEF Tally
  <2> QED
    BY <2>2, <2>3, <2>4
<1> QED
  BY <1>1, <1>2 DEF Ballots

\* A vote counted on both sides.
LEMMA CountedOK ==
    ASSUME NEW S, NEW p \in Proposed(S), p.status # "none", NEW b \in Ballots, NEW e, NEW row,
           row.yes = p.yes, row.no = p.no, {"yes", "no", "voters"} \subseteq DOMAIN row,
           e.support = b.support, e.weight = b.weight
    PROVE  /\ Counted(p, b) \in Proposed(S) /\ p.who \in Addresses
           /\ Counted(p, b).status = p.status /\ Counted(p, b).who = p.who
           /\ Counted(p, b).amount = p.amount /\ Counted(p, b).total = p.total
           /\ Tally(row, e).yes = Counted(p, b).yes /\ Tally(row, e).no = Counted(p, b).no
<1> DEFINE R == [status : S, who : Addresses \cup {NULL}, amount : Nat, total : Nat, owed : Nat,
                 yes : Nat, no : Nat]
<1>1. p \in R /\ p.who \in Addresses /\ p.yes \in Nat /\ p.no \in Nat
  BY DEF Proposed
<1>2. /\ Counted(p, b) \in R
      /\ Counted(p, b).status = p.status /\ Counted(p, b).who = p.who
      /\ Counted(p, b).amount = p.amount /\ Counted(p, b).total = p.total
      /\ Tally(row, e).yes = Counted(p, b).yes /\ Tally(row, e).no = Counted(p, b).no
  BY <1>1, CountedSame
<1>3. Counted(p, b) \in Proposed(S)
  BY <1>1, <1>2 DEF Proposed
<1> QED
  BY <1>1, <1>2, <1>3

LEMMA LoanVoteMirrors ==
    ASSUME NEW d, NEW e, NEW c \in Contracts, NEW l \in Loans, NEW b \in Ballots,
           TablesOK(d), EventOK(e), Mirrors(d, c), e.symbol = "loan_vote", e.nr = l,
           e.support = b.support, e.weight = b.weight, c.loan[l].status = "pending"
    PROVE  LET row == Counted(c.loan[l], b)
           IN  row \in LoanStates /\ Mirrors(applyEvent(d, e), [c EXCEPT !.loan[l] = row])
<1> DEFINE p    == c.loan[l]
           row  == Counted(p, b)
           old  == d.proposals[l]
           drow == Tally(old, e)
           x    == applyEvent(d, e)
<1>1. /\ p \in LoanStates /\ l \in DOMAIN d.proposals /\ l \notin DOMAIN d.loans
      /\ old \in ProposalRows /\ old.status = "pending" /\ old.borrower = p.who
      /\ old.amount = p.amount /\ old.total = p.total /\ old.yes = p.yes /\ old.no = p.no
  BY PendingIs
<1>2. {"yes", "no", "voters"} \subseteq DOMAIN old /\ p.status # "none"
  BY <1>1 DEF ProposalRows
<1>3. /\ drow.status = old.status /\ drow.borrower = old.borrower
      /\ drow.amount = old.amount /\ drow.total = old.total
  BY <1>1 DEF Tally, ProposalRows
<1>4. x = loan_vote(d, e)
  BY DEF applyEvent
<1> HIDE DEF x
<1>5. /\ Only(d, x, {"proposals"}) /\ RowOnly(d.proposals, x.proposals, l)
      /\ HasRow(x.proposals, l, drow)
  BY <1>1, <1>4, LoanVoteMeans
<1> HIDE DEF p, old
<1>6. /\ row \in LoanStates /\ row.status = p.status /\ row.who = p.who
      /\ row.amount = p.amount /\ row.total = p.total
      /\ drow.yes = row.yes /\ drow.no = row.no
  BY <1>1, <1>2, CountedOK DEF LoanStates
<1> HIDE DEF row, drow
<1>7. p.status = "pending"
  BY DEF p
<1>8. Mirrors(x, [c EXCEPT !.loan[l] = row])
  BY <1>1, <1>3, <1>5, <1>6, <1>7, UnlentMirrors
<1> QED
  BY <1>6, <1>8 DEF x, row, p

\* What mirroring says of a treasury proposal that was made.
LEMMA ProposedIs ==
    ASSUME NEW d, NEW c \in Contracts, NEW t \in Treasuries, Mirrors(d, c), TablesOK(d),
           c.treasury[t].status # "none"
    PROVE  /\ c.treasury[t] \in TreasuryStates /\ c.treasury[t].who \in Addresses
           /\ t \in DOMAIN d.treasury /\ d.treasury[t] \in TreasuryRows
           /\ d.treasury[t].status = c.treasury[t].status
           /\ d.treasury[t].yes = c.treasury[t].yes /\ d.treasury[t].no = c.treasury[t].no
<1>1. MirrorsTreasury(d, c, t)
  BY DEF Mirrors
<1>2. c.treasury[t] \in TreasuryStates
  BY DEF Contracts
<1>3. t \in DOMAIN d.treasury
  BY <1>1 DEF MirrorsTreasury
<1>4. d.treasury[t] \in TreasuryRows
  BY <1>3 DEF TablesOK, IsTable
<1>5. c.treasury[t].who \in Addresses
  BY <1>2 DEF TreasuryStates, Proposed
<1> QED
  BY <1>1, <1>2, <1>3, <1>4, <1>5 DEF MirrorsTreasury

\* It gets a new row on both sides, and the rows agree.
LEMMA TreasuryRowMirrors ==
    ASSUME NEW d, NEW x, NEW c \in Contracts, NEW t \in Treasuries, NEW row \in TreasuryStates, NEW drow,
           Mirrors(d, c), Only(d, x, {"treasury"}), RowOnly(d.treasury, x.treasury, t),
           HasRow(x.treasury, t, drow), row.status # "none",
           drow.status = row.status, drow.yes = row.yes, drow.no = row.no
    PROVE  Mirrors(x, [c EXCEPT !.treasury[t] = row])
<1> DEFINE k == [c EXCEPT !.treasury[t] = row]
<1>1. k.treasury[t] = row
  BY DEF Contracts
<1>2. t \in DOMAIN x.treasury /\ x.treasury[t] = drow
  BY DEF HasRow
<1>3. MirrorsTreasury(x, k, t)
  BY <1>1, <1>2 DEF MirrorsTreasury
<1> HIDE DEF k
<1>4. Mirrors(x, k)
  BY <1>3, TreasuryMirrors DEF k
<1> QED
  BY <1>4 DEF k

\* The events about a treasury proposal.
LEMMA TrePropMirrors ==
    ASSUME NEW d, NEW e, NEW c \in Contracts, NEW t \in Treasuries, NEW a \in Addresses,
           TablesOK(d), EventOK(e), Mirrors(d, c), e.symbol = "tre_prop", e.nr = t,
           c.treasury[t].status = "none"
    PROVE  LET row == [c.treasury[t] EXCEPT !.status = "pending", !.who = a, !.amount = 1]
           IN  row \in TreasuryStates /\ Mirrors(applyEvent(d, e), [c EXCEPT !.treasury[t] = row])
<1> DEFINE p    == c.treasury[t]
           row  == [p EXCEPT !.status = "pending", !.who = a, !.amount = 1]
           drow == [amount |-> e.amount, destination |-> e.who, status |-> "pending",
                    yes |-> 0, no |-> 0, voters |-> 0]
           x    == applyEvent(d, e)
<1>1. p \in TreasuryStates /\ p.yes = 0 /\ p.no = 0
  BY DEF Contracts, TreasuryStates, Proposed
<1>2. row \in TreasuryStates /\ row.status = "pending" /\ row.yes = 0 /\ row.no = 0
  BY <1>1 DEF TreasuryStates, Proposed
<1>3. MirrorsTreasury(d, c, t)
  BY DEF Mirrors
<1>4. t \notin DOMAIN d.treasury
  BY <1>3 DEF MirrorsTreasury
<1>5. x = tre_prop(d, e)
  BY DEF applyEvent
<1> HIDE DEF x
<1>6. /\ Only(d, x, {"treasury"}) /\ RowOnly(d.treasury, x.treasury, t)
      /\ HasRow(x.treasury, t, drow)
  BY <1>4, <1>5, TrePropMeans
<1>7. drow.status = "pending" /\ drow.yes = 0 /\ drow.no = 0
  OBVIOUS
<1> HIDE DEF row, drow, p
<1>8. Mirrors(x, [c EXCEPT !.treasury[t] = row])
  BY <1>2, <1>6, <1>7, TreasuryRowMirrors
<1> QED
  BY <1>2, <1>8 DEF x, row, p

LEMMA TreVoteMirrors ==
    ASSUME NEW d, NEW e, NEW c \in Contracts, NEW t \in Treasuries, NEW b \in Ballots,
           TablesOK(d), EventOK(e), Mirrors(d, c), e.symbol = "tre_vote", e.nr = t,
           e.support = b.support, e.weight = b.weight, c.treasury[t].status = "pending"
    PROVE  LET row == Counted(c.treasury[t], b)
           IN  row \in TreasuryStates /\ Mirrors(applyEvent(d, e), [c EXCEPT !.treasury[t] = row])
<1> DEFINE p    == c.treasury[t]
           row  == Counted(p, b)
           old  == d.treasury[t]
           drow == Tally(old, e)
           x    == applyEvent(d, e)
<1>1. /\ p \in TreasuryStates /\ t \in DOMAIN d.treasury /\ old \in TreasuryRows
      /\ old.status = p.status /\ old.yes = p.yes /\ old.no = p.no
  BY ProposedIs
<1>2. {"yes", "no", "voters"} \subseteq DOMAIN old /\ p.status # "none"
  BY <1>1 DEF TreasuryRows
<1>3. drow.status = old.status
  BY <1>1 DEF Tally, TreasuryRows
<1>4. x = tre_vote(d, e)
  BY DEF applyEvent
<1> HIDE DEF x
<1>5. /\ Only(d, x, {"treasury"}) /\ RowOnly(d.treasury, x.treasury, t)
      /\ HasRow(x.treasury, t, drow)
  BY <1>1, <1>4, TreVoteMeans
<1> HIDE DEF p, old
<1>6. /\ row \in TreasuryStates /\ row.status = p.status
      /\ drow.yes = row.yes /\ drow.no = row.no
  BY <1>1, <1>2, CountedOK DEF TreasuryStates
<1> HIDE DEF row, drow
<1>7. Mirrors(x, [c EXCEPT !.treasury[t] = row])
  BY <1>1, <1>2, <1>3, <1>5, <1>6, TreasuryRowMirrors
<1> QED
  BY <1>6, <1>7 DEF x, row, p

LEMMA RevealedMirrors ==
    ASSUME NEW d, NEW e, NEW c \in Contracts, NEW t \in Treasuries, NEW b \in Ballots,
           TablesOK(d), EventOK(e), Mirrors(d, c), e.symbol = "revealed", e.nr = t,
           e.support = b.support, e.weight = b.weight, c.treasury[t].status = "pending"
    PROVE  LET row == Counted(c.treasury[t], b)
           IN  row \in TreasuryStates /\ Mirrors(applyEvent(d, e), [c EXCEPT !.treasury[t] = row])
<1> DEFINE p    == c.treasury[t]
           row  == Counted(p, b)
           old  == d.treasury[t]
           drow == Tally(old, e)
           x    == applyEvent(d, e)
<1>1. /\ p \in TreasuryStates /\ t \in DOMAIN d.treasury /\ old \in TreasuryRows
      /\ old.status = p.status /\ old.yes = p.yes /\ old.no = p.no
  BY ProposedIs
<1>2. {"yes", "no", "voters"} \subseteq DOMAIN old /\ p.status # "none"
  BY <1>1 DEF TreasuryRows
<1>3. drow.status = old.status
  BY <1>1 DEF Tally, TreasuryRows
<1>4. x = revealed(d, e)
  BY DEF applyEvent
<1> HIDE DEF x
<1>5. /\ Only(d, x, {"treasury"}) /\ RowOnly(d.treasury, x.treasury, t)
      /\ HasRow(x.treasury, t, drow)
  BY <1>1, <1>4, RevealedMeans
<1> HIDE DEF p, old
<1>6. /\ row \in TreasuryStates /\ row.status = p.status
      /\ drow.yes = row.yes /\ drow.no = row.no
  BY <1>1, <1>2, CountedOK DEF TreasuryStates
<1> HIDE DEF row, drow
<1>7. Mirrors(x, [c EXCEPT !.treasury[t] = row])
  BY <1>1, <1>2, <1>3, <1>5, <1>6, TreasuryRowMirrors
<1> QED
  BY <1>6, <1>7 DEF x, row, p

LEMMA TreWaitMirrors ==
    ASSUME NEW d, NEW e, NEW c \in Contracts, NEW t \in Treasuries,
           TablesOK(d), EventOK(e), Mirrors(d, c), e.symbol = "tre_wait", e.nr = t,
           c.treasury[t].status = "pending"
    PROVE  LET row == [c.treasury[t] EXCEPT !.status = "approved_pending_disbursement"]
           IN  row \in TreasuryStates /\ Mirrors(applyEvent(d, e), [c EXCEPT !.treasury[t] = row])
<1> DEFINE p    == c.treasury[t]
           row  == [p EXCEPT !.status = "approved_pending_disbursement"]
           drow == [d.treasury[t] EXCEPT !.status = "approved_pending_disbursement"]
           x    == applyEvent(d, e)
<1>1. /\ p \in TreasuryStates /\ p.who \in Addresses /\ t \in DOMAIN d.treasury
      /\ d.treasury[t] \in TreasuryRows /\ d.treasury[t].status = p.status
      /\ d.treasury[t].yes = p.yes /\ d.treasury[t].no = p.no
  BY ProposedIs
<1>2. row \in TreasuryStates /\ row.status = "approved_pending_disbursement" /\ row.yes = p.yes /\ row.no = p.no
  BY <1>1 DEF TreasuryStates, Proposed
<1>3. drow.status = "approved_pending_disbursement" /\ drow.yes = p.yes /\ drow.no = p.no
  BY <1>1 DEF TreasuryRows
<1>4. x = tre_wait(d, e)
  BY DEF applyEvent
<1> HIDE DEF x
<1>5. /\ Only(d, x, {"treasury"}) /\ RowOnly(d.treasury, x.treasury, t)
      /\ HasRow(x.treasury, t, drow)
  BY <1>1, <1>4, TreWaitMeans DEF Pending
<1> HIDE DEF row, drow, p
<1>6. Mirrors(x, [c EXCEPT !.treasury[t] = row])
  BY <1>2, <1>3, <1>5, TreasuryRowMirrors
<1> QED
  BY <1>2, <1>6 DEF x, row, p

LEMMA TreRejMirrors ==
    ASSUME NEW d, NEW e, NEW c \in Contracts, NEW t \in Treasuries,
           TablesOK(d), EventOK(e), Mirrors(d, c), e.symbol = "tre_rej", e.nr = t,
           c.treasury[t].status = "pending"
    PROVE  LET row == [c.treasury[t] EXCEPT !.status = "rejected"]
           IN  row \in TreasuryStates /\ Mirrors(applyEvent(d, e), [c EXCEPT !.treasury[t] = row])
<1> DEFINE p    == c.treasury[t]
           row  == [p EXCEPT !.status = "rejected"]
           drow == [d.treasury[t] EXCEPT !.status = "rejected"]
           x    == applyEvent(d, e)
<1>1. /\ p \in TreasuryStates /\ p.who \in Addresses /\ t \in DOMAIN d.treasury
      /\ d.treasury[t] \in TreasuryRows /\ d.treasury[t].status = p.status
      /\ d.treasury[t].yes = p.yes /\ d.treasury[t].no = p.no
  BY ProposedIs
<1>2. row \in TreasuryStates /\ row.status = "rejected" /\ row.yes = p.yes /\ row.no = p.no
  BY <1>1 DEF TreasuryStates, Proposed
<1>3. drow.status = "rejected" /\ drow.yes = p.yes /\ drow.no = p.no
  BY <1>1 DEF TreasuryRows
<1>4. x = tre_rej(d, e)
  BY DEF applyEvent
<1> HIDE DEF x
<1>5. /\ Only(d, x, {"treasury"}) /\ RowOnly(d.treasury, x.treasury, t)
      /\ HasRow(x.treasury, t, drow)
  BY <1>1, <1>4, TreRejMeans DEF Pending
<1> HIDE DEF row, drow, p
<1>6. Mirrors(x, [c EXCEPT !.treasury[t] = row])
  BY <1>2, <1>3, <1>5, TreasuryRowMirrors
<1> QED
  BY <1>2, <1>6 DEF x, row, p

LEMMA TreExecMirrors ==
    ASSUME NEW d, NEW e, NEW c \in Contracts, NEW t \in Treasuries,
           TablesOK(d), EventOK(e), Mirrors(d, c), e.symbol = "tre_exec", e.nr = t,
           c.treasury[t].status # "none"
    PROVE  LET row == [c.treasury[t] EXCEPT !.status = "executed"]
           IN  row \in TreasuryStates /\ Mirrors(applyEvent(d, e), [c EXCEPT !.treasury[t] = row])
<1> DEFINE p    == c.treasury[t]
           row  == [p EXCEPT !.status = "executed"]
           drow == [d.treasury[t] EXCEPT !.status = "executed"]
           x    == applyEvent(d, e)
<1>1. /\ p \in TreasuryStates /\ p.who \in Addresses /\ t \in DOMAIN d.treasury
      /\ d.treasury[t] \in TreasuryRows /\ d.treasury[t].status = p.status
      /\ d.treasury[t].yes = p.yes /\ d.treasury[t].no = p.no
  BY ProposedIs
<1>2. row \in TreasuryStates /\ row.status = "executed" /\ row.yes = p.yes /\ row.no = p.no
  BY <1>1 DEF TreasuryStates, Proposed
<1>3. drow.status = "executed" /\ drow.yes = p.yes /\ drow.no = p.no
  BY <1>1 DEF TreasuryRows
<1>4. x = tre_exec(d, e)
  BY DEF applyEvent
<1> HIDE DEF x
<1>5. /\ Only(d, x, {"treasury"}) /\ RowOnly(d.treasury, x.treasury, t)
      /\ HasRow(x.treasury, t, drow)
  BY <1>1, <1>4, TreExecMeans
<1> HIDE DEF row, drow, p
<1>6. Mirrors(x, [c EXCEPT !.treasury[t] = row])
  BY <1>2, <1>3, <1>5, TreasuryRowMirrors
<1> QED
  BY <1>2, <1>6 DEF x, row, p

\* An event that moves a loan and its borrower.
LEMMA LentMirrors ==
    ASSUME NEW d, NEW x, NEW c \in Contracts, NEW k, NEW l \in Loans, NEW a \in Addresses, Mirrors(d, c),
           Aside(d, x), x.totals.interest = d.totals.interest,
           RowOnly(d.proposals, x.proposals, l), RowOnly(d.loans, x.loans, l),
           RowOnly(d.members, x.members, a),
           RowOnly(c.loan, k.loan, l), RowOnly(c.member, k.member, a),
           k.treasury = c.treasury, k.interest = c.interest,
           MirrorsLoan(x, k, l), MirrorsMember(x, k, a)
    PROVE  Mirrors(x, k)
<1>1. /\ LoansMirror(d, c) /\ TreasuriesMirror(d, c) /\ MembersMirror(d, c)
      /\ d.totals.interest = c.interest
  BY MirrorsIs
<1>2. DOMAIN c.loan = Loans /\ DOMAIN c.member = Addresses
  BY DEF Contracts
<1>3. LoansMirror(x, k)
  BY <1>1, <1>2, LoansMirrored
<1>4. TreasuriesMirror(x, k)
  BY <1>1, TreasuriesAsBefore DEF Aside
<1>5. MembersMirror(x, k)
  BY <1>1, <1>2, MembersMirrored
<1> QED
  BY <1>1, <1>3, <1>4, <1>5, MirrorsIs

LEMMA SameRows == ASSUME NEW t, NEW k PROVE RowOnly(t, t, k)
BY DEF RowOnly

\* What mirroring says of a running loan.
LEMMA ActiveIs ==
    ASSUME NEW d, NEW c \in Contracts, NEW l \in Loans, Mirrors(d, c), TablesOK(d),
           c.loan[l].status = "active"
    PROVE  LET p   == c.loan[l]
               row == d.proposals[l]
               run == d.loans[l]
           IN  /\ p \in LoanStates /\ p.who \in Addresses
               /\ l \in DOMAIN d.proposals /\ l \in DOMAIN d.loans /\ run \in LoanRows
               /\ row.status = "approved" /\ row.borrower = p.who
               /\ row.amount = p.amount /\ row.total = p.total /\ row.yes = p.yes /\ row.no = p.no
               /\ run.status = "active" /\ run.outstanding = p.owed /\ run.amount = p.amount
<1>1. MirrorsLoan(d, c, l)
  BY DEF Mirrors
<1>2. c.loan[l] \in LoanStates
  BY DEF Contracts
<1>3. l \in DOMAIN d.loans /\ l \in DOMAIN d.proposals
  BY <1>1 DEF MirrorsLoan
<1>4. d.loans[l] \in LoanRows
  BY <1>3 DEF TablesOK, IsTable
<1>5. c.loan[l].who \in Addresses
  BY <1>2 DEF LoanStates, Proposed
<1> QED
  BY <1>1, <1>2, <1>3, <1>4, <1>5 DEF MirrorsLoan

\* The borrower's row is there on both sides, or on neither that matters.
LEMMA BorrowerMirrors ==
    ASSUME NEW d, NEW x, NEW c \in Contracts, NEW k, NEW a \in Addresses, NEW m \in MemberStates,
           Mirrors(d, c), k.member[a] = m, m.in = c.member[a].in, m.stake = c.member[a].stake,
           SameKeys(d.members, x.members),
           a \in DOMAIN d.members =>
             /\ x.members[a].exited = d.members[a].exited
             /\ x.members[a].stake = d.members[a].stake
             /\ x.members[a].contribution = m.contribution
             /\ x.members[a].has_active_loan = m.loan
    PROVE  MirrorsMember(x, k, a)
<1>1. /\ c.member[a].in => a \in DOMAIN d.members
      /\ a \in DOMAIN d.members =>
           /\ d.members[a].exited = ~c.member[a].in
           /\ d.members[a].stake = c.member[a].stake
  BY MemberIs
<1>2. DOMAIN x.members = DOMAIN d.members
  BY DEF SameKeys
<1> QED
  BY <1>1, <1>2 DEF MirrorsMember

\* Disbursement: proposal, loan and borrower change together.
LEMMA LoanApprMirrors ==
    ASSUME NEW d, NEW e, NEW c \in Contracts, NEW l \in Loans, NEW a \in Addresses,
           TablesOK(d), EventOK(e), Mirrors(d, c), e.symbol = "loan_appr", e.nr = l,
           c.loan[l].status \in {"pending", "approved_pending_disbursement"}, c.loan[l].who = a,
           e.who = a, e.amount = c.loan[l].amount, c.member[a].in
    PROVE  LET k == [c EXCEPT !.loan[l].status = "active", !.loan[l].owed = c.loan[l].total,
                              !.member[a].loan = TRUE]
           IN  k \in Contracts /\ k.loan[l].status = "active" /\ RowOnly(c.loan, k.loan, l)
               /\ Mirrors(applyEvent(d, e), k)
<1> DEFINE p    == c.loan[l]
           row  == [p EXCEPT !.status = "active", !.owed = p.total]
           m    == [c.member[a] EXCEPT !.loan = TRUE]
           k    == [c EXCEPT !.loan[l] = row, !.member[a] = m]
           old  == d.proposals[l]
           prow == [old EXCEPT !.status = "approved"]
           drow == [borrower |-> e.who, amount |-> e.amount, total |-> old.total,
                    outstanding |-> old.total, status |-> "active", approved_ledger |-> e.id,
                    repaid_ledger |-> NULL, defaulted_ledger |-> NULL]
           mrow == [d.members[a] EXCEPT !.has_active_loan = TRUE]
           x    == applyEvent(d, e)
<1>1. /\ p \in LoanStates /\ l \in DOMAIN d.proposals /\ l \notin DOMAIN d.loans
      /\ old \in ProposalRows /\ old.borrower = p.who
      /\ old.amount = p.amount /\ old.total = p.total /\ old.yes = p.yes /\ old.no = p.no
  BY PendingIs
<1>2. /\ row \in LoanStates /\ row.status = "active" /\ row.who = p.who /\ row.amount = p.amount
      /\ row.total = p.total /\ row.owed = p.total /\ row.yes = p.yes /\ row.no = p.no
  BY <1>1 DEF LoanStates, Proposed
<1>3. /\ c.member[a] \in MemberStates /\ a \in DOMAIN d.members
      /\ d.members[a].contribution = c.member[a].contribution
  BY MemberIs
<1>4. /\ m \in MemberStates /\ m.in = c.member[a].in /\ m.stake = c.member[a].stake
      /\ m.contribution = c.member[a].contribution /\ m.loan = TRUE
  BY <1>3 DEF MemberStates
<1>5. x = loan_appr(d, e)
  BY DEF applyEvent
<1> HIDE DEF x
<1>6. ApprovedEffect(d, e, x)
  BY <1>5, LoanApprMeans
<1>7. /\ Aside(d, x) /\ RowOnly(d.proposals, x.proposals, l) /\ HasRow(x.proposals, l, prow)
      /\ RowOnly(d.loans, x.loans, l) /\ HasRow(x.loans, l, drow)
      /\ RowOnly(d.members, x.members, a) /\ SameKeys(d.members, x.members)
      /\ HasRow(x.members, a, mrow)
  BY <1>1, <1>3, <1>6 DEF ApprovedEffect
<1>8. x.totals.interest = d.totals.interest
  BY <1>6 DEF ApprovedEffect, TablesOK, TotalsRows
<1>9. /\ l \in DOMAIN x.proposals /\ x.proposals[l].status = "approved"
      /\ x.proposals[l].borrower = p.who /\ x.proposals[l].amount = p.amount
      /\ x.proposals[l].total = p.total /\ x.proposals[l].yes = p.yes /\ x.proposals[l].no = p.no
  BY <1>1, <1>7 DEF HasRow, ProposalRows
<1>10. /\ l \in DOMAIN x.loans /\ x.loans[l].status = "active" /\ x.loans[l].outstanding = p.total
       /\ x.loans[l].amount = p.amount
  BY <1>1, <1>7 DEF HasRow
<1>11. /\ x.members[a].exited = d.members[a].exited /\ x.members[a].stake = d.members[a].stake
       /\ x.members[a].contribution = d.members[a].contribution /\ x.members[a].has_active_loan = TRUE
  <2>1. d.members[a] \in MemberRows
    BY <1>3 DEF TablesOK, IsTable
  <2>2. x.members[a] = mrow
    BY <1>7 DEF HasRow
  <2> QED
    BY <2>1, <2>2 DEF MemberRows
<1> HIDE DEF row, m, drow, prow, mrow, old
<1>12. /\ k \in Contracts /\ k.loan[l] = row /\ k.member[a] = m
       /\ RowOnly(c.loan, k.loan, l) /\ RowOnly(c.member, k.member, a)
       /\ k.treasury = c.treasury /\ k.interest = c.interest
  BY <1>2, <1>4 DEF Contracts, RowOnly
<1> HIDE DEF k, p
<1>13. MirrorsLoan(x, k, l)
  BY <1>2, <1>9, <1>10, <1>12 DEF MirrorsLoan
<1>14. MirrorsMember(x, k, a)
  BY <1>3, <1>4, <1>7, <1>11, <1>12, BorrowerMirrors
<1>15. Mirrors(x, k)
  BY <1>7, <1>8, <1>12, <1>13, <1>14, LentMirrors
<1>16. k.loan[l].status = "active"
  BY <1>2, <1>12
<1>17. k = [c EXCEPT !.loan[l].status = "active", !.loan[l].owed = c.loan[l].total,
                     !.member[a].loan = TRUE]
  BY DEF Contracts, k, row, m, p
<1> QED
  BY <1>12, <1>15, <1>16, <1>17 DEF x

\* A repayment that leaves something owed.
LEMMA LoanPaidMirrors ==
    ASSUME NEW d, NEW e, NEW c \in Contracts, NEW l \in Loans,
           TablesOK(d), EventOK(e), Mirrors(d, c), e.symbol = "loan_rpy", e.nr = l,
           c.loan[l].status = "active", e.who = c.loan[l].who, e.amount = 1
    PROVE  LET row == [c.loan[l] EXCEPT !.owed = 1]
           IN  row \in LoanStates /\ Mirrors(applyEvent(d, e), [c EXCEPT !.loan[l] = row])
<1> DEFINE p    == c.loan[l]
           row  == [p EXCEPT !.owed = 1]
           k    == [c EXCEPT !.loan[l] = row]
           x    == applyEvent(d, e)
<1>1. /\ p \in LoanStates /\ p.who \in Addresses
      /\ l \in DOMAIN d.proposals /\ l \in DOMAIN d.loans /\ d.loans[l] \in LoanRows
      /\ d.proposals[l].status = "approved" /\ d.proposals[l].borrower = p.who
      /\ d.proposals[l].amount = p.amount /\ d.proposals[l].total = p.total
      /\ d.proposals[l].yes = p.yes /\ d.proposals[l].no = p.no
      /\ d.loans[l].amount = p.amount
  BY ActiveIs
<1>2. /\ row \in LoanStates /\ row.status = "active" /\ row.who = p.who /\ row.amount = p.amount
      /\ row.total = p.total /\ row.owed = 1 /\ row.yes = p.yes /\ row.no = p.no
  BY <1>1 DEF LoanStates, Proposed
<1>3. x = loan_rpy(d, e)
  BY DEF applyEvent
<1> HIDE DEF x
<1>4. RepaidEffect(d, e, x)
  BY <1>3, LoanRpyMeans
<1> DEFINE drow == [d.loans[l] EXCEPT !.outstanding = e.amount,
                            !.status = IF e.amount = 0 THEN "repaid" ELSE "active",
                            !.repaid_ledger = IF e.amount = 0 THEN e.id ELSE @]
<1>5. /\ Aside(d, x) /\ x.proposals = d.proposals /\ x.members = d.members
      /\ RowOnly(d.loans, x.loans, l) /\ HasRow(x.loans, l, drow)
  BY <1>1, <1>4 DEF RepaidEffect
<1>6. x.totals.interest = d.totals.interest
  BY <1>4 DEF RepaidEffect, TablesOK, TotalsRows
<1>7. /\ l \in DOMAIN x.loans /\ x.loans[l].status = "active" /\ x.loans[l].outstanding = 1
      /\ x.loans[l].amount = p.amount
  BY <1>1, <1>5 DEF HasRow, LoanRows
<1> HIDE DEF row, drow, p
<1>8. /\ k.loan[l] = row /\ RowOnly(c.loan, k.loan, l) /\ k.member = c.member
      /\ k.treasury = c.treasury /\ k.interest = c.interest
  BY DEF Contracts, RowOnly
<1> HIDE DEF k
<1>9. MirrorsLoan(x, k, l)
  BY <1>1, <1>2, <1>5, <1>7, <1>8 DEF MirrorsLoan
<1>10. /\ LoansMirror(d, c) /\ TreasuriesMirror(d, c) /\ MembersMirror(d, c)
       /\ d.totals.interest = c.interest
  BY MirrorsIs
<1>11. LoansMirror(x, k)
  <2>1. DOMAIN c.loan = Loans
    BY DEF Contracts
  <2>2. RowOnly(d.proposals, x.proposals, l)
    BY <1>5, SameRows
  <2> QED
    BY <1>5, <1>8, <1>9, <1>10, <2>1, <2>2, LoansMirrored
<1>12. TreasuriesMirror(x, k)
  BY <1>5, <1>8, <1>10, TreasuriesAsBefore DEF Aside
<1>13. MembersMirror(x, k)
  BY <1>5, <1>8, <1>10, MembersAsBefore
<1>14. Mirrors(x, k)
  BY <1>6, <1>8, <1>10, <1>11, <1>12, <1>13, MirrorsIs
<1> QED
  BY <1>2, <1>14 DEF x, k, row, p

\* The repayment that clears a loan.
LEMMA LoanRepaidMirrors ==
    ASSUME NEW d, NEW e, NEW c \in Contracts, NEW l \in Loans, NEW a \in Addresses,
           TablesOK(d), EventOK(e), Mirrors(d, c), e.symbol = "loan_rpy", e.nr = l,
           c.loan[l].status = "active", c.loan[l].who = a, e.who = a, e.amount = 0
    PROVE  LET row == [c.loan[l] EXCEPT !.status = "repaid", !.owed = 0]
               k   == [c EXCEPT !.loan[l] = row, !.member[a].loan = FALSE,
                                !.member[a].contribution = c.member[a].contribution]
           IN  k \in Contracts /\ k.loan[l] = row /\ RowOnly(c.loan, k.loan, l)
               /\ Mirrors(applyEvent(d, e), k)
<1> DEFINE p    == c.loan[l]
           row  == [p EXCEPT !.status = "repaid", !.owed = 0]
           m    == [c.member[a] EXCEPT !.loan = FALSE, !.contribution = c.member[a].contribution]
           k    == [c EXCEPT !.loan[l] = row, !.member[a] = m]
           drow == [d.loans[l] EXCEPT !.outstanding = e.amount,
                            !.status = IF e.amount = 0 THEN "repaid" ELSE "active",
                            !.repaid_ledger = IF e.amount = 0 THEN e.id ELSE @]
           mrow == [d.members[a] EXCEPT !.has_active_loan = FALSE]
           x    == applyEvent(d, e)
<1>1. /\ p \in LoanStates /\ p.who \in Addresses
      /\ l \in DOMAIN d.proposals /\ l \in DOMAIN d.loans /\ d.loans[l] \in LoanRows
      /\ d.proposals[l].status = "approved" /\ d.proposals[l].borrower = p.who
      /\ d.proposals[l].amount = p.amount /\ d.proposals[l].total = p.total
      /\ d.proposals[l].yes = p.yes /\ d.proposals[l].no = p.no
      /\ d.loans[l].status = "active" /\ d.loans[l].outstanding = p.owed /\ d.loans[l].amount = p.amount
  BY ActiveIs
<1>2. /\ row \in LoanStates /\ row.status = "repaid" /\ row.who = p.who /\ row.amount = p.amount
      /\ row.total = p.total /\ row.owed = 0 /\ row.yes = p.yes /\ row.no = p.no
  BY <1>1 DEF LoanStates, Proposed
<1>3. /\ c.member[a] \in MemberStates
      /\ a \in DOMAIN d.members => d.members[a].contribution = c.member[a].contribution
  BY MemberIs
<1>4. /\ m \in MemberStates /\ m.in = c.member[a].in /\ m.stake = c.member[a].stake
      /\ m.contribution = c.member[a].contribution /\ m.loan = FALSE
  BY <1>3 DEF MemberStates
<1>5. x = loan_rpy(d, e)
  BY DEF applyEvent
<1> HIDE DEF x
<1>6. RepaidEffect(d, e, x)
  BY <1>5, LoanRpyMeans
<1>7. /\ Aside(d, x) /\ x.proposals = d.proposals
      /\ RowOnly(d.loans, x.loans, l) /\ HasRow(x.loans, l, drow)
      /\ RowOnly(d.members, x.members, a) /\ SameKeys(d.members, x.members)
      /\ a \in DOMAIN d.members => HasRow(x.members, a, mrow)
  BY <1>1, <1>6 DEF RepaidEffect
<1>8. x.totals.interest = d.totals.interest
  BY <1>1, <1>6 DEF RepaidEffect, TablesOK, TotalsRows
<1>9. /\ l \in DOMAIN x.loans /\ x.loans[l].status = "repaid" /\ x.loans[l].outstanding = 0
      /\ x.loans[l].amount = p.amount
  BY <1>1, <1>7 DEF HasRow, LoanRows
<1>10. ASSUME a \in DOMAIN d.members
       PROVE  /\ x.members[a].exited = d.members[a].exited /\ x.members[a].stake = d.members[a].stake
              /\ x.members[a].contribution = c.member[a].contribution
              /\ x.members[a].has_active_loan = FALSE
  <2>1. d.members[a] \in MemberRows
    BY <1>10 DEF TablesOK, IsTable
  <2>2. x.members[a] = mrow
    BY <1>7, <1>10 DEF HasRow
  <2> QED
    BY <1>3, <1>10, <2>1, <2>2 DEF MemberRows
<1> HIDE DEF row, m, drow, mrow
<1>11. /\ k \in Contracts /\ k.loan[l] = row /\ k.member[a] = m
       /\ RowOnly(c.loan, k.loan, l) /\ RowOnly(c.member, k.member, a)
       /\ k.treasury = c.treasury /\ k.interest = c.interest
  BY <1>2, <1>4 DEF Contracts, RowOnly
<1> HIDE DEF k, p
<1>12. MirrorsLoan(x, k, l)
  BY <1>1, <1>2, <1>7, <1>9, <1>11 DEF MirrorsLoan
<1>13. MirrorsMember(x, k, a)
  BY <1>4, <1>7, <1>10, <1>11, BorrowerMirrors
<1>14. Mirrors(x, k)
  <2>1. RowOnly(d.proposals, x.proposals, l)
    BY <1>7, SameRows
  <2> QED
    BY <1>7, <1>8, <1>11, <1>12, <1>13, <2>1, LentMirrors
<1>15. k = [c EXCEPT !.loan[l] = row, !.member[a].loan = FALSE,
                     !.member[a].contribution = c.member[a].contribution]
  BY DEF Contracts, k, m
<1> QED
  BY <1>11, <1>14, <1>15 DEF x, row, p

\* A loan defaults: its borrower pays for it.
LEMMA LoanDfltMirrors ==
    ASSUME NEW d, NEW e, NEW c \in Contracts, NEW l \in Loans, NEW a \in Addresses,
           TablesOK(d), EventOK(e), Mirrors(d, c), e.symbol = "loan_dflt", e.nr = l,
           c.loan[l].status = "active", c.loan[l].who = a, e.who = a
    PROVE  LET row == [c.loan[l] EXCEPT !.status = "defaulted"]
               k   == [c EXCEPT !.loan[l] = row, !.member[a].loan = FALSE,
                                !.member[a].contribution = Monus(c.member[a].contribution, e.amount)]
           IN  k \in Contracts /\ k.loan[l] = row /\ RowOnly(c.loan, k.loan, l)
               /\ Mirrors(applyEvent(d, e), k)
<1> DEFINE p    == c.loan[l]
           row  == [p EXCEPT !.status = "defaulted"]
           m    == [c.member[a] EXCEPT !.loan = FALSE, !.contribution = Monus(c.member[a].contribution, e.amount)]
           k    == [c EXCEPT !.loan[l] = row, !.member[a] = m]
           drow == [d.loans[l] EXCEPT !.status = "defaulted", !.defaulted_ledger = e.id]
           mrow == [d.members[a] EXCEPT !.contribution = Monus(@, e.amount), !.defaults = @ + 1,
                                     !.has_active_loan = FALSE]
           x    == applyEvent(d, e)
<1>1. /\ p \in LoanStates /\ p.who \in Addresses
      /\ l \in DOMAIN d.proposals /\ l \in DOMAIN d.loans /\ d.loans[l] \in LoanRows
      /\ d.proposals[l].status = "approved" /\ d.proposals[l].borrower = p.who
      /\ d.proposals[l].amount = p.amount /\ d.proposals[l].total = p.total
      /\ d.proposals[l].yes = p.yes /\ d.proposals[l].no = p.no
      /\ d.loans[l].status = "active" /\ d.loans[l].outstanding = p.owed /\ d.loans[l].amount = p.amount
  BY ActiveIs
<1>2. /\ row \in LoanStates /\ row.status = "defaulted" /\ row.who = p.who /\ row.amount = p.amount
      /\ row.total = p.total /\ row.owed = p.owed /\ row.yes = p.yes /\ row.no = p.no
  BY <1>1 DEF LoanStates, Proposed
<1>3. /\ c.member[a] \in MemberStates
      /\ a \in DOMAIN d.members => d.members[a].contribution = c.member[a].contribution
  BY MemberIs
<1>4. /\ m \in MemberStates /\ m.in = c.member[a].in /\ m.stake = c.member[a].stake
      /\ m.contribution = Monus(c.member[a].contribution, e.amount) /\ m.loan = FALSE
  <2>1. Monus(c.member[a].contribution, e.amount) \in Nat
    BY <1>3 DEF MemberStates, Monus, EventOK, Amounts
  <2> QED
    BY <1>3, <2>1 DEF MemberStates
<1>5. x = loan_dflt(d, e)
  BY DEF applyEvent
<1> HIDE DEF x
<1>6. DefaultedEffect(d, e, x)
  BY <1>5, LoanDfltMeans
<1>7. /\ Aside(d, x) /\ x.proposals = d.proposals
      /\ RowOnly(d.loans, x.loans, l) /\ HasRow(x.loans, l, drow)
      /\ RowOnly(d.members, x.members, a) /\ SameKeys(d.members, x.members)
      /\ a \in DOMAIN d.members => HasRow(x.members, a, mrow)
  BY <1>1, <1>6 DEF DefaultedEffect
<1>8. x.totals.interest = d.totals.interest
  BY <1>1, <1>6 DEF DefaultedEffect, TablesOK, TotalsRows
<1>9. /\ l \in DOMAIN x.loans /\ x.loans[l].status = "defaulted" /\ x.loans[l].outstanding = p.owed
      /\ x.loans[l].amount = p.amount
  BY <1>1, <1>7 DEF HasRow, LoanRows
<1>10. ASSUME a \in DOMAIN d.members
       PROVE  /\ x.members[a].exited = d.members[a].exited /\ x.members[a].stake = d.members[a].stake
              /\ x.members[a].contribution = Monus(c.member[a].contribution, e.amount)
              /\ x.members[a].has_active_loan = FALSE
  <2>1. d.members[a] \in MemberRows
    BY <1>10 DEF TablesOK, IsTable
  <2>2. x.members[a] = mrow
    BY <1>7, <1>10 DEF HasRow
  <2> QED
    BY <1>3, <1>10, <2>1, <2>2 DEF MemberRows
<1> HIDE DEF row, m, drow, mrow
<1>11. /\ k \in Contracts /\ k.loan[l] = row /\ k.member[a] = m
       /\ RowOnly(c.loan, k.loan, l) /\ RowOnly(c.member, k.member, a)
       /\ k.treasury = c.treasury /\ k.interest = c.interest
  BY <1>2, <1>4 DEF Contracts, RowOnly
<1> HIDE DEF k, p
<1>12. MirrorsLoan(x, k, l)
  BY <1>1, <1>2, <1>7, <1>9, <1>11 DEF MirrorsLoan
<1>13. MirrorsMember(x, k, a)
  BY <1>4, <1>7, <1>10, <1>11, BorrowerMirrors
<1>14. Mirrors(x, k)
  <2>1. RowOnly(d.proposals, x.proposals, l)
    BY <1>7, SameRows
  <2> QED
    BY <1>7, <1>8, <1>11, <1>12, <1>13, <2>1, LentMirrors
<1>15. k = [c EXCEPT !.loan[l] = row, !.member[a].loan = FALSE,
                     !.member[a].contribution = Monus(c.member[a].contribution, e.amount)]
  BY DEF Contracts, k, m
<1> QED
  BY <1>11, <1>14, <1>15 DEF x, row, p

\* Interest: the primary key of interest_distributions keeps a redelivery out of the
\* total.
LEMMA InterestMirrors ==
    ASSUME NEW d, NEW e, NEW c \in Contracts, TablesOK(d), EventOK(e), Mirrors(d, c),
           e.symbol = "interest", e.amount = 1, e.id \notin DOMAIN d.interest
    PROVE  LET k == [c EXCEPT !.interest = @ + 1]
           IN  k \in Contracts /\ k.loan = c.loan /\ Mirrors(applyEvent(d, e), k)
<1> DEFINE k == [c EXCEPT !.interest = @ + 1]
           x == applyEvent(d, e)
<1>1. /\ k \in Contracts /\ k.loan = c.loan /\ k.member = c.member /\ k.treasury = c.treasury
      /\ k.interest = c.interest + 1
  BY DEF Contracts
<1>2. x = interest(d, e)
  BY DEF applyEvent
<1> HIDE DEF x
<1>3. /\ Only(d, x, {"interest", "totals"})
      /\ x.totals.interest = IF e.id \in DOMAIN d.interest THEN d.totals.interest
                             ELSE d.totals.interest + e.amount
  BY <1>2, InterestMeans
<1>4. /\ x.members = d.members /\ x.proposals = d.proposals /\ x.loans = d.loans
      /\ x.treasury = d.treasury
  BY <1>3 DEF Only, TableNames
<1>5. /\ LoansMirror(d, c) /\ TreasuriesMirror(d, c) /\ MembersMirror(d, c)
      /\ d.totals.interest = c.interest
  BY MirrorsIs
<1> HIDE DEF k
<1>6. LoansMirror(x, k) /\ TreasuriesMirror(x, k) /\ MembersMirror(x, k)
  BY <1>1, <1>4, <1>5, LoansAsBefore, TreasuriesAsBefore, MembersAsBefore
<1>7. x.totals.interest = k.interest
  BY <1>1, <1>3, <1>5
<1> QED
  BY <1>1, <1>6, <1>7, MirrorsIs DEF x, k

-----------------------------------------------------------------------------
\* A step of the contract from c to k, with the event e that it publishes: the event can
\* be read or its fold throws, a closed loan stays closed, an event that closes a loan
\* finds it running, and the fold follows the contract.

\* The events the contract publishes.
Events ==
    [id : Nat, symbol : Handled \cup {"policy"}, nr : Loans \cup Treasuries \cup {NULL},
     who : Addresses \cup {NULL},
     amount : Nat \cup {NULL}, total : Nat \cup {NULL}, support : {TRUE, FALSE, NULL},
     weight : Nat \cup {NULL}, bad : SUBSET {"who", "amount"}]

\* A closed loan stays closed.
Kept(c, k) ==
    \A l \in Loans : c.loan[l].status \in {"repaid", "defaulted"} => k.loan[l].status = c.loan[l].status

\* An event that closes a loan finds it running.
Closes(c, k, e) ==
    Closing(e) =>
        /\ e.nr \in Loans /\ c.loan[e.nr].status = "active"
        /\ k.loan[e.nr].status = IF e.symbol = "loan_dflt" THEN "defaulted" ELSE "repaid"

\* Folding e into any tables that mirror c gives tables that mirror k.
Mirrored(c, k, e) ==
    \A d : TablesOK(d) /\ Mirrors(d, c) /\ e.id \notin DOMAIN d.interest => Mirrors(applyEvent(d, e), k)

\* A step of the contract with its event.
Transition(c, k, e) ==
    /\ k \in Contracts
    /\ Throws(e) \/ (EventOK(e) /\ Mirrored(c, k, e))
    /\ Kept(c, k)
    /\ Closes(c, k, e)

\* A step that changes one row of the contract and closes no loan.
LEMMA MemberTransition ==
    ASSUME NEW c \in Contracts, NEW a \in Addresses, NEW row \in MemberStates, NEW e, NEW k,
           k = [c EXCEPT !.member[a] = row], EventOK(e), ~Closing(e), Mirrored(c, k, e)
    PROVE  Transition(c, k, e)
<1>1. k \in Contracts /\ k.loan = c.loan
  BY MemberSet
<1> QED
  BY <1>1 DEF Transition, Kept, Closes

LEMMA LoanTransition ==
    ASSUME NEW c \in Contracts, NEW l \in Loans, NEW row \in LoanStates, NEW e, NEW k,
           k = [c EXCEPT !.loan[l] = row], c.loan[l].status \notin {"repaid", "defaulted"},
           EventOK(e), ~Closing(e), Mirrored(c, k, e)
    PROVE  Transition(c, k, e)
<1>1. k \in Contracts /\ RowOnly(c.loan, k.loan, l) /\ DOMAIN c.loan = Loans
  BY LoanSet DEF Contracts
<1>2. \A m \in Loans \ {l} : k.loan[m] = c.loan[m]
  BY <1>1 DEF RowOnly
<1>3. Kept(c, k)
  BY <1>2 DEF Kept
<1> QED
  BY <1>1, <1>3 DEF Transition, Closes

LEMMA TreasuryTransition ==
    ASSUME NEW c \in Contracts, NEW t \in Treasuries, NEW row \in TreasuryStates, NEW e, NEW k,
           k = [c EXCEPT !.treasury[t] = row], EventOK(e), ~Closing(e), Mirrored(c, k, e)
    PROVE  Transition(c, k, e)
<1>1. k \in Contracts /\ k.loan = c.loan
  BY TreasurySetTo
<1> QED
  BY <1>1 DEF Transition, Kept, Closes

LEMMA StillTransition ==
    ASSUME NEW c \in Contracts, NEW e, EventOK(e), ~Closing(e), Mirrored(c, c, e)
    PROVE  Transition(c, c, e)
BY DEF Transition, Kept, Closes

\* The steps, one lemma per event.
LEMMA JoinedStep ==
    ASSUME NEW c \in Contracts, NEW e \in Events, NEW a \in Addresses,
           e.symbol = "joined", e.who = a, e.amount = Fee, ~c.member[a].in
    PROVE  Transition(c, [c EXCEPT !.member[a] = [c.member[a] EXCEPT !.in = TRUE, !.contribution = Fee]], e)
<1> DEFINE row == [c.member[a] EXCEPT !.in = TRUE, !.contribution = Fee]
           k   == [c EXCEPT !.member[a] = row]
<1>1. EventOK(e) /\ ~Closing(e)
  BY DEF EventOK, Events, Names, Amounts, Closing, Fee
<1>2. row \in MemberStates
  <2>1. c.member[a] \in MemberStates
    BY DEF Contracts
  <2> QED
    BY <2>1 DEF MemberStates, Fee
<1>3. Mirrored(c, k, e)
  BY <1>1, JoinedMirrors DEF Mirrored
<1> HIDE DEF row
<1>4. Transition(c, k, e)
  BY <1>1, <1>2, <1>3, MemberTransition
<1> QED
  BY <1>4 DEF row

LEMMA ExitedStep ==
    ASSUME NEW c \in Contracts, NEW e \in Events, NEW a \in Addresses,
           e.symbol = "exited", e.who = a, c.member[a].in
    PROVE  Transition(c, [c EXCEPT !.member[a] = [Outsider EXCEPT !.contribution = c.member[a].contribution]], e)
<1> DEFINE row == [Outsider EXCEPT !.contribution = c.member[a].contribution]
           k   == [c EXCEPT !.member[a] = row]
<1>1. EventOK(e) /\ ~Closing(e)
  BY DEF EventOK, Events, Names, Amounts, Closing
<1>2. row \in MemberStates
  <2>1. c.member[a] \in MemberStates
    BY DEF Contracts
  <2> QED
    BY <2>1 DEF MemberStates, Outsider
<1>3. Mirrored(c, k, e)
  BY <1>1, ExitedMirrors DEF Mirrored
<1> HIDE DEF row
<1>4. Transition(c, k, e)
  BY <1>1, <1>2, <1>3, MemberTransition
<1> QED
  BY <1>4 DEF row

LEMMA StakedStep ==
    ASSUME NEW c \in Contracts, NEW e \in Events, NEW a \in Addresses,
           e.symbol = "staked", e.who = a, e.amount = c.member[a].stake + 1,
           e.amount \in Nat, c.member[a].in
    PROVE  Transition(c, [c EXCEPT !.member[a] = [c.member[a] EXCEPT !.stake = @ + 1]], e)
<1> DEFINE row == [c.member[a] EXCEPT !.stake = @ + 1]
           k   == [c EXCEPT !.member[a] = row]
<1>1. EventOK(e) /\ ~Closing(e)
  BY DEF EventOK, Events, Names, Amounts, Closing
<1>2. row \in MemberStates
  <2>1. c.member[a] \in MemberStates
    BY DEF Contracts
  <2>2. c.member[a].stake + 1 \in Nat
    BY <2>1 DEF MemberStates
  <2> QED
    BY <2>1, <2>2 DEF MemberStates
<1>3. Mirrored(c, k, e)
  BY <1>1, StakedMirrors DEF Mirrored
<1> HIDE DEF row
<1>4. Transition(c, k, e)
  BY <1>1, <1>2, <1>3, MemberTransition
<1> QED
  BY <1>4 DEF row

LEMMA UnstakedStep ==
    ASSUME NEW c \in Contracts, NEW e \in Events, NEW a \in Addresses,
           e.symbol = "unstaked", e.who = a, e.amount = c.member[a].stake - 1,
           e.amount \in Nat, c.member[a].stake > 0
    PROVE  Transition(c, [c EXCEPT !.member[a] = [c.member[a] EXCEPT !.stake = @ - 1]], e)
<1> DEFINE row == [c.member[a] EXCEPT !.stake = @ - 1]
           k   == [c EXCEPT !.member[a] = row]
<1>1. EventOK(e) /\ ~Closing(e)
  BY DEF EventOK, Events, Names, Amounts, Closing
<1>2. row \in MemberStates
  <2>1. c.member[a] \in MemberStates
    BY DEF Contracts
  <2>2. c.member[a].stake - 1 \in Nat
    BY <2>1 DEF MemberStates
  <2> QED
    BY <2>1, <2>2 DEF MemberStates
<1>3. Mirrored(c, k, e)
  BY <1>1, UnstakedMirrors DEF Mirrored
<1> HIDE DEF row
<1>4. Transition(c, k, e)
  BY <1>1, <1>2, <1>3, MemberTransition
<1> QED
  BY <1>4 DEF row

LEMMA ClaimedStep ==
    ASSUME NEW c \in Contracts, NEW e \in Events, NEW a \in Addresses,
           e.symbol = "claimed", e.who = a, e.amount = 1
    PROVE  Transition(c, [c EXCEPT !.member[a] = c.member[a]], e)
<1> DEFINE row == c.member[a]
           k   == [c EXCEPT !.member[a] = row]
<1>1. EventOK(e) /\ ~Closing(e)
  BY DEF EventOK, Events, Names, Amounts, Closing
<1>2. row \in MemberStates
  BY DEF Contracts
<1>3. Mirrored(c, k, e)
  BY <1>1, ClaimedMirrors DEF Mirrored
<1> HIDE DEF row
<1>4. Transition(c, k, e)
  BY <1>1, <1>2, <1>3, MemberTransition
<1> QED
  BY <1>4 DEF row

LEMMA NameRegStep ==
    ASSUME NEW c \in Contracts, NEW e \in Events, NEW a \in Addresses,
           e.symbol = "name_reg", e.who = a
    PROVE  Transition(c, [c EXCEPT !.member[a] = c.member[a]], e)
<1> DEFINE row == c.member[a]
           k   == [c EXCEPT !.member[a] = row]
<1>1. EventOK(e) /\ ~Closing(e)
  BY DEF EventOK, Events, Names, Amounts, Closing
<1>2. row \in MemberStates
  BY DEF Contracts
<1>3. Mirrored(c, k, e)
  BY <1>1, NameRegMirrors DEF Mirrored
<1> HIDE DEF row
<1>4. Transition(c, k, e)
  BY <1>1, <1>2, <1>3, MemberTransition
<1> QED
  BY <1>4 DEF row

LEMMA LoanReqStep ==
    ASSUME NEW c \in Contracts, NEW e \in Events, NEW l \in Loans, NEW a \in Addresses,
           e.symbol = "loan_req", e.nr = l, e.who = a, e.amount = Asked.amount,
           e.total = Asked.total, c.loan[l].status = "none"
    PROVE  Transition(c, [c EXCEPT !.loan[l] = [c.loan[l] EXCEPT !.status = "pending", !.who = a,
                    !.amount = Asked.amount, !.total = Asked.total]], e)
<1> DEFINE row == [c.loan[l] EXCEPT !.status = "pending", !.who = a,
                    !.amount = Asked.amount, !.total = Asked.total]
           k   == [c EXCEPT !.loan[l] = row]
<1>1. EventOK(e) /\ ~Closing(e)
  BY DEF EventOK, Events, Names, Amounts, Closing, Asked
<1>2. row \in LoanStates
  <2>1. c.loan[l] \in LoanStates
    BY DEF Contracts
  <2> QED
    BY <2>1 DEF LoanStates, Proposed, Asked
<1>3. Mirrored(c, k, e)
  BY <1>1, LoanReqMirrors DEF Mirrored
<1> HIDE DEF row
<1>4. Transition(c, k, e)
  BY <1>1, <1>2, <1>3, LoanTransition
<1> QED
  BY <1>4 DEF row

LEMMA LoanEditStep ==
    ASSUME NEW c \in Contracts, NEW e \in Events, NEW l \in Loans,
           e.symbol = "loan_edit", e.nr = l, e.amount = Edited.amount, e.total = Edited.total,
           c.loan[l].status = "pending"
    PROVE  Transition(c, [c EXCEPT !.loan[l] = [c.loan[l] EXCEPT !.amount = Edited.amount, !.total = Edited.total]], e)
<1> DEFINE row == [c.loan[l] EXCEPT !.amount = Edited.amount, !.total = Edited.total]
           k   == [c EXCEPT !.loan[l] = row]
<1>1. EventOK(e) /\ ~Closing(e)
  BY DEF EventOK, Events, Names, Amounts, Closing, Edited
<1>2. row \in LoanStates
  <2>1. c.loan[l] \in LoanStates
    BY DEF Contracts
  <2> QED
    BY <2>1 DEF LoanStates, Proposed, Edited
<1>3. Mirrored(c, k, e)
  BY <1>1, LoanEditMirrors DEF Mirrored
<1> HIDE DEF row
<1>4. Transition(c, k, e)
  BY <1>1, <1>2, <1>3, LoanTransition
<1> QED
  BY <1>4 DEF row

LEMMA LoanWaitStep ==
    ASSUME NEW c \in Contracts, NEW e \in Events, NEW l \in Loans,
           e.symbol = "loan_wait", e.nr = l, e.who = c.loan[l].who, c.loan[l].status = "pending"
    PROVE  Transition(c, [c EXCEPT !.loan[l] = [c.loan[l] EXCEPT !.status = "approved_pending_disbursement"]], e)
<1> DEFINE row == [c.loan[l] EXCEPT !.status = "approved_pending_disbursement"]
           k   == [c EXCEPT !.loan[l] = row]
<1>1. EventOK(e) /\ ~Closing(e)
  BY DEF EventOK, Events, Names, Amounts, Closing, Contracts, LoanStates, Proposed
<1>2. row \in LoanStates
  <2>1. c.loan[l] \in LoanStates
    BY DEF Contracts
  <2> QED
    BY <2>1 DEF LoanStates, Proposed
<1>3. Mirrored(c, k, e)
  BY <1>1, LoanWaitMirrors DEF Mirrored
<1> HIDE DEF row
<1>4. Transition(c, k, e)
  BY <1>1, <1>2, <1>3, LoanTransition
<1> QED
  BY <1>4 DEF row

LEMMA LoanRejStep ==
    ASSUME NEW c \in Contracts, NEW e \in Events, NEW l \in Loans,
           e.symbol = "loan_rej", e.nr = l, e.who = c.loan[l].who, c.loan[l].status = "pending"
    PROVE  Transition(c, [c EXCEPT !.loan[l] = [c.loan[l] EXCEPT !.status = "rejected"]], e)
<1> DEFINE row == [c.loan[l] EXCEPT !.status = "rejected"]
           k   == [c EXCEPT !.loan[l] = row]
<1>1. EventOK(e) /\ ~Closing(e)
  BY DEF EventOK, Events, Names, Amounts, Closing, Contracts, LoanStates, Proposed
<1>2. row \in LoanStates
  <2>1. c.loan[l] \in LoanStates
    BY DEF Contracts
  <2> QED
    BY <2>1 DEF LoanStates, Proposed
<1>3. Mirrored(c, k, e)
  BY <1>1, LoanRejMirrors DEF Mirrored
<1> HIDE DEF row
<1>4. Transition(c, k, e)
  BY <1>1, <1>2, <1>3, LoanTransition
<1> QED
  BY <1>4 DEF row

LEMMA LoanExpStep ==
    ASSUME NEW c \in Contracts, NEW e \in Events, NEW l \in Loans,
           e.symbol = "loan_exp", e.nr = l, e.who = c.loan[l].who, c.loan[l].status = "pending"
    PROVE  Transition(c, [c EXCEPT !.loan[l] = [c.loan[l] EXCEPT !.status = "rejected"]], e)
<1> DEFINE row == [c.loan[l] EXCEPT !.status = "rejected"]
           k   == [c EXCEPT !.loan[l] = row]
<1>1. EventOK(e) /\ ~Closing(e)
  BY DEF EventOK, Events, Names, Amounts, Closing, Contracts, LoanStates, Proposed
<1>2. row \in LoanStates
  <2>1. c.loan[l] \in LoanStates
    BY DEF Contracts
  <2> QED
    BY <2>1 DEF LoanStates, Proposed
<1>3. Mirrored(c, k, e)
  BY <1>1, LoanExpMirrors DEF Mirrored
<1> HIDE DEF row
<1>4. Transition(c, k, e)
  BY <1>1, <1>2, <1>3, LoanTransition
<1> QED
  BY <1>4 DEF row

LEMMA LoanPaidStep ==
    ASSUME NEW c \in Contracts, NEW e \in Events, NEW l \in Loans,
           e.symbol = "loan_rpy", e.nr = l, e.who = c.loan[l].who, e.amount = 1,
           c.loan[l].status = "active"
    PROVE  Transition(c, [c EXCEPT !.loan[l] = [c.loan[l] EXCEPT !.owed = 1]], e)
<1> DEFINE row == [c.loan[l] EXCEPT !.owed = 1]
           k   == [c EXCEPT !.loan[l] = row]
<1>1. EventOK(e) /\ ~Closing(e)
  BY DEF EventOK, Events, Names, Amounts, Closing, Contracts, LoanStates, Proposed
<1>2. row \in LoanStates
  <2>1. c.loan[l] \in LoanStates
    BY DEF Contracts
  <2> QED
    BY <2>1 DEF LoanStates, Proposed
<1>3. Mirrored(c, k, e)
  BY <1>1, LoanPaidMirrors DEF Mirrored
<1> HIDE DEF row
<1>4. Transition(c, k, e)
  BY <1>1, <1>2, <1>3, LoanTransition
<1> QED
  BY <1>4 DEF row

\* A vote leaves the contract's proposal in its type.
LEMMA CountedSets ==
    ASSUME NEW S, NEW p \in Proposed(S), p.status # "none", NEW b \in Ballots
    PROVE  Counted(p, b) \in Proposed(S)
<1> DEFINE row == [yes |-> p.yes, no |-> p.no, voters |-> 0]
<1>1. row.yes = p.yes /\ row.no = p.no /\ {"yes", "no", "voters"} \subseteq DOMAIN row
  OBVIOUS
<1> HIDE DEF row
<1> QED
  BY <1>1, CountedOK

LEMMA LoanVoteStep ==
    ASSUME NEW c \in Contracts, NEW e \in Events, NEW l \in Loans, NEW b \in Ballots,
           e.symbol = "loan_vote", e.nr = l, e.support = b.support, e.weight = b.weight,
           e.support \in BOOLEAN, c.loan[l].status = "pending"
    PROVE  Transition(c, [c EXCEPT !.loan[l] = Counted(c.loan[l], b)], e)
<1> DEFINE row == Counted(c.loan[l], b)
           k   == [c EXCEPT !.loan[l] = row]
<1>1. EventOK(e) /\ ~Closing(e)
  BY DEF EventOK, Events, Names, Amounts, Closing
<1>2. row \in LoanStates
  <2>1. c.loan[l] \in LoanStates
    BY DEF Contracts
  <2> QED
    BY <2>1, CountedSets DEF LoanStates
<1>3. Mirrored(c, k, e)
  BY <1>1, LoanVoteMirrors DEF Mirrored
<1> HIDE DEF row
<1>4. Transition(c, k, e)
  BY <1>1, <1>2, <1>3, LoanTransition
<1> QED
  BY <1>4 DEF row

LEMMA TrePropStep ==
    ASSUME NEW c \in Contracts, NEW e \in Events, NEW t \in Treasuries, NEW a \in Addresses,
           e.symbol = "tre_prop", e.nr = t, e.who = a, e.amount = 1, c.treasury[t].status = "none"
    PROVE  Transition(c, [c EXCEPT !.treasury[t] = [c.treasury[t] EXCEPT !.status = "pending", !.who = a, !.amount = 1]], e)
<1> DEFINE row == [c.treasury[t] EXCEPT !.status = "pending", !.who = a, !.amount = 1]
           k   == [c EXCEPT !.treasury[t] = row]
<1>1. EventOK(e) /\ ~Closing(e)
  BY DEF EventOK, Events, Names, Amounts, Closing
<1>2. row \in TreasuryStates
  <2>1. c.treasury[t] \in TreasuryStates
    BY DEF Contracts
  <2> QED
    BY <2>1 DEF TreasuryStates, Proposed
<1>3. Mirrored(c, k, e)
  BY <1>1, TrePropMirrors DEF Mirrored
<1> HIDE DEF row
<1>4. Transition(c, k, e)
  BY <1>1, <1>2, <1>3, TreasuryTransition
<1> QED
  BY <1>4 DEF row

LEMMA TreVoteStep ==
    ASSUME NEW c \in Contracts, NEW e \in Events, NEW t \in Treasuries, NEW b \in Ballots,
           e.symbol = "tre_vote", e.nr = t, e.support = b.support, e.weight = b.weight,
           e.support \in BOOLEAN, c.treasury[t].status = "pending"
    PROVE  Transition(c, [c EXCEPT !.treasury[t] = Counted(c.treasury[t], b)], e)
<1> DEFINE row == Counted(c.treasury[t], b)
           k   == [c EXCEPT !.treasury[t] = row]
<1>1. EventOK(e) /\ ~Closing(e)
  BY DEF EventOK, Events, Names, Amounts, Closing
<1>2. row \in TreasuryStates
  <2>1. c.treasury[t] \in TreasuryStates
    BY DEF Contracts
  <2> QED
    BY <2>1, CountedSets DEF TreasuryStates
<1>3. Mirrored(c, k, e)
  BY <1>1, TreVoteMirrors DEF Mirrored
<1> HIDE DEF row
<1>4. Transition(c, k, e)
  BY <1>1, <1>2, <1>3, TreasuryTransition
<1> QED
  BY <1>4 DEF row

LEMMA RevealedStep ==
    ASSUME NEW c \in Contracts, NEW e \in Events, NEW t \in Treasuries, NEW b \in Ballots,
           e.symbol = "revealed", e.nr = t, e.support = b.support, e.weight = b.weight,
           e.support \in BOOLEAN, c.treasury[t].status = "pending"
    PROVE  Transition(c, [c EXCEPT !.treasury[t] = Counted(c.treasury[t], b)], e)
<1> DEFINE row == Counted(c.treasury[t], b)
           k   == [c EXCEPT !.treasury[t] = row]
<1>1. EventOK(e) /\ ~Closing(e)
  BY DEF EventOK, Events, Names, Amounts, Closing
<1>2. row \in TreasuryStates
  <2>1. c.treasury[t] \in TreasuryStates
    BY DEF Contracts
  <2> QED
    BY <2>1, CountedSets DEF TreasuryStates
<1>3. Mirrored(c, k, e)
  BY <1>1, RevealedMirrors DEF Mirrored
<1> HIDE DEF row
<1>4. Transition(c, k, e)
  BY <1>1, <1>2, <1>3, TreasuryTransition
<1> QED
  BY <1>4 DEF row

LEMMA TreWaitStep ==
    ASSUME NEW c \in Contracts, NEW e \in Events, NEW t \in Treasuries,
           e.symbol = "tre_wait", e.nr = t, e.who = c.treasury[t].who, c.treasury[t].status = "pending"
    PROVE  Transition(c, [c EXCEPT !.treasury[t] = [c.treasury[t] EXCEPT !.status = "approved_pending_disbursement"]], e)
<1> DEFINE row == [c.treasury[t] EXCEPT !.status = "approved_pending_disbursement"]
           k   == [c EXCEPT !.treasury[t] = row]
<1>1. EventOK(e) /\ ~Closing(e)
  BY DEF EventOK, Events, Names, Amounts, Closing, Contracts, TreasuryStates, Proposed
<1>2. row \in TreasuryStates
  <2>1. c.treasury[t] \in TreasuryStates
    BY DEF Contracts
  <2> QED
    BY <2>1 DEF TreasuryStates, Proposed
<1>3. Mirrored(c, k, e)
  BY <1>1, TreWaitMirrors DEF Mirrored
<1> HIDE DEF row
<1>4. Transition(c, k, e)
  BY <1>1, <1>2, <1>3, TreasuryTransition
<1> QED
  BY <1>4 DEF row

LEMMA TreRejStep ==
    ASSUME NEW c \in Contracts, NEW e \in Events, NEW t \in Treasuries,
           e.symbol = "tre_rej", e.nr = t, e.who = c.treasury[t].who, c.treasury[t].status = "pending"
    PROVE  Transition(c, [c EXCEPT !.treasury[t] = [c.treasury[t] EXCEPT !.status = "rejected"]], e)
<1> DEFINE row == [c.treasury[t] EXCEPT !.status = "rejected"]
           k   == [c EXCEPT !.treasury[t] = row]
<1>1. EventOK(e) /\ ~Closing(e)
  BY DEF EventOK, Events, Names, Amounts, Closing, Contracts, TreasuryStates, Proposed
<1>2. row \in TreasuryStates
  <2>1. c.treasury[t] \in TreasuryStates
    BY DEF Contracts
  <2> QED
    BY <2>1 DEF TreasuryStates, Proposed
<1>3. Mirrored(c, k, e)
  BY <1>1, TreRejMirrors DEF Mirrored
<1> HIDE DEF row
<1>4. Transition(c, k, e)
  BY <1>1, <1>2, <1>3, TreasuryTransition
<1> QED
  BY <1>4 DEF row

LEMMA TreExecStep ==
    ASSUME NEW c \in Contracts, NEW e \in Events, NEW t \in Treasuries,
           e.symbol = "tre_exec", e.nr = t, e.who = c.treasury[t].who, c.treasury[t].status # "none"
    PROVE  Transition(c, [c EXCEPT !.treasury[t] = [c.treasury[t] EXCEPT !.status = "executed"]], e)
<1> DEFINE row == [c.treasury[t] EXCEPT !.status = "executed"]
           k   == [c EXCEPT !.treasury[t] = row]
<1>1. EventOK(e) /\ ~Closing(e)
  BY DEF EventOK, Events, Names, Amounts, Closing, Contracts, TreasuryStates, Proposed
<1>2. row \in TreasuryStates
  <2>1. c.treasury[t] \in TreasuryStates
    BY DEF Contracts
  <2> QED
    BY <2>1 DEF TreasuryStates, Proposed
<1>3. Mirrored(c, k, e)
  BY <1>1, TreExecMirrors DEF Mirrored
<1> HIDE DEF row
<1>4. Transition(c, k, e)
  BY <1>1, <1>2, <1>3, TreasuryTransition
<1> QED
  BY <1>4 DEF row

LEMMA LoanApprStep ==
    ASSUME NEW c \in Contracts, NEW e \in Events, NEW l \in Loans, NEW a \in Addresses,
           e.symbol = "loan_appr", e.nr = l, e.who = a, e.amount = c.loan[l].amount,
           c.loan[l].status \in {"pending", "approved_pending_disbursement"}, c.loan[l].who = a,
           c.member[a].in
    PROVE  Transition(c, [c EXCEPT !.loan[l].status = "active", !.loan[l].owed = c.loan[l].total,
                                   !.member[a].loan = TRUE], e)
<1> DEFINE p   == c.loan[l]
           row == [p EXCEPT !.status = "active", !.owed = p.total]
           m   == [c.member[a] EXCEPT !.loan = TRUE]
           k   == [c EXCEPT !.loan[l].status = "active", !.loan[l].owed = p.total,
                            !.member[a].loan = TRUE]
<1>1. p \in LoanStates /\ c.member[a] \in MemberStates
  BY DEF Contracts
<1>2. EventOK(e) /\ ~Closing(e)
  BY <1>1 DEF EventOK, Events, Names, Amounts, Closing, LoanStates, Proposed
<1>3. row \in LoanStates /\ m \in MemberStates
  BY <1>1 DEF LoanStates, Proposed, MemberStates
<1>4. k = [c EXCEPT !.loan[l] = row, !.member[a] = m]
  BY ZenonT(40) DEF Contracts
<1>5. Mirrored(c, k, e)
  BY <1>2, LoanApprMirrors DEF Mirrored
<1> HIDE DEF row, m, k
<1>6. k \in Contracts /\ \A n \in Loans \ {l} : k.loan[n] = c.loan[n]
  BY <1>3, <1>4 DEF Contracts
<1>7. Kept(c, k)
  BY <1>6 DEF Kept
<1>8. Transition(c, k, e)
  BY <1>2, <1>5, <1>6, <1>7 DEF Transition, Closes
<1> QED
  BY <1>8 DEF k

LEMMA LoanRepaidStep ==
    ASSUME NEW c \in Contracts, NEW e \in Events, NEW l \in Loans, NEW a \in Addresses,
           e.symbol = "loan_rpy", e.nr = l, e.who = a, e.amount = 0,
           c.loan[l].status = "active", c.loan[l].who = a
    PROVE  Transition(c, [c EXCEPT !.loan[l] = [c.loan[l] EXCEPT !.status = "repaid", !.owed = 0],
                                   !.member[a].loan = FALSE,
                                   !.member[a].contribution = c.member[a].contribution], e)
<1> DEFINE p   == c.loan[l]
           row == [p EXCEPT !.status = "repaid", !.owed = 0]
           m   == [c.member[a] EXCEPT !.loan = FALSE, !.contribution = c.member[a].contribution]
           k   == [c EXCEPT !.loan[l] = row, !.member[a].loan = FALSE,
                            !.member[a].contribution = c.member[a].contribution]
<1>1. p \in LoanStates /\ c.member[a] \in MemberStates
  BY DEF Contracts
<1>2. EventOK(e)
  BY <1>1 DEF EventOK, Events, Names, Amounts, LoanStates, Proposed
<1>3. row \in LoanStates /\ m \in MemberStates /\ row.status = "repaid"
  BY <1>1 DEF LoanStates, Proposed, MemberStates
<1>4. k = [c EXCEPT !.loan[l] = row, !.member[a] = m]
  BY DEF Contracts
<1>5. Mirrored(c, k, e)
  BY <1>2, LoanRepaidMirrors DEF Mirrored
<1> HIDE DEF row, m, k
<1>6. k \in Contracts /\ k.loan[l] = row /\ \A n \in Loans \ {l} : k.loan[n] = c.loan[n]
  BY <1>3, <1>4 DEF Contracts
<1>7. Kept(c, k)
  BY <1>6 DEF Kept
<1>8. Closes(c, k, e)
  BY <1>3, <1>6 DEF Closes
<1>9. Transition(c, k, e)
  BY <1>2, <1>5, <1>6, <1>7, <1>8 DEF Transition
<1> QED
  BY <1>9 DEF k, row

LEMMA LoanDfltStep ==
    ASSUME NEW c \in Contracts, NEW e \in Events, NEW l \in Loans, NEW a \in Addresses,
           e.symbol = "loan_dflt", e.nr = l, e.who = a, e.amount \in Nat,
           c.loan[l].status = "active", c.loan[l].who = a
    PROVE  Transition(c, [c EXCEPT !.loan[l] = [c.loan[l] EXCEPT !.status = "defaulted"],
                                   !.member[a].loan = FALSE,
                                   !.member[a].contribution = Monus(c.member[a].contribution, e.amount)], e)
<1> DEFINE p   == c.loan[l]
           n   == Monus(c.member[a].contribution, e.amount)
           row == [p EXCEPT !.status = "defaulted"]
           m   == [c.member[a] EXCEPT !.loan = FALSE, !.contribution = n]
           k   == [c EXCEPT !.loan[l] = row, !.member[a].loan = FALSE, !.member[a].contribution = n]
<1>1. p \in LoanStates /\ c.member[a] \in MemberStates
  BY DEF Contracts
<1>2. EventOK(e)
  BY <1>1 DEF EventOK, Events, Names, Amounts, LoanStates, Proposed
<1>3. n \in Nat
  BY <1>1 DEF MemberStates, Monus
<1>4. Mirrored(c, k, e)
  BY <1>2, LoanDfltMirrors DEF Mirrored
<1> HIDE DEF n
<1>5. row \in LoanStates /\ m \in MemberStates /\ row.status = "defaulted"
  BY <1>1, <1>3 DEF LoanStates, Proposed, MemberStates
<1>6. k = [c EXCEPT !.loan[l] = row, !.member[a] = m]
  BY DEF Contracts
<1> HIDE DEF row, m, k
<1>7. k \in Contracts /\ k.loan[l] = row /\ \A i \in Loans \ {l} : k.loan[i] = c.loan[i]
  BY <1>5, <1>6 DEF Contracts
<1>8. Kept(c, k)
  BY <1>7 DEF Kept
<1>9. Closes(c, k, e)
  BY <1>5, <1>7 DEF Closes
<1>10. Transition(c, k, e)
  BY <1>2, <1>4, <1>7, <1>8, <1>9 DEF Transition
<1> QED
  BY <1>10 DEF k, row, n

\* What the contract does not record: a committed vote, a document's attestation, a symbol
\* without a handler.
LEMMA StillMirrored ==
    ASSUME NEW c, NEW e, EventOK(e), e.symbol \in {"committed", "doc_attn", "policy"}
    PROVE  Mirrored(c, c, e)
<1> SUFFICES ASSUME NEW d, TablesOK(d), Mirrors(d, c) PROVE Mirrors(applyEvent(d, e), c)
  BY DEF Mirrored
<1> DEFINE x == applyEvent(d, e)
<1>1. CASE e.symbol = "committed"
  <2>1. x = committed(d, e)
    BY <1>1 DEF applyEvent
  <2> HIDE DEF x
  <2>2. Only(d, x, {})
    BY <1>1, <2>1, CommittedMeans
  <2>3. Only(d, x, {"documents"})
    BY <2>2 DEF Only
  <2> QED
    BY <2>3, MirrorsStill DEF x
<1>2. CASE e.symbol = "doc_attn"
  <2>1. x = doc_attn(d, e)
    BY <1>2 DEF applyEvent
  <2> HIDE DEF x
  <2>2. Only(d, x, {"documents"})
    BY <2>1, DocAttnMeans
  <2> QED
    BY <2>2, MirrorsStill DEF x
<1>3. CASE e.symbol = "policy"
  <2>1. applyEvent(d, e) = d
    BY <1>3, ApplyOther DEF Handled
  <2> QED
    BY <2>1
<1> QED
  BY <1>1, <1>2, <1>3

LEMMA StillStep ==
    ASSUME NEW c \in Contracts, NEW e \in Events, e.symbol \in {"committed", "doc_attn", "policy"},
           e.symbol = "committed" => "who" \in e.bad \/ e.who \in Addresses
    PROVE  Transition(c, c, e)
<1>1. EventOK(e) /\ ~Closing(e)
  BY DEF EventOK, Events, Names, Amounts, Closing
<1> QED
  BY <1>1, StillMirrored, StillTransition

LEMMA InterestStep ==
    ASSUME NEW c \in Contracts, NEW e \in Events, e.symbol = "interest", e.amount = 1
    PROVE  Transition(c, [c EXCEPT !.interest = @ + 1], e)
<1> DEFINE k == [c EXCEPT !.interest = @ + 1]
<1>1. EventOK(e) /\ ~Closing(e)
  BY DEF EventOK, Events, Names, Amounts, Closing
<1>2. k \in Contracts /\ k.loan = c.loan
  BY DEF Contracts
<1>3. Mirrored(c, k, e)
  BY <1>1, InterestMirrors DEF Mirrored
<1> HIDE DEF k
<1>4. Transition(c, k, e)
  BY <1>1, <1>2, <1>3 DEF Transition, Kept, Closes
<1> QED
  BY <1>4 DEF k

\* A distribution of interest that cannot be read: its fold throws.
LEMMA UnreadableStep ==
    ASSUME NEW c \in Contracts, NEW e, e.symbol = "interest", "amount" \in e.bad
    PROVE  Transition(c, c, e)
<1>1. Required("interest") = {"amount"}
  BY DEF Required
<1>2. Throws(e)
  BY <1>1 DEF Throws
<1>3. ~Closing(e)
  BY DEF Closing
<1> QED
  BY <1>2, <1>3 DEF Transition, Kept, Closes

-----------------------------------------------------------------------------
\* The inductive invariant.

\* Events are numbered in the order of publication, and each can be read or throws.
LogOK(log) ==
    /\ log \in Seq(Events)
    /\ \A i \in 1 .. Len(log) : log[i].id = i /\ (Throws(log[i]) \/ EventOK(log[i]))

\* The contract has closed the loans that the log says are closed.
ClosedFor(log, c) ==
    \A i \in 1 .. Len(log) : Closing(log[i]) =>
        /\ log[i].nr \in Loans
        /\ c.loan[log[i].nr].status = IF log[i].symbol = "loan_dflt" THEN "defaulted" ELSE "repaid"

\* What the contract published, and what a rebuild of all of it would give.
LogInv(log, c) ==
    /\ c \in Contracts
    /\ LogOK(log) /\ ClosesOnce(log) /\ ClosedFor(log, c)
    /\ (\A i \in 1 .. Len(log) : ~Throws(log[i])) => Mirrors(Rebuild(log, Len(log)), c)

\* The tables d came from the rows s of the log.
TablesInv(d, s, log) ==
    /\ s \in Seq(1 .. Len(log))
    /\ \A j \in 1 .. Len(s) : ~Throws(log[s[j]])
    /\ FoldedFrom(d, s, log)
    /\ s = Ident(Len(s)) => d = Rebuild(log, Len(s))

\* The inductive invariant: the log and the contract, the tables and what was folded
\* into them, and where the worker stands.
FoldInv ==
    /\ scenario \in Scenarios
    /\ LogInv(published, contract)
    /\ TablesInv(derived, applied, published)
    /\ pos \in 0 .. Len(published) /\ stored \in 0 .. Len(published)
    /\ open \subseteq 1 .. Len(published)
    /\ reindexed \in Nat

\* A log with one event more.
LEMMA LongerLog ==
    ASSUME NEW log \in Seq(Events), NEW e \in Events
    PROVE  LET more == Append(log, e)
           IN  /\ more \in Seq(Events) /\ Len(log) \in Nat /\ Len(more) = Len(log) + 1
               /\ more[Len(log) + 1] = e
               /\ \A i \in 1 .. Len(log) : more[i] = log[i]
               /\ \A i \in 1 .. Len(more) : i \in 1 .. Len(log) \/ i = Len(log) + 1
OBVIOUS

\* The contract publishes an event.
LEMMA LogGrows ==
    ASSUME NEW log, NEW c, NEW k, NEW e \in Events, LogInv(log, c), e.id = Len(log) + 1,
           Transition(c, k, e)
    PROVE  LogInv(Append(log, e), k)
<1> DEFINE more == Append(log, e)
           n    == Len(log)
<1>1. log \in Seq(Events) /\ c \in Contracts
  BY DEF LogInv, LogOK
<1>2. /\ more \in Seq(Events) /\ n \in Nat /\ Len(more) = n + 1 /\ more[n + 1] = e
      /\ \A i \in 1 .. n : more[i] = log[i]
      /\ \A i \in 1 .. Len(more) : i \in 1 .. n \/ i = n + 1
  BY <1>1, LongerLog
<1>3. k \in Contracts /\ (Throws(e) \/ (EventOK(e) /\ Mirrored(c, k, e))) /\ Kept(c, k) /\ Closes(c, k, e)
  BY DEF Transition
<1>4. \A i \in 1 .. n : log[i].id = i /\ (Throws(log[i]) \/ EventOK(log[i]))
  BY DEF LogInv, LogOK
<1>5. ClosesOnce(log) /\ ClosedFor(log, c)
  BY DEF LogInv
<1> HIDE DEF more
<1>6. LogOK(more)
  BY <1>2, <1>3, <1>4 DEF LogOK
<1>7. ClosedFor(more, k)
  <2> SUFFICES ASSUME NEW i \in 1 .. Len(more), Closing(more[i])
               PROVE  /\ more[i].nr \in Loans
                      /\ k.loan[more[i].nr].status =
                           IF more[i].symbol = "loan_dflt" THEN "defaulted" ELSE "repaid"
    BY DEF ClosedFor
  <2>1. CASE i \in 1 .. n
    <3>1. more[i] = log[i]
      BY <1>2, <2>1
    <3>2. /\ log[i].nr \in Loans
          /\ c.loan[log[i].nr].status = IF log[i].symbol = "loan_dflt" THEN "defaulted" ELSE "repaid"
      BY <1>5, <2>1, <3>1 DEF ClosedFor
    <3>3. k.loan[log[i].nr].status = c.loan[log[i].nr].status
      BY <1>3, <3>2 DEF Kept
    <3> QED
      BY <3>1, <3>2, <3>3
  <2>2. CASE i = n + 1
    BY <1>2, <1>3, <2>2 DEF Closes
  <2> QED
    BY <1>2, <2>1, <2>2
<1>8. ClosesOnce(more)
  <2> SUFFICES ASSUME NEW i \in 1 .. Len(more), NEW j \in 1 .. Len(more),
                      Closing(more[i]), Closing(more[j]),
                      more[i].symbol = more[j].symbol, more[i].nr = more[j].nr
               PROVE  i = j
    BY DEF ClosesOnce
  <2>1. \A m \in 1 .. n : Closing(e) /\ Closing(log[m]) => log[m].nr # e.nr
    BY <1>3, <1>5 DEF Closes, ClosedFor
  <2>2. CASE i \in 1 .. n /\ j \in 1 .. n
    BY <1>2, <1>5, <2>2 DEF ClosesOnce
  <2>3. CASE i \in 1 .. n /\ j = n + 1
    BY <1>2, <2>1, <2>3
  <2>4. CASE i = n + 1 /\ j \in 1 .. n
    BY <1>2, <2>1, <2>4
  <2> QED
    BY <1>2, <2>2, <2>3, <2>4
<1>9. ASSUME \A i \in 1 .. Len(more) : ~Throws(more[i])
      PROVE  Mirrors(Rebuild(more, Len(more)), k)
  <2>1. \A i \in 1 .. n : ~Throws(log[i]) /\ EventOK(log[i])
    BY <1>2, <1>4, <1>9
  <2>2. Mirrors(Rebuild(log, n), c)
    BY <2>1 DEF LogInv
  <2>3. FoldedFrom(Rebuild(log, n), Ident(n), log)
    BY <1>2, <1>5, <2>1, RebuildFolded
  <2>4. TablesOK(Rebuild(log, n))
    BY <2>3 DEF FoldedFrom
  <2>5. e.id \notin DOMAIN Rebuild(log, n).interest
    <3> SUFFICES ASSUME e.id \in DOMAIN Rebuild(log, n).interest PROVE FALSE
      OBVIOUS
    <3>1. PICK j \in 1 .. Len(Ident(n)) : e.id = log[Ident(n)[j]].id
      BY <2>3 DEF FoldedFrom
    <3>2. j \in 1 .. n /\ Ident(n)[j] = j
      BY <1>2, <3>1, IdentIs DEF Ident
    <3>3. log[j].id = j
      BY <1>4, <3>2
    <3> QED
      BY <1>2, <3>1, <3>2, <3>3
  <2>6. EventOK(e) /\ Mirrored(c, k, e)
    <3>1. n + 1 \in 1 .. Len(more)
      BY <1>2
    <3>2. ~Throws(e)
      BY <1>2, <1>9, <3>1
    <3> QED
      BY <1>3, <3>2
  <2>7. Mirrors(applyEvent(Rebuild(log, n), e), k)
    BY <2>2, <2>4, <2>5, <2>6 DEF Mirrored
  <2>8. Rebuild(more, n + 1) = applyEvent(Rebuild(more, n), more[n + 1])
    BY <1>2, RebuildStep
  <2>9. Rebuild(more, n) = Rebuild(log, n)
    BY <1>2, RebuildSame
  <2> QED
    BY <1>2, <2>7, <2>8, <2>9
<1>10. LogInv(more, k)
  BY <1>3, <1>6, <1>7, <1>8, <1>9 DEF LogInv
<1> QED
  BY <1>10 DEF more

\* The tables are what they were.
LEMMA TablesStay ==
    ASSUME NEW d, NEW s, NEW log \in Seq(Events), NEW e \in Events, TablesInv(d, s, log)
    PROVE  TablesInv(d, s, Append(log, e))
<1> DEFINE more == Append(log, e)
           n    == Len(log)
<1>1. /\ n \in Nat /\ Len(more) = n + 1 /\ \A i \in 1 .. n : more[i] = log[i]
  BY LongerLog
<1> HIDE DEF more
<1>2. /\ s \in Seq(1 .. n) /\ FoldedFrom(d, s, log)
      /\ \A j \in 1 .. Len(s) : ~Throws(log[s[j]])
      /\ s = Ident(Len(s)) => d = Rebuild(log, Len(s))
  BY DEF TablesInv
<1>3. s \in Seq(1 .. (n + 1))
  BY <1>1, <1>2
<1>4. \A j \in 1 .. Len(s) : s[j] \in 1 .. n
  BY <1>2
<1>5. \A j \in 1 .. Len(s) : more[s[j]] = log[s[j]]
  BY <1>1, <1>4
<1>6. Len(s) \in Nat
  BY <1>2
<1>7. Traced(d, s, more)
  <2>1. Traced(d, s, log)
    BY <1>2 DEF FoldedFrom
  <2>2. Len(s) > 0 => more[s[Len(s)]] = log[s[Len(s)]]
    BY <1>5, <1>6
  <2> QED
    BY <1>5, <2>1, <2>2 DEF Traced
<1>8. \A x \in DOMAIN d.interest : \E j \in 1 .. Len(s) : x = more[s[j]].id
  BY <1>2, <1>5 DEF FoldedFrom
<1>9. FoldedFrom(d, s, more)
  BY <1>2, <1>7, <1>8 DEF FoldedFrom
<1>10. s = Ident(Len(s)) => d = Rebuild(more, Len(s))
  <2> SUFFICES ASSUME s = Ident(Len(s)) PROVE d = Rebuild(more, Len(s))
    OBVIOUS
  <2>1. \A j \in 1 .. Len(s) : Ident(Len(s))[j] = j
    BY DEF Ident
  <2>2. \A j \in 1 .. Len(s) : s[j] = j
    BY <2>1
  <2>3. \A j \in 1 .. Len(s) : more[j] = log[j]
    BY <1>5, <2>2
  <2> QED
    BY <1>2, <1>6, <2>3, RebuildSame
<1>11. TablesInv(d, s, more)
  BY <1>1, <1>2, <1>3, <1>5, <1>9, <1>10 DEF TablesInv
<1> QED
  BY <1>11 DEF more

\* One more row is folded.
LEMMA TablesGrow ==
    ASSUME NEW d, NEW s, NEW log, NEW c, NEW i \in 1 .. Len(log), LogInv(log, c),
           TablesInv(d, s, log), ~Throws(log[i])
    PROVE  TablesInv(applyEvent(d, log[i]), Append(s, i), log)
<1> DEFINE n == Len(log)
           x == applyEvent(d, log[i])
           t == Append(s, i)
<1>1. log \in Seq(Events) /\ ClosesOnce(log) /\ EventOK(log[i])
  BY DEF LogInv, LogOK
<1>2. n \in Nat
  BY <1>1
<1>3. /\ s \in Seq(1 .. n) /\ FoldedFrom(d, s, log)
      /\ \A j \in 1 .. Len(s) : ~Throws(log[s[j]])
      /\ s = Ident(Len(s)) => d = Rebuild(log, Len(s))
  BY DEF TablesInv
<1>4. FoldedFrom(x, t, log)
  BY <1>1, <1>2, <1>3, FoldedFromStep
<1>5. /\ t \in Seq(1 .. n) /\ Len(s) \in Nat /\ Len(t) = Len(s) + 1 /\ t[Len(s) + 1] = i
      /\ \A j \in 1 .. Len(s) : t[j] = s[j]
  BY <1>3
<1>6. \A j \in 1 .. Len(t) : ~Throws(log[t[j]])
  <2> SUFFICES ASSUME NEW j \in 1 .. Len(t) PROVE ~Throws(log[t[j]])
    OBVIOUS
  <2>1. CASE j \in 1 .. Len(s)
    BY <1>3, <1>5, <2>1
  <2>2. CASE j = Len(s) + 1
    BY <1>5, <2>2
  <2> QED
    BY <1>5, <2>1, <2>2
<1>7. t = Ident(Len(t)) => x = Rebuild(log, Len(t))
  <2> SUFFICES ASSUME t = Ident(Len(t)) PROVE x = Rebuild(log, Len(t))
    OBVIOUS
  <2> DEFINE m == Len(s)
  <2>1. \A j \in 1 .. (m + 1) : t[j] = j
    <3>1. t = Ident(m + 1)
      BY <1>5
    <3>2. \A j \in 1 .. (m + 1) : Ident(m + 1)[j] = j
      BY DEF Ident
    <3> HIDE DEF t, m
    <3> QED
      BY <3>1, <3>2
  <2>2. i = m + 1 /\ \A j \in 1 .. m : s[j] = j
    BY <1>5, <2>1
  <2>3. s = Ident(m)
    <3>1. s = [j \in 1 .. m |-> s[j]]
      BY <1>3
    <3>2. [j \in 1 .. m |-> s[j]] = [j \in 1 .. m |-> j]
      BY <2>2
    <3> QED
      BY <3>1, <3>2 DEF Ident
  <2>4. d = Rebuild(log, m)
    BY <1>3, <2>3
  <2>5. Rebuild(log, m + 1) = applyEvent(Rebuild(log, m), log[m + 1])
    BY <1>5, RebuildStep
  <2> QED
    BY <1>5, <2>2, <2>4, <2>5
<1> QED
  BY <1>4, <1>5, <1>6, <1>7 DEF TablesInv

\* The tables are rebuilt from the first n rows.
LEMMA TablesRebuilt ==
    ASSUME NEW log, NEW c, LogInv(log, c), NEW n \in 0 .. Len(log), \A i \in 1 .. n : ~Throws(log[i])
    PROVE  TablesInv(Rebuild(log, n), Ident(n), log)
<1>1. /\ log \in Seq(Events) /\ ClosesOnce(log)
      /\ \A i \in 1 .. Len(log) : Throws(log[i]) \/ EventOK(log[i])
  BY DEF LogInv, LogOK
<1>2. Len(log) \in Nat /\ n \in Nat /\ n <= Len(log)
  BY <1>1
<1>3. \A i \in 1 .. n : EventOK(log[i])
  BY <1>1, <1>2
<1>4. FoldedFrom(Rebuild(log, n), Ident(n), log)
  BY <1>1, <1>2, <1>3, RebuildFolded
<1>5. Ident(n) \in Seq(1 .. Len(log)) /\ Len(Ident(n)) = n
  BY <1>2, IdentIs
<1>6. \A j \in 1 .. n : Ident(n)[j] = j
  BY DEF Ident
<1>7. \A j \in 1 .. Len(Ident(n)) : ~Throws(log[Ident(n)[j]])
  BY <1>5, <1>6
<1> QED
  BY <1>4, <1>5, <1>7 DEF TablesInv

-----------------------------------------------------------------------------
\* The actions of the contract: each publishes one event, with a transition of its own.

\* One event is appended, with a transition of the contract.
Publishes ==
    \E e \in Events : e.id = Len(published) + 1 /\ Publish(e) /\ Transition(contract, contract', e)

\* Each action of the contract publishes that way.
LEMMA MemberPublishes ==
    ASSUME NEW a \in Addresses, published \in Seq(Events), contract \in Contracts, ContractMember(a)
    PROVE  Publishes
<1> DEFINE m == contract.member[a]
<1>1. /\ m \in MemberStates /\ m.contribution \in Nat /\ m.stake \in Nat /\ Len(published) + 1 \in Nat
  BY DEF Contracts, MemberStates
<1>2. CASE ~m.in /\ MemberEvent(a, "joined", Fee,
                              [m EXCEPT !.in = TRUE, !.contribution = Fee])
  <2> DEFINE e == Ev("joined", NULL, a, Fee, NULL, NULL)
  <2>1. Fee \in Nat \cup {NULL}
    BY <1>1, <1>2 DEF Fee
  <2>2. e \in Events /\ e.id = Len(published) + 1 /\ e.symbol = "joined" /\ e.who = a /\ e.amount = Fee
    BY <1>1, <2>1 DEF Ev, Events, Handled
  <2>3. Publish(e) /\ contract' = [contract EXCEPT !.member[a] = [m EXCEPT !.in = TRUE, !.contribution = Fee]]
    BY <1>2 DEF MemberEvent
  <2> HIDE DEF e
  <2>4. Transition(contract, contract', e)
    BY <1>1, <1>2, <2>2, <2>3, JoinedStep
  <2> QED
    BY <2>2, <2>3, <2>4 DEF Publishes
<1>3. CASE m.in /\ ~m.loan /\ MemberEvent(a, "exited", m.contribution,
                              [Outsider EXCEPT !.contribution = m.contribution])
  <2> DEFINE e == Ev("exited", NULL, a, m.contribution, NULL, NULL)
  <2>1. m.contribution \in Nat \cup {NULL}
    BY <1>1, <1>3
  <2>2. e \in Events /\ e.id = Len(published) + 1 /\ e.symbol = "exited" /\ e.who = a /\ e.amount = m.contribution
    BY <1>1, <2>1 DEF Ev, Events, Handled
  <2>3. Publish(e) /\ contract' = [contract EXCEPT !.member[a] = [Outsider EXCEPT !.contribution = m.contribution]]
    BY <1>3 DEF MemberEvent
  <2> HIDE DEF e
  <2>4. Transition(contract, contract', e)
    BY <1>1, <1>3, <2>2, <2>3, ExitedStep
  <2> QED
    BY <2>2, <2>3, <2>4 DEF Publishes
<1>4. CASE m.in /\ MemberEvent(a, "staked", m.stake + 1, [m EXCEPT !.stake = @ + 1])
  <2> DEFINE e == Ev("staked", NULL, a, m.stake + 1, NULL, NULL)
  <2>1. m.stake + 1 \in Nat \cup {NULL}
    BY <1>1, <1>4
  <2>2. e \in Events /\ e.id = Len(published) + 1 /\ e.symbol = "staked" /\ e.who = a /\ e.amount = m.stake + 1
    BY <1>1, <2>1 DEF Ev, Events, Handled
  <2>3. Publish(e) /\ contract' = [contract EXCEPT !.member[a] = [m EXCEPT !.stake = @ + 1]]
    BY <1>4 DEF MemberEvent
  <2> HIDE DEF e
  <2>4. Transition(contract, contract', e)
    BY <1>1, <1>4, <2>2, <2>3, StakedStep
  <2> QED
    BY <2>2, <2>3, <2>4 DEF Publishes
<1>5. CASE m.stake > 0 /\ MemberEvent(a, "unstaked", m.stake - 1, [m EXCEPT !.stake = @ - 1])
  <2> DEFINE e == Ev("unstaked", NULL, a, m.stake - 1, NULL, NULL)
  <2>1. m.stake - 1 \in Nat \cup {NULL}
    BY <1>1, <1>5
  <2>2. e \in Events /\ e.id = Len(published) + 1 /\ e.symbol = "unstaked" /\ e.who = a /\ e.amount = m.stake - 1
    BY <1>1, <2>1 DEF Ev, Events, Handled
  <2>3. Publish(e) /\ contract' = [contract EXCEPT !.member[a] = [m EXCEPT !.stake = @ - 1]]
    BY <1>5 DEF MemberEvent
  <2> HIDE DEF e
  <2>4. Transition(contract, contract', e)
    BY <1>1, <1>5, <2>2, <2>3, UnstakedStep
  <2> QED
    BY <2>2, <2>3, <2>4 DEF Publishes
<1>6. CASE m.in /\ MemberEvent(a, "claimed", 1, m)
  <2> DEFINE e == Ev("claimed", NULL, a, 1, NULL, NULL)
  <2>1. 1 \in Nat \cup {NULL}
    BY <1>1, <1>6
  <2>2. e \in Events /\ e.id = Len(published) + 1 /\ e.symbol = "claimed" /\ e.who = a /\ e.amount = 1
    BY <1>1, <2>1 DEF Ev, Events, Handled
  <2>3. Publish(e) /\ contract' = [contract EXCEPT !.member[a] = m]
    BY <1>6 DEF MemberEvent
  <2> HIDE DEF e
  <2>4. Transition(contract, contract', e)
    BY <1>1, <1>6, <2>2, <2>3, ClaimedStep
  <2> QED
    BY <2>2, <2>3, <2>4 DEF Publishes
<1>7. CASE MemberEvent(a, "name_reg", NULL, m)
  <2> DEFINE e == Ev("name_reg", NULL, a, NULL, NULL, NULL)
  <2>1. NULL \in Nat \cup {NULL}
    BY <1>1, <1>7
  <2>2. e \in Events /\ e.id = Len(published) + 1 /\ e.symbol = "name_reg" /\ e.who = a /\ e.amount = NULL
    BY <1>1, <2>1 DEF Ev, Events, Handled
  <2>3. Publish(e) /\ contract' = [contract EXCEPT !.member[a] = m]
    BY <1>7 DEF MemberEvent
  <2> HIDE DEF e
  <2>4. Transition(contract, contract', e)
    BY <1>1, <1>7, <2>2, <2>3, NameRegStep, SMTT(30)
  <2> QED
    BY <2>2, <2>3, <2>4 DEF Publishes
<1> QED
  BY <1>2, <1>3, <1>4, <1>5, <1>6, <1>7 DEF ContractMember

LEMMA LoanPublishes ==
    ASSUME NEW l \in Loans, published \in Seq(Events), contract \in Contracts, ContractLoan(l)
    PROVE  Publishes
<1> DEFINE p == contract.loan[l]
<1>1. /\ p \in LoanStates /\ p.amount \in Nat
      /\ p.status # "none" => p.who \in Addresses
      /\ p.who \in Addresses \cup {NULL} /\ Len(published) + 1 \in Nat
  BY DEF Contracts, LoanStates, Proposed
<1>2. ASSUME p.status = "none", NEW a \in Addresses, contract.member[a].in,
             LoanEvent(l, "loan_req", Asked.amount, Asked.total,
                       [p EXCEPT !.status = "pending", !.who = a, !.amount = Asked.amount,
                                 !.total = Asked.total])
      PROVE  Publishes
  <2> DEFINE row == [p EXCEPT !.status = "pending", !.who = a, !.amount = Asked.amount,
                              !.total = Asked.total]
             e   == Ev("loan_req", l, a, Asked.amount, Asked.total, NULL)
  <2>1. row.who = a
    BY <1>1 DEF LoanStates, Proposed
  <2>2. /\ e \in Events /\ e.id = Len(published) + 1 /\ e.symbol = "loan_req" /\ e.nr = l /\ e.who = a
        /\ e.amount = Asked.amount /\ e.total = Asked.total
    BY <1>1 DEF Ev, Events, Handled, Asked
  <2>3. Publish(Ev("loan_req", l, row.who, Asked.amount, Asked.total, NULL))
        /\ contract' = [contract EXCEPT !.loan[l] = row]
    BY <1>2 DEF LoanEvent
  <2>4. Publish(e)
    BY <2>1, <2>3
  <2> HIDE DEF e
  <2>5. Transition(contract, contract', e)
    BY <1>2, <2>2, <2>3, LoanReqStep
  <2> QED
    BY <2>2, <2>4, <2>5 DEF Publishes
<1>3. CASE p.status = "pending" /\ LoanEvent(l, "loan_edit", Edited.amount, Edited.total,
             [p EXCEPT !.amount = Edited.amount, !.total = Edited.total])
  <2> DEFINE row == [p EXCEPT !.amount = Edited.amount, !.total = Edited.total]
             e   == Ev("loan_edit", l, p.who, Edited.amount, Edited.total, NULL)
  <2>1. row.who = p.who
    BY <1>1 DEF LoanStates, Proposed
  <2>2. /\ e \in Events /\ e.id = Len(published) + 1 /\ e.symbol = "loan_edit" /\ e.nr = l /\ e.who = p.who
        /\ e.amount = Edited.amount /\ e.total = Edited.total
    BY <1>1 DEF Ev, Events, Handled, Edited
  <2>3. Publish(Ev("loan_edit", l, row.who, Edited.amount, Edited.total, NULL))
        /\ contract' = [contract EXCEPT !.loan[l] = row]
    BY <1>3 DEF LoanEvent
  <2>4. Publish(e)
    BY <2>1, <2>3
  <2> HIDE DEF e
  <2>5. Transition(contract, contract', e)
    BY <1>3, <2>2, <2>3, LoanEditStep
  <2> QED
    BY <2>2, <2>4, <2>5 DEF Publishes
<1>4. CASE p.status = "pending" /\ LoanEvent(l, "loan_wait", NULL, NULL,
             [p EXCEPT !.status = "approved_pending_disbursement"])
  <2> DEFINE row == [p EXCEPT !.status = "approved_pending_disbursement"]
             e   == Ev("loan_wait", l, p.who, NULL, NULL, NULL)
  <2>1. row.who = p.who
    BY <1>1 DEF LoanStates, Proposed
  <2>2. /\ e \in Events /\ e.id = Len(published) + 1 /\ e.symbol = "loan_wait" /\ e.nr = l /\ e.who = p.who
        /\ e.amount = NULL /\ e.total = NULL
    BY <1>1 DEF Ev, Events, Handled
  <2>3. Publish(Ev("loan_wait", l, row.who, NULL, NULL, NULL))
        /\ contract' = [contract EXCEPT !.loan[l] = row]
    BY <1>4 DEF LoanEvent
  <2>4. Publish(e)
    BY <2>1, <2>3
  <2> HIDE DEF e
  <2>5. Transition(contract, contract', e)
    BY <1>4, <2>2, <2>3, LoanWaitStep
  <2> QED
    BY <2>2, <2>4, <2>5 DEF Publishes
<1>5. CASE p.status = "pending" /\ LoanEvent(l, "loan_rej", NULL, NULL,
             [p EXCEPT !.status = "rejected"])
  <2> DEFINE row == [p EXCEPT !.status = "rejected"]
             e   == Ev("loan_rej", l, p.who, NULL, NULL, NULL)
  <2>1. row.who = p.who
    BY <1>1 DEF LoanStates, Proposed
  <2>2. /\ e \in Events /\ e.id = Len(published) + 1 /\ e.symbol = "loan_rej" /\ e.nr = l /\ e.who = p.who
        /\ e.amount = NULL /\ e.total = NULL
    BY <1>1 DEF Ev, Events, Handled
  <2>3. Publish(Ev("loan_rej", l, row.who, NULL, NULL, NULL))
        /\ contract' = [contract EXCEPT !.loan[l] = row]
    BY <1>5 DEF LoanEvent
  <2>4. Publish(e)
    BY <2>1, <2>3
  <2> HIDE DEF e
  <2>5. Transition(contract, contract', e)
    BY <1>5, <2>2, <2>3, LoanRejStep
  <2> QED
    BY <2>2, <2>4, <2>5 DEF Publishes
<1>6. CASE p.status = "pending" /\ LoanEvent(l, "loan_exp", NULL, NULL,
             [p EXCEPT !.status = "rejected"])
  <2> DEFINE row == [p EXCEPT !.status = "rejected"]
             e   == Ev("loan_exp", l, p.who, NULL, NULL, NULL)
  <2>1. row.who = p.who
    BY <1>1 DEF LoanStates, Proposed
  <2>2. /\ e \in Events /\ e.id = Len(published) + 1 /\ e.symbol = "loan_exp" /\ e.nr = l /\ e.who = p.who
        /\ e.amount = NULL /\ e.total = NULL
    BY <1>1 DEF Ev, Events, Handled
  <2>3. Publish(Ev("loan_exp", l, row.who, NULL, NULL, NULL))
        /\ contract' = [contract EXCEPT !.loan[l] = row]
    BY <1>6 DEF LoanEvent
  <2>4. Publish(e)
    BY <2>1, <2>3
  <2> HIDE DEF e
  <2>5. Transition(contract, contract', e)
    BY <1>6, <2>2, <2>3, LoanExpStep
  <2> QED
    BY <2>2, <2>4, <2>5 DEF Publishes
<1>7. CASE /\ p.status \in {"pending", "approved_pending_disbursement"}
           /\ contract.member[p.who].in /\ ~contract.member[p.who].loan
           /\ Publish(Ev("loan_appr", l, p.who, p.amount, NULL, NULL))
           /\ contract' = [contract EXCEPT !.loan[l].status = "active", !.loan[l].owed = p.total,
                                           !.member[p.who].loan = TRUE]
  <2> DEFINE e == Ev("loan_appr", l, p.who, p.amount, NULL, NULL)
  <2>1. /\ e \in Events /\ e.id = Len(published) + 1 /\ e.symbol = "loan_appr" /\ e.nr = l /\ e.who = p.who
        /\ e.amount = p.amount
    BY <1>1 DEF Ev, Events, Handled
  <2>2. Publish(e) /\ p.who \in Addresses
    BY <1>1, <1>7, SMTT(30)
  <2> HIDE DEF e
  <2>3. Transition(contract, contract', e)
    BY <1>7, <2>1, <2>2, LoanApprStep
  <2> QED
    BY <2>1, <2>2, <2>3 DEF Publishes
<1>8. CASE p.status = "active" /\ p.owed > 1 /\ LoanEvent(l, "loan_rpy", 1, NULL,
             [p EXCEPT !.owed = 1])
  <2> DEFINE row == [p EXCEPT !.owed = 1]
             e   == Ev("loan_rpy", l, p.who, 1, NULL, NULL)
  <2>1. row.who = p.who
    BY <1>1 DEF LoanStates, Proposed
  <2>2. /\ e \in Events /\ e.id = Len(published) + 1 /\ e.symbol = "loan_rpy" /\ e.nr = l /\ e.who = p.who
        /\ e.amount = 1 /\ e.total = NULL
    BY <1>1 DEF Ev, Events, Handled
  <2>3. Publish(Ev("loan_rpy", l, row.who, 1, NULL, NULL))
        /\ contract' = [contract EXCEPT !.loan[l] = row]
    BY <1>8 DEF LoanEvent
  <2>4. Publish(e)
    BY <2>1, <2>3
  <2> HIDE DEF e
  <2>5. Transition(contract, contract', e)
    BY <1>8, <2>2, <2>3, LoanPaidStep, SMTT(30)
  <2> QED
    BY <2>2, <2>4, <2>5 DEF Publishes
<1>9. CASE p.status = "active" /\ LoanClosed(l, "loan_rpy", 0, [p EXCEPT !.status = "repaid", !.owed = 0],
                                              contract.member[p.who].contribution)
  <2> DEFINE row == [p EXCEPT !.status = "repaid", !.owed = 0]
             e   == Ev("loan_rpy", l, p.who, 0, NULL, NULL)
  <2>1. row.who = p.who /\ p.who \in Addresses
    BY <1>1, <1>9 DEF LoanStates, Proposed
  <2>2. /\ e \in Events /\ e.id = Len(published) + 1 /\ e.symbol = "loan_rpy" /\ e.nr = l /\ e.who = p.who
        /\ e.amount = 0
    BY <1>1 DEF Ev, Events, Handled
  <2>3. /\ Publish(Ev("loan_rpy", l, row.who, 0, NULL, NULL))
        /\ contract' = [contract EXCEPT !.loan[l] = row, !.member[row.who].loan = FALSE,
                                        !.member[row.who].contribution = contract.member[p.who].contribution]
    BY <1>9 DEF LoanClosed
  <2>4. Publish(e)
        /\ contract' = [contract EXCEPT !.loan[l] = row, !.member[p.who].loan = FALSE,
                                        !.member[p.who].contribution = contract.member[p.who].contribution]
    <3> HIDE DEF row
    <3> QED
      BY <2>1, <2>3, SMTT(30)
  <2> HIDE DEF e
  <2>5. Transition(contract, contract', e)
    BY <1>9, <2>1, <2>2, <2>4, LoanRepaidStep, ZenonT(40)
  <2> QED
    BY <2>2, <2>4, <2>5 DEF Publishes
<1>10. ASSUME p.status = "active", NEW x \in Penalties,
              LoanClosed(l, "loan_dflt", x, [p EXCEPT !.status = "defaulted"],
                         Monus(contract.member[p.who].contribution, x))
       PROVE  Publishes
  <2> DEFINE row == [p EXCEPT !.status = "defaulted"]
             e   == Ev("loan_dflt", l, p.who, x, NULL, NULL)
  <2>1. row.who = p.who /\ p.who \in Addresses
    BY <1>1, <1>10 DEF LoanStates, Proposed
  <2>2. /\ e \in Events /\ e.id = Len(published) + 1 /\ e.symbol = "loan_dflt" /\ e.nr = l /\ e.who = p.who
        /\ e.amount = x /\ x \in Nat
    BY <1>1, <1>10 DEF Ev, Events, Handled, Penalties
  <2>3. /\ Publish(Ev("loan_dflt", l, row.who, x, NULL, NULL))
        /\ contract' = [contract EXCEPT !.loan[l] = row, !.member[row.who].loan = FALSE,
                                        !.member[row.who].contribution = Monus(contract.member[p.who].contribution, x)]
    BY <1>10 DEF LoanClosed
  <2>4. Publish(e)
        /\ contract' = [contract EXCEPT !.loan[l] = row, !.member[p.who].loan = FALSE,
                                        !.member[p.who].contribution = Monus(contract.member[p.who].contribution, x)]
    <3> HIDE DEF row
    <3> QED
      BY <2>1, <2>3, SMTT(30)
  <2> HIDE DEF e
  <2>5. Transition(contract, contract', e)
    BY <1>10, <2>1, <2>2, <2>4, LoanDfltStep
  <2> QED
    BY <2>2, <2>4, <2>5 DEF Publishes
<1> QED
  BY <1>2, <1>3, <1>4, <1>5, <1>6, <1>7, <1>8, <1>9, <1>10 DEF ContractLoan

LEMMA VotePublishes ==
    ASSUME NEW b \in Ballots, scenario \in Scenarios, published \in Seq(Events), contract \in Contracts,
           ContractVote(b)
    PROVE  Publishes
<1>1. /\ b.support \in BOOLEAN /\ b.weight \in Nat \cup {NULL} /\ Len(published) + 1 \in Nat
      /\ scenario.loans \subseteq Loans
  <2>1. scenario.loans \subseteq Loans
    BY FoldAssumption
  <2>2. b.support \in BOOLEAN /\ b.weight \in Nat \cup {NULL}
    <3>1. CASE b = [support |-> TRUE, weight |-> NULL]
      <4>1. b.support = TRUE /\ b.weight = NULL
        BY <3>1
      <4> QED
        BY <4>1
    <3>2. CASE b = [support |-> FALSE, weight |-> 2]
      <4>1. b.support = FALSE /\ b.weight = 2
        BY <3>2
      <4>2. b.support \in BOOLEAN
        BY <4>1, Zenon
      <4>3. b.weight \in Nat
        BY <4>1
      <4> QED
        BY <4>2, <4>3
    <3> QED
      BY <3>1, <3>2 DEF Ballots
  <2> QED
    BY <2>1, <2>2
<1>2. ASSUME NEW l \in Loans, contract.loan[l].status = "pending", Publish(Vote("loan_vote", l, b)),
             contract' = [contract EXCEPT !.loan[l] = Counted(@, b)]
      PROVE  Publishes
  <2> DEFINE a == CHOOSE a \in Addresses : TRUE
             e == Vote("loan_vote", l, b)
  <2>1. contract.loan[l].who \in Addresses
    BY <1>2 DEF Contracts, LoanStates, Proposed
  <2>2. a \in Addresses
    BY <2>1
  <2> HIDE DEF a
  <2>3. e = [Ev("loan_vote", l, a, NULL, NULL, b.support) EXCEPT !.weight = b.weight]
    BY DEF Vote, a
  <2>4. /\ e \in Events /\ e.id = Len(published) + 1 /\ e.symbol = "loan_vote" /\ e.nr = l
        /\ e.support = b.support /\ e.weight = b.weight
    <3> HIDE DEF e
    <3> QED
      BY <1>1, <2>2, <2>3 DEF Ev, Events, Handled
  <2>5. Publish(e) /\ contract' = [contract EXCEPT !.loan[l] = Counted(contract.loan[l], b)]
    BY <1>2
  <2> HIDE DEF e
  <2>6. Transition(contract, contract', e)
    BY <1>1, <1>2, <2>4, <2>5, LoanVoteStep
  <2> QED
    BY <2>4, <2>5, <2>6 DEF Publishes
<1>3. ASSUME NEW t \in Treasuries, contract.treasury[t].status = "pending", Publish(Vote("tre_vote", t, b)),
             contract' = [contract EXCEPT !.treasury[t] = Counted(@, b)]
      PROVE  Publishes
  <2> DEFINE a == CHOOSE a \in Addresses : TRUE
             e == Vote("tre_vote", t, b)
  <2>1. contract.treasury[t].who \in Addresses
    BY <1>3 DEF Contracts, TreasuryStates, Proposed
  <2>2. a \in Addresses
    BY <2>1
  <2> HIDE DEF a
  <2>3. e = [Ev("tre_vote", t, a, NULL, NULL, b.support) EXCEPT !.weight = b.weight]
    BY DEF Vote, a
  <2>4. /\ e \in Events /\ e.id = Len(published) + 1 /\ e.symbol = "tre_vote" /\ e.nr = t
        /\ e.support = b.support /\ e.weight = b.weight
    <3> HIDE DEF e
    <3> QED
      BY <1>1, <2>2, <2>3 DEF Ev, Events, Handled
  <2>5. Publish(e) /\ contract' = [contract EXCEPT !.treasury[t] = Counted(contract.treasury[t], b)]
    BY <1>3
  <2> HIDE DEF e
  <2>6. Transition(contract, contract', e)
    BY <1>1, <1>3, <2>4, <2>5, TreVoteStep
  <2> QED
    BY <2>4, <2>5, <2>6 DEF Publishes
<1>4. ASSUME NEW t \in Treasuries, contract.treasury[t].status = "pending", Publish(Vote("revealed", t, b)),
             contract' = [contract EXCEPT !.treasury[t] = Counted(@, b)]
      PROVE  Publishes
  <2> DEFINE a == CHOOSE a \in Addresses : TRUE
             e == Vote("revealed", t, b)
  <2>1. contract.treasury[t].who \in Addresses
    BY <1>4 DEF Contracts, TreasuryStates, Proposed
  <2>2. a \in Addresses
    BY <2>1
  <2> HIDE DEF a
  <2>3. e = [Ev("revealed", t, a, NULL, NULL, b.support) EXCEPT !.weight = b.weight]
    BY DEF Vote, a
  <2>4. /\ e \in Events /\ e.id = Len(published) + 1 /\ e.symbol = "revealed" /\ e.nr = t
        /\ e.support = b.support /\ e.weight = b.weight
    <3> HIDE DEF e
    <3> QED
      BY <1>1, <2>2, <2>3 DEF Ev, Events, Handled
  <2>5. Publish(e) /\ contract' = [contract EXCEPT !.treasury[t] = Counted(contract.treasury[t], b)]
    BY <1>4
  <2> HIDE DEF e
  <2>6. Transition(contract, contract', e)
    BY <1>1, <1>4, <2>4, <2>5, RevealedStep
  <2> QED
    BY <2>4, <2>5, <2>6 DEF Publishes
<1> QED
  BY <1>1, <1>2, <1>3, <1>4 DEF ContractVote

LEMMA TreasuryPublishes ==
    ASSUME NEW t \in Treasuries, published \in Seq(Events), contract \in Contracts, ContractTreasury(t)
    PROVE  Publishes
<1> DEFINE p == contract.treasury[t]
<1>1. /\ p \in TreasuryStates /\ p.amount \in Nat
      /\ p.status # "none" => p.who \in Addresses
      /\ p.who \in Addresses \cup {NULL} /\ Len(published) + 1 \in Nat
  BY DEF Contracts, TreasuryStates, Proposed
<1>2. ASSUME p.status = "none", NEW a \in Addresses,
             TreasuryEvent(t, "tre_prop", [p EXCEPT !.status = "pending", !.who = a, !.amount = 1])
      PROVE  Publishes
  <2> DEFINE row == [p EXCEPT !.status = "pending", !.who = a, !.amount = 1]
             e   == Ev("tre_prop", t, a, 1, NULL, NULL)
  <2>1. row.who = a /\ row.amount = 1 /\ a \in Addresses
    BY <1>1, <1>2 DEF TreasuryStates, Proposed
  <2>2. /\ e \in Events /\ e.id = Len(published) + 1 /\ e.symbol = "tre_prop" /\ e.nr = t /\ e.who = a
        /\ e.amount = 1
    BY <1>1, <2>1 DEF Ev, Events, Handled
  <2>3. Publish(Ev("tre_prop", t, row.who, row.amount, NULL, NULL))
        /\ contract' = [contract EXCEPT !.treasury[t] = row]
    BY <1>2 DEF TreasuryEvent
  <2>4. Publish(e)
    <3> HIDE DEF row
    <3> QED
      BY <2>1, <2>3
  <2> HIDE DEF e
  <2>5. Transition(contract, contract', e)
    BY <1>1, <1>2, <2>2, <2>3, TrePropStep
  <2> QED
    BY <2>2, <2>4, <2>5 DEF Publishes
<1>3. CASE p.status = "pending" /\ TreasuryEvent(t, "committed", p)
  <2> DEFINE row == p
             e   == Ev("committed", t, p.who, p.amount, NULL, NULL)
  <2>1. row.who = p.who /\ row.amount = p.amount /\ p.who \in Addresses
    BY <1>1, <1>3 DEF TreasuryStates, Proposed
  <2>2. /\ e \in Events /\ e.id = Len(published) + 1 /\ e.symbol = "committed" /\ e.nr = t /\ e.who = p.who
        /\ e.amount = p.amount
    BY <1>1, <2>1 DEF Ev, Events, Handled
  <2>3. Publish(Ev("committed", t, row.who, row.amount, NULL, NULL))
        /\ contract' = [contract EXCEPT !.treasury[t] = row]
    BY <1>3 DEF TreasuryEvent
  <2>4. Publish(e)
    <3> HIDE DEF row
    <3> QED
      BY <2>1, <2>3
  <2> HIDE DEF e
  <2>5. Transition(contract, contract', e)
    <3>1. contract' = contract
      BY <2>3 DEF Contracts
    <3> QED
      BY <2>1, <2>2, <3>1, StillStep
  <2> QED
    BY <2>2, <2>4, <2>5 DEF Publishes
<1>4. CASE p.status = "pending" /\ TreasuryEvent(t, "doc_attn", p)
  <2> DEFINE row == p
             e   == Ev("doc_attn", t, p.who, p.amount, NULL, NULL)
  <2>1. row.who = p.who /\ row.amount = p.amount /\ p.who \in Addresses
    BY <1>1, <1>4 DEF TreasuryStates, Proposed
  <2>2. /\ e \in Events /\ e.id = Len(published) + 1 /\ e.symbol = "doc_attn" /\ e.nr = t /\ e.who = p.who
        /\ e.amount = p.amount
    BY <1>1, <2>1 DEF Ev, Events, Handled
  <2>3. Publish(Ev("doc_attn", t, row.who, row.amount, NULL, NULL))
        /\ contract' = [contract EXCEPT !.treasury[t] = row]
    BY <1>4 DEF TreasuryEvent
  <2>4. Publish(e)
    <3> HIDE DEF row
    <3> QED
      BY <2>1, <2>3
  <2> HIDE DEF e
  <2>5. Transition(contract, contract', e)
    <3>1. contract' = contract
      BY <2>3 DEF Contracts
    <3> QED
      BY <2>1, <2>2, <3>1, StillStep
  <2> QED
    BY <2>2, <2>4, <2>5 DEF Publishes
<1>5. CASE /\ p.status = "pending"
           /\ TreasuryEvent(t, "tre_wait", [p EXCEPT !.status = "approved_pending_disbursement"])
  <2> DEFINE row == [p EXCEPT !.status = "approved_pending_disbursement"]
             e   == Ev("tre_wait", t, p.who, p.amount, NULL, NULL)
  <2>1. row.who = p.who /\ row.amount = p.amount /\ p.who \in Addresses
    BY <1>1, <1>5 DEF TreasuryStates, Proposed
  <2>2. /\ e \in Events /\ e.id = Len(published) + 1 /\ e.symbol = "tre_wait" /\ e.nr = t /\ e.who = p.who
        /\ e.amount = p.amount
    BY <1>1, <2>1 DEF Ev, Events, Handled
  <2>3. Publish(Ev("tre_wait", t, row.who, row.amount, NULL, NULL))
        /\ contract' = [contract EXCEPT !.treasury[t] = row]
    BY <1>5 DEF TreasuryEvent
  <2>4. Publish(e)
    <3> HIDE DEF row
    <3> QED
      BY <2>1, <2>3
  <2> HIDE DEF e
  <2>5. Transition(contract, contract', e)
    BY <1>1, <1>5, <2>2, <2>3, TreWaitStep
  <2> QED
    BY <2>2, <2>4, <2>5 DEF Publishes
<1>6. CASE p.status = "pending" /\ TreasuryEvent(t, "tre_rej", [p EXCEPT !.status = "rejected"])
  <2> DEFINE row == [p EXCEPT !.status = "rejected"]
             e   == Ev("tre_rej", t, p.who, p.amount, NULL, NULL)
  <2>1. row.who = p.who /\ row.amount = p.amount /\ p.who \in Addresses
    BY <1>1, <1>6 DEF TreasuryStates, Proposed
  <2>2. /\ e \in Events /\ e.id = Len(published) + 1 /\ e.symbol = "tre_rej" /\ e.nr = t /\ e.who = p.who
        /\ e.amount = p.amount
    BY <1>1, <2>1 DEF Ev, Events, Handled
  <2>3. Publish(Ev("tre_rej", t, row.who, row.amount, NULL, NULL))
        /\ contract' = [contract EXCEPT !.treasury[t] = row]
    BY <1>6 DEF TreasuryEvent
  <2>4. Publish(e)
    <3> HIDE DEF row
    <3> QED
      BY <2>1, <2>3
  <2> HIDE DEF e
  <2>5. Transition(contract, contract', e)
    BY <1>1, <1>6, <2>2, <2>3, TreRejStep
  <2> QED
    BY <2>2, <2>4, <2>5 DEF Publishes
<1>7. CASE /\ p.status \in {"pending", "approved_pending_disbursement"}
           /\ TreasuryEvent(t, "tre_exec", [p EXCEPT !.status = "executed"])
  <2> DEFINE row == [p EXCEPT !.status = "executed"]
             e   == Ev("tre_exec", t, p.who, p.amount, NULL, NULL)
  <2>1. row.who = p.who /\ row.amount = p.amount /\ p.who \in Addresses
    BY <1>1, <1>7 DEF TreasuryStates, Proposed
  <2>2. /\ e \in Events /\ e.id = Len(published) + 1 /\ e.symbol = "tre_exec" /\ e.nr = t /\ e.who = p.who
        /\ e.amount = p.amount
    BY <1>1, <2>1 DEF Ev, Events, Handled
  <2>3. Publish(Ev("tre_exec", t, row.who, row.amount, NULL, NULL))
        /\ contract' = [contract EXCEPT !.treasury[t] = row]
    BY <1>7 DEF TreasuryEvent
  <2>4. Publish(e)
    <3> HIDE DEF row
    <3> QED
      BY <2>1, <2>3
  <2> HIDE DEF e
  <2>5. Transition(contract, contract', e)
    BY <1>1, <1>7, <2>2, <2>3, TreExecStep
  <2> QED
    BY <2>2, <2>4, <2>5 DEF Publishes
<1> QED
  BY <1>2, <1>3, <1>4, <1>5, <1>6, <1>7 DEF ContractTreasury

LEMMA OtherPublishes ==
    ASSUME published \in Seq(Events), contract \in Contracts, ContractOther
    PROVE  Publishes
<1>1. Len(published) + 1 \in Nat
  OBVIOUS
<1>2. CASE /\ Publish(Ev("interest", NULL, NULL, 1, NULL, NULL))
           /\ contract' = [contract EXCEPT !.interest = @ + 1]
  <2> DEFINE e == Ev("interest", NULL, NULL, 1, NULL, NULL)
  <2>1. e \in Events /\ e.id = Len(published) + 1 /\ e.symbol = "interest" /\ e.amount = 1
    BY <1>1 DEF Ev, Events, Handled
  <2> HIDE DEF e
  <2>2. Transition(contract, contract', e)
    BY <1>2, <2>1, InterestStep
  <2> QED
    BY <1>2, <2>1, <2>2 DEF Publishes, e
<1>3. CASE Publish(Ev("policy", NULL, NULL, NULL, NULL, NULL)) /\ UNCHANGED contract
  <2> DEFINE e == Ev("policy", NULL, NULL, NULL, NULL, NULL)
  <2>1. e \in Events /\ e.id = Len(published) + 1 /\ e.symbol = "policy"
    BY <1>1 DEF Ev, Events, Handled
  <2> HIDE DEF e
  <2>2. Transition(contract, contract', e)
    BY <1>3, <2>1, StillStep
  <2> QED
    BY <1>3, <2>1, <2>2 DEF Publishes, e
<1>4. ASSUME NEW s \in {"committed", "interest"},
             Publish([Ev(s, NULL, NULL, NULL, NULL, NULL) EXCEPT !.bad = {"who", "amount"}]),
             UNCHANGED contract
      PROVE  Publishes
  <2> DEFINE e == [Ev(s, NULL, NULL, NULL, NULL, NULL) EXCEPT !.bad = {"who", "amount"}]
  <2>1. e \in Events /\ e.id = Len(published) + 1 /\ e.symbol = s /\ e.bad = {"who", "amount"}
    BY <1>1 DEF Ev, Events, Handled
  <2> HIDE DEF e
  <2>2. Transition(contract, contract', e)
    <3>1. CASE s = "committed"
      BY <1>4, <2>1, <3>1, StillStep
    <3>2. CASE s = "interest"
      BY <1>4, <2>1, <3>2, UnreadableStep
    <3> QED
      BY <3>1, <3>2
  <2> QED
    BY <1>4, <2>1, <2>2 DEF Publishes, e
<1> QED
  BY <1>2, <1>3, <1>4 DEF ContractOther

-----------------------------------------------------------------------------
\* The invariant holds at the start, and every action preserves it.

\* The larger of two numbers is one of them.
LEMMA LatestIs == ASSUME NEW a \in Nat, NEW b \in Nat PROVE Max({a, b}) \in {a, b}
<1>1. \E x \in {a, b} : \A y \in {a, b} : x >= y
  <2>1. CASE a >= b
    BY <2>1
  <2>2. CASE b >= a
    BY <2>2
  <2> QED
    BY <2>1, <2>2
<1> QED
  BY <1>1 DEF Max

\* Empty tables mirror the contract before its first event.
LEMMA MirrorsAtFirst == Mirrors(EmptyTables, NewContract)
<1>1. /\ EmptyTables.members = NoRows /\ EmptyTables.proposals = NoRows /\ EmptyTables.loans = NoRows
      /\ EmptyTables.treasury = NoRows /\ EmptyTables.totals.interest = 0
  BY DEF EmptyTables
<1>2. DOMAIN NoRows = {}
  BY DEF NoRows
<1>3. /\ \A l \in Loans : NewContract.loan[l].status = "none"
      /\ \A t \in Treasuries : NewContract.treasury[t].status = "none"
      /\ \A a \in Addresses : NewContract.member[a].in = FALSE
      /\ NewContract.interest = 0
  BY DEF NewContract, NoProposal, Outsider
<1>4. \A l \in Loans : MirrorsLoan(EmptyTables, NewContract, l)
  BY <1>1, <1>2, <1>3 DEF MirrorsLoan
<1>5. \A t \in Treasuries : MirrorsTreasury(EmptyTables, NewContract, t)
  BY <1>1, <1>2, <1>3 DEF MirrorsTreasury
<1>6. \A a \in Addresses : MirrorsMember(EmptyTables, NewContract, a)
  BY <1>1, <1>2, <1>3 DEF MirrorsMember
<1> QED
  BY <1>1, <1>3, <1>4, <1>5, <1>6 DEF Mirrors

\* The invariant at the start.
LEMMA FoldInvInit == FoldInit => FoldInv
<1> SUFFICES ASSUME FoldInit PROVE FoldInv
  OBVIOUS
<1>1. /\ contract = NewContract /\ published = << >> /\ pos = 0 /\ stored = 0 /\ open = {}
      /\ derived = EmptyTables /\ applied = << >> /\ reindexed = 0 /\ scenario \in Scenarios
  BY DEF FoldInit
<1>2. << >> \in Seq(Events) /\ Len(<< >>) = 0 /\ \A i \in 1 .. 0 : FALSE
  OBVIOUS
<1>3. Rebuild(<< >>, 0) = EmptyTables
  BY RebuildStep
<1>4. LogInv(<< >>, NewContract)
  BY <1>2, <1>3, NewContractOK, MirrorsAtFirst DEF LogInv, LogOK, ClosesOnce, ClosedFor
<1>5. TablesInv(EmptyTables, << >>, << >>)
  <2>1. << >> \in Seq(1 .. Len(<< >>))
    BY <1>2
  <2> QED
    BY <1>2, <1>3, <2>1, FoldedFromEmpty DEF TablesInv
<1> QED
  BY <1>1, <1>2, <1>4, <1>5 DEF FoldInv

\* An action of the contract.
LEMMA FoldInvPublish == FoldInv /\ Publishes => FoldInv'
<1> SUFFICES ASSUME FoldInv, Publishes PROVE FoldInv'
  OBVIOUS
<1>1. PICK e \in Events : e.id = Len(published) + 1 /\ Publish(e) /\ Transition(contract, contract', e)
  BY DEF Publishes
<1>2. /\ published' = Append(published, e) /\ scenario' = scenario /\ pos' = pos /\ stored' = stored
      /\ open' = open /\ derived' = derived /\ applied' = applied /\ reindexed' = reindexed
  BY <1>1 DEF Publish
<1>3. /\ LogInv(published, contract) /\ TablesInv(derived, applied, published)
      /\ pos \in 0 .. Len(published) /\ stored \in 0 .. Len(published)
      /\ open \subseteq 1 .. Len(published) /\ reindexed \in Nat /\ scenario \in Scenarios
  BY DEF FoldInv
<1>4. published \in Seq(Events)
  BY <1>3 DEF LogInv, LogOK
<1>5. LogInv(Append(published, e), contract')
  BY <1>1, <1>3, LogGrows
<1>6. TablesInv(derived, applied, Append(published, e))
  BY <1>3, <1>4, TablesStay
<1>7. Len(Append(published, e)) = Len(published) + 1 /\ Len(published) \in Nat
  BY <1>4
<1> QED
  BY <1>2, <1>3, <1>5, <1>6, <1>7 DEF FoldInv

\* The tables, the rows they came from, and the cursor move; the log does not.
LEMMA FoldInvTables ==
    ASSUME FoldInv, scenario' = scenario, contract' = contract, published' = published,
           TablesInv(derived', applied', published),
           pos' \in 0 .. Len(published), stored' \in 0 .. Len(published),
           open' \subseteq 1 .. Len(published), reindexed' \in Nat
    PROVE  FoldInv'
BY DEF FoldInv

\* The next row of the log.
LEMMA NextRow ==
    ASSUME FoldInv, pos < Len(published)
    PROVE  /\ Upcoming \in 1 .. Len(published) /\ Upcoming \in 0 .. Len(published)
           /\ Max({stored, Upcoming}) \in 0 .. Len(published)
<1>1. published \in Seq(Events) /\ pos \in 0 .. Len(published) /\ stored \in 0 .. Len(published)
  BY DEF FoldInv, LogInv, LogOK
<1>2. Len(published) \in Nat
  BY <1>1
<1>3. Upcoming \in 1 .. Len(published) /\ Upcoming \in 0 .. Len(published)
  BY <1>1, <1>2 DEF Upcoming
<1>4. stored \in Nat /\ Upcoming \in Nat
  BY <1>1, <1>2, <1>3
<1>5. Max({stored, Upcoming}) \in {stored, Upcoming}
  BY <1>4, LatestIs
<1> QED
  BY <1>1, <1>3, <1>5

\* Every action preserves the invariant: one case per action of FoldNext.
LEMMA FoldInvStep == FoldInv /\ [FoldNext]_foldVars => FoldInv'
<1> SUFFICES ASSUME FoldInv, [FoldNext]_foldVars PROVE FoldInv'
  OBVIOUS
<1>1. /\ LogInv(published, contract) /\ TablesInv(derived, applied, published)
      /\ pos \in 0 .. Len(published) /\ stored \in 0 .. Len(published)
      /\ open \subseteq 1 .. Len(published) /\ reindexed \in Nat /\ scenario \in Scenarios
      /\ published \in Seq(Events) /\ contract \in Contracts
  BY DEF FoldInv, LogInv, LogOK
<1>2. Len(published) \in Nat /\ scenario.loans \subseteq Loans
  BY <1>1, FoldAssumption
<1>3. CASE \E a \in Addresses : ContractMember(a)
  BY <1>1, <1>3, MemberPublishes, FoldInvPublish
<1>4. CASE \E l \in scenario.loans : ContractLoan(l)
  BY <1>1, <1>2, <1>4, LoanPublishes, FoldInvPublish
<1>5. CASE \E t \in Treasuries : ContractTreasury(t)
  BY <1>1, <1>5, TreasuryPublishes, FoldInvPublish
<1>6. CASE \E b \in Ballots : ContractVote(b)
  BY <1>1, <1>6, VotePublishes, FoldInvPublish
<1>7. CASE ContractOther
  BY <1>1, <1>7, OtherPublishes, FoldInvPublish
<1>8. CASE Fold
  <2>1. /\ pos < Len(published) /\ pos' = Upcoming /\ stored' = Max({stored, Upcoming})
        /\ scenario' = scenario /\ contract' = contract /\ published' = published /\ open' = open
        /\ reindexed' = reindexed
    BY <1>8 DEF Fold
  <2>2. TablesInv(derived', applied', published)
    <3>1. CASE Upcoming \in folded
      BY <1>1, <1>8, <3>1 DEF Fold
    <3>2. CASE Upcoming \notin folded
      <4>1. /\ ~Throws(published[Upcoming]) /\ derived' = applyEvent(derived, published[Upcoming])
            /\ applied' = Append(applied, Upcoming)
        BY <1>8, <3>2 DEF Fold
      <4>2. Upcoming \in 1 .. Len(published)
        BY <2>1, NextRow
      <4>3. TablesInv(applyEvent(derived, published[Upcoming]), Append(applied, Upcoming), published)
        BY <1>1, <4>1, <4>2, TablesGrow
      <4> QED
        BY <4>1, <4>3
    <3> QED
      BY <3>1, <3>2
  <2> QED
    BY <1>1, <2>1, <2>2, NextRow, FoldInvTables
<1>9. CASE Quarantine
  <2>1. /\ pos < Len(published) /\ pos' = Upcoming /\ stored' = Max({stored, Upcoming})
        /\ scenario' = scenario /\ contract' = contract /\ published' = published
        /\ open' = open \cup {Upcoming} /\ derived' = derived /\ applied' = applied
        /\ reindexed' = reindexed
    BY <1>9 DEF Quarantine
  <2>2. Upcoming \in 1 .. Len(published)
    BY <2>1, NextRow
  <2> QED
    BY <1>1, <2>1, <2>2, NextRow, FoldInvTables
<1>10. CASE Redeliver
  <2>1. /\ stored' = stored /\ scenario' = scenario /\ contract' = contract /\ published' = published
        /\ open' = open /\ derived' = derived /\ applied' = applied /\ reindexed' = reindexed
    BY <1>10 DEF Redeliver
  <2>2. pos' \in 0 .. Len(published)
    <3>1. PICK n \in 1 .. scenario.page : n <= pos /\ pos' = pos - n
      BY <1>10 DEF Redeliver
    <3> QED
      BY <1>1, <1>2, <3>1
  <2> QED
    BY <1>1, <2>1, <2>2, FoldInvTables
<1>11. ASSUME NEW i \in open, Replay(i) PROVE FoldInv'
  <2>1. /\ i \in folded \/ ~Throws(published[i])
        /\ pos' = pos /\ stored' = stored /\ scenario' = scenario /\ contract' = contract
        /\ published' = published /\ open' = open \ {i} /\ reindexed' = reindexed
    BY <1>11 DEF Replay
  <2>2. TablesInv(derived', applied', published)
    <3>1. CASE i \in folded
      BY <1>1, <1>11, <3>1 DEF Replay
    <3>2. CASE i \notin folded
      <4>1. /\ ~Throws(published[i]) /\ derived' = applyEvent(derived, published[i])
            /\ applied' = Append(applied, i) /\ i \in 1 .. Len(published)
        BY <1>1, <1>11, <3>2 DEF Replay
      <4>2. TablesInv(applyEvent(derived, published[i]), Append(applied, i), published)
        BY <1>1, <4>1, TablesGrow
      <4> QED
        BY <4>1, <4>2
    <3> QED
      BY <3>1, <3>2
  <2> QED
    BY <1>1, <2>1, <2>2, FoldInvTables
<1>12. CASE reindexFromEventLog
  <2>1. /\ \A i \in 1 .. stored : ~Throws(published[i])
        /\ derived' = Rebuild(published, stored) /\ applied' = [i \in 1 .. stored |-> i]
        /\ open' = {} /\ reindexed' = reindexed + 1
        /\ pos' = pos /\ stored' = stored /\ scenario' = scenario /\ contract' = contract
        /\ published' = published
    BY <1>12 DEF reindexFromEventLog
  <2>2. applied' = Ident(stored)
    BY <2>1 DEF Ident
  <2>3. TablesInv(Rebuild(published, stored), Ident(stored), published)
    BY <1>1, <2>1, TablesRebuilt
  <2>4. reindexed' \in Nat
    BY <1>1, <2>1
  <2>5. TablesInv(derived', applied', published)
    BY <2>1, <2>2, <2>3
  <2> QED
    BY <1>1, <2>1, <2>4, <2>5, FoldInvTables
<1>13. CASE UNCHANGED foldVars
  BY <1>13 DEF foldVars, FoldInv
<1> QED
  BY <1>3, <1>4, <1>5, <1>6, <1>7, <1>8, <1>9, <1>10, <1>11, <1>12, <1>13 DEF FoldNext

-----------------------------------------------------------------------------
(***************************************************************************)
(* The theorems.                                                           *)
(***************************************************************************)

\* The inductive invariant: the contract and its log are as the handlers expect them, and
\* the derived tables are the fold of the rows that were applied, in the order they were.
THEOREM FoldInvariant == FoldSpec => []FoldInv
<1>1. FoldInit => FoldInv
  BY FoldInvInit
<1>2. FoldInv /\ [FoldNext]_foldVars => FoldInv'
  BY FoldInvStep
<1> QED
  BY <1>1, <1>2, PTL DEF FoldSpec

\* Nobody is told twice of an event, however often it is folded again: after a redelivery,
\* a replay or a rebuild (handlers.ts notify, ON CONFLICT DO NOTHING).
THEOREM NobodyToldTwice == FoldSpec => []NotifiedOnce
<1>1. FoldInv => NotifiedOnce
  BY DEF FoldInv, TablesInv, FoldedFrom, NotifiedOnce
<1> QED
  BY <1>1, FoldInvariant, PTL

\* dao_totals, daily_loan_stats and loans agree with each other, in whatever order events
\* were folded, replayed, rebuilt or delivered again (handlers.ts loan_appr, loan_rpy,
\* loan_dflt).
THEOREM BooksAlwaysBalance == FoldSpec => []BooksBalance
<1>1. FoldInv => BooksBalance
  <2> SUFFICES ASSUME FoldInv PROVE BooksBalance
    OBVIOUS
  <2>1. Balanced(derived) /\ (RetriedAtOnce(applied) => ClosedBooks(derived))
    BY DEF FoldInv, TablesInv, FoldedFrom
  <2> QED
    BY <2>1 DEF BooksBalance, Balanced, ClosedBooks, Daily
<1> QED
  BY <1>1, FoldInvariant, PTL

\* A worker that took every event once and in order, or a rebuild of all of them, leaves
\* tables that mirror the contract (handlers.ts, every handler).
THEOREM TablesMirrorContract == FoldSpec => []MirrorsContract
<1>1. FoldInv => MirrorsContract
  <2> SUFFICES ASSUME FoldInv, InOrder, pos = Len(published) PROVE Mirrors(derived, contract)
    BY DEF MirrorsContract
  <2> DEFINE n == Len(published)
  <2>1. /\ published \in Seq(Events) /\ \A j \in 1 .. Len(applied) : ~Throws(published[applied[j]])
        /\ applied = Ident(Len(applied)) => derived = Rebuild(published, Len(applied))
        /\ (\A i \in 1 .. n : ~Throws(published[i])) => Mirrors(Rebuild(published, n), contract)
    BY DEF FoldInv, TablesInv, LogInv, LogOK
  <2>2. n \in Nat
    BY <2>1
  <2>3. applied = Ident(n)
    BY DEF InOrder, Ident
  <2>4. Len(applied) = n
    BY <2>2, <2>3, IdentIs
  <2>5. \A i \in 1 .. n : applied[i] = i
    BY <2>3 DEF Ident
  <2>6. \A i \in 1 .. n : ~Throws(published[i])
    BY <2>1, <2>4, <2>5
  <2> QED
    BY <2>1, <2>3, <2>4, <2>6
<1> QED
  BY <1>1, FoldInvariant, PTL

\* A rebuild of tables that were folded in order changes nothing in them: what
\* reindexFromEventLog writes is what the worker wrote (reindex.ts).
THEOREM RebuildAgreesWithWorker == FoldSpec => [](InOrder => derived = Rebuild(published, stored))
<1>1. FoldInv => (InOrder => derived = Rebuild(published, stored))
  <2> SUFFICES ASSUME FoldInv, InOrder PROVE derived = Rebuild(published, stored)
    OBVIOUS
  <2>1. /\ published \in Seq(Events) /\ stored \in 0 .. Len(published)
        /\ applied = Ident(Len(applied)) => derived = Rebuild(published, Len(applied))
    BY DEF FoldInv, TablesInv, LogInv, LogOK
  <2>2. stored \in Nat
    BY <2>1
  <2>3. applied = Ident(stored)
    BY DEF InOrder, Ident
  <2>4. Len(applied) = stored
    BY <2>2, <2>3, IdentIs
  <2> QED
    BY <2>1, <2>3, <2>4
<1> QED
  BY <1>1, FoldInvariant, PTL

\* A late event does not reopen what is closed: no step but a rebuild takes an approved
\* loan proposal or an executed treasury proposal out of its state (handlers.ts, the
\* AND status = 'pending' of loan_wait, loan_rej, loan_exp, tre_wait and tre_rej).
THEOREM ClosedStaysClosed == FoldSpec => StaysClosed
<1> DEFINE Kind(d, x) ==
              /\ \A l \in DOMAIN d.proposals :
                   d.proposals[l].status = "approved" => x.proposals[l].status = "approved"
              /\ \A t \in DOMAIN d.treasury :
                   d.treasury[t].status = "executed" => x.treasury[t].status = "executed"
<1>1. ASSUME FoldInv, [FoldNext]_foldVars, reindexed' = reindexed PROVE Kind(derived, derived')
  <2>1. /\ TablesOK(derived) /\ reindexed \in Nat /\ open \subseteq 1 .. Len(published)
        /\ \A i \in 1 .. Len(published) : Throws(published[i]) \/ EventOK(published[i])
    BY <1>1 DEF FoldInv, LogInv, LogOK, TablesInv, FoldedFrom
  <2>2. ASSUME derived' = derived PROVE Kind(derived, derived')
    BY <2>2
  <2>3. ASSUME NEW i \in 1 .. Len(published), ~Throws(published[i]),
               derived' = applyEvent(derived, published[i])
        PROVE  Kind(derived, derived')
    <3>1. KeepsClosed(derived, applyEvent(derived, published[i]))
      BY <2>1, <2>3, ApplyGood DEF Good
    <3> QED
      BY <2>3, <3>1 DEF KeepsClosed
  <2>4. CASE \E a \in Addresses : ContractMember(a)
    <3>1. derived' = derived
      BY <2>4, SMTT(30) DEF ContractMember, MemberEvent, Publish
    <3> QED
      BY <2>2, <3>1
  <2>5. CASE \/ \E l \in scenario.loans : ContractLoan(l)
             \/ \E t \in Treasuries : ContractTreasury(t)
             \/ \E b \in Ballots : ContractVote(b)
             \/ ContractOther
    <3>1. derived' = derived
      BY <2>5, ZenonT(40)
      DEF ContractLoan, LoanEvent, LoanClosed, ContractTreasury, TreasuryEvent, ContractVote,
          ContractOther, Publish
    <3> QED
      BY <2>2, <3>1
  <2>6. CASE Fold
    <3>1. CASE Upcoming \in folded
      BY <2>2, <2>6, <3>1 DEF Fold
    <3>2. CASE Upcoming \notin folded
      <4>1. /\ pos < Len(published) /\ ~Throws(published[Upcoming])
            /\ derived' = applyEvent(derived, published[Upcoming])
        BY <2>6, <3>2 DEF Fold
      <4>2. Upcoming \in 1 .. Len(published)
        BY <1>1, <4>1, NextRow
      <4> QED
        BY <2>3, <4>1, <4>2
    <3> QED
      BY <3>1, <3>2
  <2>7. CASE Quarantine \/ Redeliver \/ UNCHANGED foldVars
    <3>1. derived' = derived
      BY <2>7 DEF Quarantine, Redeliver, foldVars
    <3> QED
      BY <2>2, <3>1
  <2>8. ASSUME NEW i \in open, Replay(i) PROVE Kind(derived, derived')
    <3>1. CASE i \in folded
      BY <2>2, <2>8, <3>1 DEF Replay
    <3>2. CASE i \notin folded
      <4>1. ~Throws(published[i]) /\ derived' = applyEvent(derived, published[i]) /\ i \in 1 .. Len(published)
        BY <2>1, <2>8, <3>2 DEF Replay
      <4> QED
        BY <2>3, <4>1
    <3> QED
      BY <3>1, <3>2
  <2>9. CASE reindexFromEventLog
    <3>1. reindexed' = reindexed + 1
      BY <2>9 DEF reindexFromEventLog
    <3> QED
      BY <1>1, <2>1, <3>1
  <2> HIDE DEF Kind
  <2> QED
    BY <1>1, <2>4, <2>5, <2>6, <2>7, <2>8, <2>9 DEF FoldNext
<1>2. FoldInv /\ [FoldNext]_foldVars => [reindexed' = reindexed => Kind(derived, derived')]_foldVars
  BY <1>1
<1> QED
  BY <1>2, FoldInvariant, PTL DEF FoldSpec, StaysClosed
=============================================================================
