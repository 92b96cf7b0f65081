------------------------------ MODULE SqlLedger ------------------------------
(***************************************************************************)
(* SqlLedger (sql.py): debit and declare_run as the transactions that       *)
(* several sessions, of several processes, run against one database.        *)
(*                                                                          *)
(* A step of a session is a statement, and the database is modelled by what *)
(* sql.py relies on.  PostgreSQL at READ COMMITTED: a statement sees the    *)
(* rows committed when it starts and the session's own writes, and an       *)
(* upsert waits for the other transaction that holds the row.  SQLite: the  *)
(* first DML statement takes the one write lock.                            *)
(*                                                                          *)
(* "balances" stands for the rows of {prefix}balances together with the     *)
(* rows of {prefix}balance_money that share their (scope, window_key): both *)
(* are written under the lock of the balances row.  "own" is a session's    *)
(* uncommitted version of the rows it has upserted.                         *)
(***************************************************************************)
EXTENDS History

CONSTANTS Sessions,      \* database sessions
          Debits,        \* the debits callers make
          DeclaredRuns,  \* the runs callers declare
          CeilingSets,   \* the ceilings a ledger is built with, chosen per operation
          WindowOrder,   \* the position of each window key in sorted order
          Dialect,       \* "sqlite" or "postgresql"
          EntryIds       \* ids the generator may draw (Nat, or a bound for TLC)

ASSUME SqlAssumption ==
    /\ Debits \subseteq Debit
    /\ DeclaredRuns \subseteq Runs
    /\ CeilingSets \subseteq Seq(BudgetCeiling)
    /\ WindowOrder \in [ScopeKey -> Nat \ {0}]
    /\ \A k1, k2 \in ScopeKey : WindowOrder[k1] = WindowOrder[k2] => k1 = k2
    /\ Dialect \in {"sqlite", "postgresql"}
    /\ EntryIds \subseteq Nat

VARIABLES balances,     \* committed balance rows, NONE where there is no row
          runs,         \* committed run rows: declared_at, or NONE
          entries,      \* committed entry rows, in commit order
          minted,       \* entry ids drawn so far
          pc,           \* what each session does next
          call,         \* the operation each session runs
          todo,         \* windows its debit has still to upsert
          own,          \* its uncommitted balance rows
          own_run,      \* its uncommitted run row
          money_rows,   \* what its first SELECT, on balance_money, returned
          entry         \* its uncommitted entry row

committed == <<balances, runs, entries>>
vars == <<balances, runs, entries, minted, pc, call, todo, own, own_run, money_rows, entry>>

-----------------------------------------------------------------------------
Call == [op : {"debit"}, debit : ResolvedDebit, ceilings : Seq(BudgetCeiling), entry_id : Nat]
        \cup [op : {"declare_run"}, debit : [run_id : Runs, occurred_at : Instants]]

\* An entry keeps the estimate the caller passed; the canonical record drops it.
LedgerEntry == [entry_id : Nat, debit : ResolvedDebit, unpriced : BOOLEAN,
                verdicts : Seq(CeilingVerdict)]

ASSUME NoneIsNoEntry == NONE \notin LedgerEntry

NoOwnRows == [key \in ScopeKey |-> NONE]
NoMoney == [key \in ScopeKey |-> EMPTY_BALANCE.nanos_by_currency]

\* The row a statement of session s sees.
Visible(s, key) == IF own[s][key] # NONE THEN own[s][key] ELSE balances[key]

\* INSERT ... ON CONFLICT DO UPDATE SET column = column + excluded.column, and the
\* same on balance_money when the contribution priced something.
InsertedRow(c) ==
    [tokens_spent |-> c.tokens,
     nanos_by_currency |-> [currency \in Currencies |->
        IF c.priced /\ c.currency = currency THEN c.nanos ELSE NONE],
     unpriced_debit_count |-> Count(c.unpriced),
     untotalled_debit_count |-> Count(c.untotalled),
     unmetered_debit_count |-> Count(c.unmetered)]

\* Mutant: DO UPDATE SET nanos = excluded.nanos.
MoneyReplaced(nanos, c) == c.nanos

MoneyUpserted(nanos, c) == IF nanos = NONE THEN c.nanos ELSE nanos + c.nanos

SummedRow(row, c) ==
    [tokens_spent |-> row.tokens_spent + c.tokens,
     nanos_by_currency |-> [currency \in Currencies |->
        IF c.priced /\ c.currency = currency
        THEN MoneyUpserted(row.nanos_by_currency[currency], c)
        ELSE row.nanos_by_currency[currency]],
     unpriced_debit_count |-> row.unpriced_debit_count + Count(c.unpriced),
     untotalled_debit_count |-> row.untotalled_debit_count + Count(c.untotalled),
     unmetered_debit_count |-> row.unmetered_debit_count + Count(c.unmetered)]

UpsertSum(row, c) == IF row = NONE THEN InsertedRow(c) ELSE SummedRow(row, c)

\* The windows the call's ceilings read.
WindowsRead(s) ==
    {window_for(call[s].ceilings[i], call[s].debit.run_id, call[s].debit.occurred_at) :
        i \in DOMAIN call[s].ceilings}

\* Mutant: the counts are read from the committed rows, outside the transaction.
SeededCommitted(s) ==
    [key \in ScopeKey |->
        IF key \notin WindowsRead(s) \/ balances[key] = NONE THEN NONE
        ELSE [balances[key] EXCEPT !.nanos_by_currency = money_rows[s][key]]]

\* The book _seed_from_rows fills: a window without a balances row is not seeded.
Seeded(s) ==
    [key \in ScopeKey |->
        IF key \notin WindowsRead(s) \/ Visible(s, key) = NONE THEN NONE
        ELSE [Visible(s, key) EXCEPT !.nanos_by_currency = money_rows[s][key]]]

-----------------------------------------------------------------------------
(* Locks *)

Writing(s) == pc[s] \in {"advance", "read_money", "read_balances", "commit"}

\* The first DML statement, INSERT INTO runs, must wait for session t.
RunBlockedBy(s, t) ==
    /\ t # s
    /\ Writing(t)
    /\ \/ Dialect = "sqlite"
       \/ own_run[t] # NONE /\ call[t].debit.run_id = call[s].debit.run_id

RowBlockedBy(s, key, t) == t # s /\ own[t][key] # NONE

-----------------------------------------------------------------------------
Init ==
    /\ balances = EmptyBook
    /\ runs = [r \in Runs |-> NONE]
    /\ entries = <<>>
    /\ minted = 0
    /\ pc = [s \in Sessions |-> "idle"]
    /\ call = [s \in Sessions |-> NONE]
    /\ todo = [s \in Sessions |-> {}]
    /\ own = [s \in Sessions |-> NoOwnRows]
    /\ own_run = [s \in Sessions |-> NONE]
    /\ money_rows = [s \in Sessions |-> NoMoney]
    /\ entry = [s \in Sessions |-> NONE]

\* debit, up to "with self._writing()": the instant, the currency check, the entry id.
\* A refused debit raises here and takes no step.
BeginDebit(s) ==
    /\ pc[s] = "idle"
    /\ minted + 1 \in EntryIds
    /\ \E d \in Debits, now \in Instants, ceilings \in CeilingSets :
        LET debit == resolved_debit(d, now)
        IN  /\ currency_compatible(ceilings, debit.cost, debit.run_id, debit.occurred_at,
                                   debit.tags)
            /\ call' = [call EXCEPT ![s] = [op |-> "debit", debit |-> debit,
                                            ceilings |-> ceilings, entry_id |-> minted + 1]]
            /\ todo' = [todo EXCEPT ![s] = WindowsOf(debit)]
    /\ minted' = minted + 1
    /\ pc' = [pc EXCEPT ![s] = "note_run"]
    /\ UNCHANGED <<committed, own, own_run, money_rows, entry>>

BeginDeclareRun(s) ==
    /\ pc[s] = "idle"
    /\ \E run_id \in DeclaredRuns, now \in Instants :
        call' = [call EXCEPT ![s] = [op |-> "declare_run",
                                     debit |-> [run_id |-> run_id, occurred_at |-> now]]]
    /\ pc' = [pc EXCEPT ![s] = "note_run"]
    /\ UNCHANGED <<committed, minted, todo, own, own_run, money_rows, entry>>

\* INSERT INTO runs ... ON CONFLICT DO NOTHING.
NoteRun(s) ==
    LET debit == call[s].debit
    IN  /\ pc[s] = "note_run"
        /\ \A t \in Sessions : ~RunBlockedBy(s, t)
        /\ own_run' = [own_run EXCEPT ![s] = IF runs[debit.run_id] = NONE
                                             THEN debit.occurred_at ELSE NONE]
        /\ pc' = [pc EXCEPT ![s] = IF call[s].op = "debit" THEN "advance" ELSE "commit"]
        /\ UNCHANGED <<committed, minted, call, todo, own, money_rows, entry>>

\* Mutant: "for key in touched".
NextWindowUnsorted(s, key) == key \in todo[s]

\* The loop "for key in sorted(touched)": one window per step.
NextWindow(s, key) ==
    /\ key \in todo[s]
    /\ \A other \in todo[s] : WindowOrder[key] <= WindowOrder[other]

AdvanceBalance(s) ==
    /\ pc[s] = "advance"
    /\ \E key \in ScopeKey :
        /\ NextWindow(s, key)
        /\ \A t \in Sessions : ~RowBlockedBy(s, key, t)
        /\ own' = [own EXCEPT ![s][key] =
                    UpsertSum(Visible(s, key),
                              contribution_of(call[s].debit.usage, call[s].debit.cost))]
        /\ todo' = [todo EXCEPT ![s] = @ \ {key}]
        /\ pc' = [pc EXCEPT ![s] = IF todo[s] = {key} THEN "read_money" ELSE "advance"]
    /\ UNCHANGED <<committed, minted, call, own_run, money_rows, entry>>

\* _seed_from_rows, first SELECT.
ReadMoney(s) ==
    /\ pc[s] = "read_money"
    /\ money_rows' = [money_rows EXCEPT ![s] =
                        [key \in ScopeKey |->
                            IF key \in WindowsRead(s) /\ Visible(s, key) # NONE
                            THEN Visible(s, key).nanos_by_currency
                            ELSE EMPTY_BALANCE.nanos_by_currency]]
    /\ pc' = [pc EXCEPT ![s] = "read_balances"]
    /\ UNCHANGED <<committed, minted, call, todo, own, own_run, entry>>

\* _seed_from_rows, second SELECT; then the verdicts and INSERT INTO entries, which
\* touch no row that another session can see.
ReadBalances(s) ==
    LET debit == call[s].debit
    IN  /\ pc[s] = "read_balances"
        /\ entry' = [entry EXCEPT ![s] =
                        [entry_id |-> call[s].entry_id,
                         debit    |-> debit,
                         unpriced |-> is_unpriced(debit.cost),
                         verdicts |-> verdicts(call[s].ceilings, Seeded(s), debit.run_id,
                                               debit.occurred_at)]]
        /\ pc' = [pc EXCEPT ![s] = "commit"]
        /\ UNCHANGED <<committed, minted, call, todo, own, own_run, money_rows>>

\* session.close(): the transaction's locks and uncommitted rows are gone.
Close(s) ==
    /\ pc' = [pc EXCEPT ![s] = "idle"]
    /\ call' = [call EXCEPT ![s] = NONE]
    /\ todo' = [todo EXCEPT ![s] = {}]
    /\ own' = [own EXCEPT ![s] = NoOwnRows]
    /\ own_run' = [own_run EXCEPT ![s] = NONE]
    /\ money_rows' = [money_rows EXCEPT ![s] = NoMoney]
    /\ entry' = [entry EXCEPT ![s] = NONE]

Commit(s) ==
    /\ pc[s] = "commit"
    /\ balances' = [key \in ScopeKey |-> Visible(s, key)]
    /\ runs' = IF own_run[s] = NONE THEN runs
               ELSE [runs EXCEPT ![call[s].debit.run_id] = own_run[s]]
    /\ entries' = IF entry[s] = NONE THEN entries ELSE Append(entries, entry[s])
    /\ Close(s)
    /\ UNCHANGED minted

\* Any statement may raise (a lock timeout, a lost connection, an interrupt), and the
\* process may die: the transaction is rolled back.
Rollback(s) ==
    /\ pc[s] # "idle"
    /\ Close(s)
    /\ UNCHANGED <<committed, minted>>

Step(s) == NoteRun(s) \/ AdvanceBalance(s) \/ ReadMoney(s) \/ ReadBalances(s) \/ Commit(s)

Next == \E s \in Sessions :
            BeginDebit(s) \/ BeginDeclareRun(s) \/ Step(s) \/ Rollback(s)

Spec == Init /\ [][Next]_vars

-----------------------------------------------------------------------------
(* Fairness: a session keeps executing statements, and a session that waits  *)
(* for a lock gets it if it is free again and again: PostgreSQL queues the   *)
(* waiters of a row.  Nothing is assumed of Rollback, so what follows from   *)
(* FairSpec does not rest on timeouts or on the server's deadlock detector.  *)

FairSpec == Spec /\ \A s \in Sessions : SF_vars(Step(s))

-----------------------------------------------------------------------------
(* The atomic ledger this module implements: committed rows are its state.   *)

AbstractEntries ==
    [i \in DOMAIN entries |->
        [debit    |-> entries[i].debit,
         unpriced |-> entries[i].unpriced,
         report   |-> report(entries[i].verdicts, entries[i].debit, Dialect = "sqlite")]]

L == INSTANCE Ledger WITH book <- balances,
                          runs <- {r \in Runs : runs[r] # NONE},
                          entries <- AbstractEntries,
                          ReportsEvery <- (Dialect = "sqlite"),
                          HistoryLengths <- Nat

-----------------------------------------------------------------------------
(* Properties *)

PCs == {"idle", "note_run", "advance", "read_money", "read_balances", "commit"}

(* Type invariant of the tables and of the sessions (sql.py                    *)
(* mount_ledger_tables and the locals of SqlLedger.debit).                     *)
TypeOK ==
    /\ balances \in Book
    /\ runs \in [Runs -> Instants \cup {NONE}]
    /\ entries \in Seq(LedgerEntry)
    /\ minted \in Nat
    /\ pc \in [Sessions -> PCs]
    /\ call \in [Sessions -> Call \cup {NONE}]
    /\ todo \in [Sessions -> SUBSET ScopeKey]
    /\ own \in [Sessions -> Book]
    /\ own_run \in [Sessions -> Instants \cup {NONE}]
    /\ money_rows \in [Sessions -> [ScopeKey -> [Currencies -> Nat \cup {NONE}]]]
    /\ entry \in [Sessions -> LedgerEntry \cup {NONE}]

(* Each row has at most one uncommitted version (sql.py class docstring, "a    *)
(* concurrent writer blocks on it until this transaction commits"): no two     *)
(* sessions have upserted one window or inserted one run, and on SQLite no     *)
(* two sessions write at all.                                                  *)
RowExclusion ==
    \A s, t \in Sessions :
        s # t => /\ \A key \in ScopeKey : own[s][key] = NONE \/ own[t][key] = NONE
                 /\ own_run[s] # NONE /\ own_run[t] # NONE
                        => call[s].debit.run_id # call[t].debit.run_id
                 /\ Dialect = "sqlite" => ~(Writing(s) /\ Writing(t))

(* No lost update and no half-committed debit (sql.py SqlLedger.debit, spec.md *)
(* contract 5): whatever sessions interleave, fail or die, the committed rows  *)
(* of every window are exactly what the committed entries add up to.           *)
BooksMatchEntries == AddsUp(balances, entries)

(* Every commit is one atomic operation of the promised ledger: balances, run  *)
(* and entry appear together, and the entry's verdicts are those over the      *)
(* balances it commits, on SQLite for every ceiling and on PostgreSQL for the  *)
(* ceilings over the windows the debit touched.                                *)
RefinesLedger == L!Spec

(* Waiting never closes a cycle (sql.py, "rows are also upserted in sorted key *)
(* order, so two debits touching two windows in common cannot deadlock"): the  *)
(* lock position a session waits at rises along every chain of waits.          *)
Waits(s, t) ==
    \/ pc[s] = "note_run" /\ RunBlockedBy(s, t)
    \/ pc[s] = "advance" /\ \E key \in ScopeKey : NextWindow(s, key) /\ RowBlockedBy(s, key, t)

WaitsAt(s) ==
    IF pc[s] = "advance" THEN {WindowOrder[key] : key \in {k \in ScopeKey : NextWindow(s, k)}}
    ELSE {0}

WaitsClimb ==
    \A s, t, u \in Sessions :
        Waits(s, t) /\ Waits(t, u) => \A m \in WaitsAt(s), n \in WaitsAt(t) : m < n

(* Every call returns (sql.py, concurrent debits cannot deadlock): without     *)
(* relying on a timeout, each begun debit or declaration commits or fails.     *)
EveryCallReturns == \A s \in Sessions : pc[s] # "idle" ~> pc[s] = "idle"

(* Each debit's verdicts are a self-consistent snapshot (sql.py class          *)
(* docstring): all of them, also over windows the debit did not touch,         *)
(* describe the ledger after some prefix of the history plus this debit.       *)
VerdictsAreSnapshots ==
    \A e \in DOMAIN entries :
        LET debit    == entries[e].debit
            ceilings == [i \in DOMAIN entries[e].verdicts |-> entries[e].verdicts[i].ceiling]
        IN  \E k \in 0..(e - 1) :
                entries[e].verdicts = verdicts(ceilings, record(BookAfter(entries)[k], debit),
                                               debit.run_id, debit.occurred_at)

=============================================================================
