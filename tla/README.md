# LoadLedger in TLA+

LoadLedger records what model calls cost against budgets. A caller *debits* token
usage and, when a price was known, a cost estimate; the ledger adds it to the
balance of every *window* the debit touches (its run, its UTC day, each of its
tags) and answers with a *verdict* per configured ceiling. The same evaluation
engine runs over two stores: process memory and an application's own SQL
database, where several processes debit concurrently.

This directory models that engine, both stores, the reads that race the writes,
the callers that rely on the answers and the price file the estimates come from.
TLC checks the models on small instances; TLAPS proves every safety property of a
passing run for every instance. Paths below are relative to the repository, and `sql.py`,
`memory.py`, `core.py`, `types.py` and `pricing.py` are in `src/loadledger/`.

## 1. The system

| Component | State | Operations | Interacts with |
|---|---|---|---|
| `BalanceBook` (`core.py`) | a balance per window: tokens, nanos per currency, three honesty counts | `record`, `require_currency_compatible`, `verdicts` (with or without a prospective debit), `verdicts_without_run`, `balance_for`, `seed` | called by both ledgers; not thread-safe by itself |
| `Ledger` protocol (`core.py`) | what both stores promise | `debit`, `declare_run`, `would_exceed`, `remaining`, `balances`, `position`, `entries` | the API of a caller |
| `InMemoryLedger` (`memory.py`) | book, set of runs, list of entries, ULID generator, one lock | the protocol, each operation under the lock | threads of one process; an injected clock |
| `SqlLedger` writes (`sql.py`) | none of its own: tables `runs`, `balances`, `balance_money`, `entries` | `debit`, `declare_run`, one transaction each, or a savepoint of the host's transaction | sessions of many processes, through the database's row locks (PostgreSQL) or write lock (SQLite) |
| `SqlLedger` reads (`sql.py`) | none | `would_exceed`, `remaining`, `position`, `balances`, `entries`, in a session that is rolled back | race the writers' commits |
| Value types (`types.py`) | immutable | validation, canonical form | what the SQL rows hold |
| Pricing records (`pricing.py`) | immutable | `load_pricing_records`, `price_for_model`, `records_claiming` | an operator's price file; callers build estimates from them |
| Table mounting (`sql.py`) | DDL metadata | `mount_ledger_tables` | the host's migrations |

What is hard here:

* **concurrency**: debits of several processes advance the same rows; the code
  relies on in-place upserts, on a sorted lock order, and on the read-back coming
  after the writes; reads and read-backs use *two* SELECTs; threads share one book;
* **callers**: a caller asks, spends, then debits, and others do the same between;
* **failure**: any statement of a debit can fail, a host can roll back debits that
  had returned, a commit's outcome can get lost, and the process can die;
* **ordering**: instants are resolved and entry ids drawn before the transaction,
  commits happen in any order;
* **honesty**: unknown, partial and absent prices must never read as zero, and no
  "under budget" may rest on an incomplete sum;
* **boundaries**: midnight, back-dated debits, instants in other offsets, a cap spent
  exactly, a cap of zero, prices whose validity ends at the instant of a call.

What makes each component correct:

* the book is what the entries add up to, and so is every verdict an entry stores; the
  pre-flight answer is the verdict the debit would get; a strict ceiling says "under"
  only over a complete sum; no cap silently misses spend while it is in force;
* a ledger's debit is atomic for every observer, and every call returns;
* a read is never turned around by a commit it races, and a stored entry reads back
  as the one that was returned;
* a call is priced by the newest record of the weights that answered, now and when
  history is re-costed, and an unstated rate is not a free one;
* callers that serialise their approvals never exceed a cap; others overshoot it by
  no more than what was in flight.

`PROJECT.json` lists every hazard at its line with the properties that cover it.

## 2. Modules

| Module | Models | Based on |
|---|---|---|
| `BalanceBook` | the engine and the value types, as operators on a *book* | - |
| `History` | what the balances ought to be, recomputed from a history of entries | `BalanceBook` |
| `Ledger` | the abstract ledger: each operation one atomic step | `History` |
| `Approvals` | callers that ask `would_exceed` and then debit | extends `Ledger` |
| `InMemoryLedger` | threads, lock, interrupts, the five reads | `History`; implements `Ledger` |
| `SqlLedger` | sessions of statements, locks, rollback, both dialects | `History`; implements `Ledger` |
| `HostTransaction` | debits joined to a host transaction as savepoints | extends `SqlLedger` |
| `SqlReads` | the two-SELECT reads | extends `Ledger`, whose steps are the commits |
| `EntryReads` | stored rows, `entries()` and its filters, pollers | `BalanceBook` |
| `PriceCatalogue` | the price file, loading, resolution, estimates | `BalanceBook` |
| `BalanceBookProofs`, `LedgerProofs`, `InMemoryLedgerProofs`, `SqlLedgerProofs`, `HostTransactionProofs`, `EntryReadsProofs`, `PriceCatalogueProofs` | theorems | the module they are named for |
| `CallersProofs` | theorems | `Approvals` and `SqlReads`, both extensions of `Ledger` |
| `MC...` | the instances for TLC | the module they are named for |

The names of the code are kept: `record`, `verdicts`, `window_for`,
`contribution_of`, `windows_touched` are the functions of `core.py`.

**BalanceBook.** A book is a function from windows (`ScopeKey`) to a balance or
`NONE`. `NONE` is a window that nothing landed in, which the code keeps distinct
from a zero balance; a currency mapped to `NONE` likewise had nothing priced in
it. `_verdict_for` is `verdict_over`; `BalanceBook.verdicts` is `verdicts` or,
when a prospective debit is stated, `prospective_verdicts`. Instants are ticks and
`utc_day_key` divides by the ticks of a day. Amounts are natural numbers: nanos
and token counts are never negative in the code's types. Money is added as exact
integers, as in the code.

**Ledger.** `RecordDebit` is guarded by `currency_compatible`: a refused debit
takes no step. An entry holds the verdicts it is *held to* (`report`): all of them
if `ReportsEvery`, otherwise those over the windows the debit touched.

**History.** The reference that all three ledgers are held to: a window's balance
recomputed from a list of entries with set sums and cardinalities, without the
running sums of `BalanceBook`, so `BookIsEntries`, `BooksMatchEntries` and
`BookCoversEntries` compare two independent definitions (`AddsUp`). `BookAfter` is
the book after each prefix, one debit at a time.

**Approvals.** A caller is approved (`Approve`) in the state it asked in, and debits
(`Spend`) in another, perhaps on another day; in between its call may fail
(`Abandon`). `SpendUnnoticed` is a commit whose outcome the caller does not learn:
it keeps its plan and debits again, since a debit carries no key that would identify
the retry. `serialised` never changes; it makes one specification of the callers
that hold a gate from approval to debit and of those that do not. The clock never
goes back.

**InMemoryLedger.** One action per step under the lock. `Refuse` is
`CurrencyMismatch`. `Interrupt` is an exception that leaves the critical section:
`KeyboardInterrupt`, or the injected clock raising inside `new_id()`; the `with`
block releases the lock and nothing is undone, and `BalanceBook.record` may have
reached some windows, and some fields of the window it was at. `raised` is auxiliary
and notes that this has happened, since nothing repairs the book afterwards:
`RefinesLedger` and `ReadsAreSnapshots` are about the steps before, `BookCoversEntries`
also about those after. `Read` is any of the
five reads (`Query`); its `answer` also notes how many entries there were, for
`ReadsAreSnapshots`. A read that raises takes no step.

**SqlLedger.** One step per SQL statement (the two upserts of one window, on
`balances` and `balance_money`, are one step: both are under the lock of the
`balances` row). `own` and `own_run` are a session's uncommitted row versions;
`Visible` is what a statement sees at READ COMMITTED: the session's own version,
else the committed one. `RowBlockedBy` and `RunBlockedBy` say when an upsert
waits. On SQLite the first DML statement waits for every other writing
transaction. `ReadMoney` and `ReadBalances` are the two SELECTs of
`_seed_from_rows`; `ReadBalances` also computes the verdicts and inserts the entry,
which no other session can see before the commit. `Rollback` may happen at any
point: a failed statement, a lock timeout, a killed process.

The database is not under `src/`: its visibility and locking are modelled from
what `sql.py` states and relies on (class docstring of `SqlLedger`), and those
definitions are marked external in `map`. No property of this module depends on the
order of entry ids, so the generator is a counter here; `EntryReads` models ULIDs.

**HostTransaction.** The session factory joins the ledger's session to a transaction
the host has open. `JoinDebit` sets a savepoint, `Release` is the ledger's
`commit()`, `FailDebit` its `rollback()`, and neither ends the transaction: `own`,
`host_runs` and `pending` keep its rows and locks until `HostCommit` or
`HostRollback`. The statements in between are `SqlLedger`'s.

**SqlReads.** Readers take `require_known`, `read_money`, `read_balances` as
separate steps between which `Ledger` commits. `first_book` is an auxiliary
variable used only to state the properties.

**EntryReads.** A moment is a wall clock and an offset, because the dialects keep
different halves of it: SQLite stores the wall clock and drops the offset,
PostgreSQL keeps the instant and answers in the server's zone (`Bound`,
`Fetched`). `row_of` and `entry_from_row` are the canonical form and its inverse.
`store` never changes: one instance checks `memory_entries` and `sql_entries` on
both dialects over the same histories. `Verdicts` are sequences of verdicts a debit
may have got; how they are computed does not matter to what is stored. An answer
lists positions (`InOrder`) in memory and ids (`InIdOrder`) in SQL. A poller asks
with the instant of its previous call as `since`. Two variables are auxiliary and
only state the properties: `overtaken`, the debits that were in progress while a
poller asked, and `backdated`, those whose caller stated `occurred_at`. `NewId` draws a
ULID: `Ulids` gives the ids of each instant, which sort after those of any earlier one.
The one generator of `InMemoryLedger` draws them in ascending order; generators of
several processes draw those of one instant in any order. A SQL debit reads the clock
for `occurred_at` and draws its id in one step here: a poll between the two is one that
overtakes the debit.

**PriceCatalogue.** An operator appends observations to the file (`Observe`), some of
them unusable, and takes those out one at a time (`Repair`); the application loads all of the file
or refuses to start (`Start`), estimates before it knows which model answers
(`Preflight`), and prices the call once it does (`Call`). A model name is the
sequence of its parts between `@`, which is what `rpartition` distinguishes; a
remainder that ends in a digest names the weights so pinned.
`readable` stands for the fields of a record on which nothing depends once they are
read. A digest that is written as something other than a string (`NOT_TEXT`) is read as
none stated (`digest_of`), as in the code. `estimate_cost` belongs to a library; it is modelled from what `pricing.py` and
`types.py` say of it and marked external in `map`, as the operator's actions are.

Definitions marked `Mutant:` are wrong variants of the definition below them, for the
properties that some run checks; substituting one must make that property
fail. They are not part of any specification.

## 3. Runs

Bounds are chosen so that the case a run is about happens and one more repetition
of it fits. Constants: one or two runs, one or two tags, one or two currencies, two
instants in two UTC days (three in the price file; three in a day and a half for
stored rows), caps of 0 to 4 reached within two or three debits.

| Run | Question | Bound |
|---|---|---|
| `ledger` | Do running balances, and the verdicts stored with each entry, equal what the entries add up to? Does pre-flight foretell a debit made now, or dated, and for which ceilings? Do strict ceilings vouch for complete sums? Which caps see all spend? | histories of 3 of 5 debits: priced, partly priced, unpriced, estimate that priced nothing, other currency; 3 ceiling sets |
| `approvals` | Do serialised callers keep every cap, across midnight? By how much can others overshoot? | 3 callers, 5 entries, up to 2 lost outcomes, 5 debits over 2 runs, 3 ceilings |
| `memory` | Is a debit atomic across threads, is every read a snapshot, are ids in append order, and what survives exceptions under the lock? | 2 threads, 3 debits, one of them refused, all five reads, `Interrupt` at every step; no reads after an exception (`ReadsStop`): they change nothing and no property is about them |
| `postgres` | Is any update lost, is every commit an atomic debit, can waits form a cycle, does every call return? | 2 sessions, 3 entry ids, debits sharing windows in different sets over two days |
| `sqlite` | Are all verdicts exact under the single write lock? | the same on SQLite |
| `postgres_torn_verdict` | Are verdicts over other windows snapshots on PostgreSQL? Violated. | 2 sessions, 2 debits of different days |
| `host_transaction` | What do joined debits keep, and which hosts never wait in a cycle and are sure to finish? | 2 hosts, 3 entry ids: two debits in one transaction against another; one declared run and one new one |
| `host_deadlock` | Can two hosts wait for each other? Violated. | the same, no run declared: one host joins two debits, the other one |
| `reads` | Can a racing debit turn a verdict around, or hide a partial sum? | 1 reader, 3 entries; readers share nothing, so one shows it |
| `entries` | Do rows read back, do the filters agree with memory, what can a caller miss that polls by instant or goes on from an id? | 2 writers, 1 poller, 3 entries in 3 offsets, 2 ids in an instant, 12 filters, all three stores |
| `price_catalogue` | Is each call priced by the right record, never free by omission, and re-costed consistently? | 3 records of 10 kinds, 4 model names, 3 days, one call (every property is about one call) |
| `price_digest` | Does a record that states a digest price no other weights? Violated. | 2 records |

The only unbounded state is in counters and histories: entry ids (`EntryIds`,
`EntryNumbers`), calls (`CallNumbers`), entries (`HistoryLengths`), lost outcomes (`Losses`), records
(`FileLengths`). Each bound is a constant that the theorems leave arbitrary.

Debits of one UTC day queue on the shared `per_day` row, which is first in the
sorted order, so they never overlap further. Torn verdicts and waits for several
rows need debits of different days (back-dated, or around midnight); the instances
therefore mix two days.

Symmetry of sessions, threads, callers or writers is used only where all properties
are safety properties. Deadlock is checked except in `host_transaction` and
`host_deadlock`, where two hosts may wait for each other, and in `entries`, where
nothing is left to do once the ids and the clock have run out. Elsewhere an idle
session can always declare a run, ask again or reload.

**What the passing runs show.**

* No update is lost and no debit is half committed, under any interleaving of
  statements, failures and rollbacks. Each commit implements one step of `Ledger`:
  with every verdict exact on SQLite, and with the verdicts over the windows the
  debit touched exact on PostgreSQL. No wait cycle exists and every call returns.
* In memory, until a debit raises half-way, each is atomic and every read answers for a
  whole number of debits. Such an exception over-counts but never under-counts.
* A stored verdict tells the history up to its own debit: spend, counts and "exceeded",
  recomputed from the entries by run, UTC day and tag. Pre-flight tells the same verdict
  in advance, except for a debit that its caller dates on another day: `would_exceed`
  has no instant and answers for the clock's, so its `per_day` verdicts are of today and
  not of the day the debit lands in. A ceiling that was in force for every debit since
  its window was empty holds spend in no currency but its own.
* A read that races a commit is bracketed by the states before and after, and because
  money is read before the counts, a clean count is never shown beside a sum that
  holds a partial price.
* Joined debits keep these promises until the host decides: balances are the
  committed entries, and each entry's verdicts over its own windows are those of the
  history it is finally committed in, whatever savepoints were rolled back. Hosts
  whose debits share a UTC day and whose runs are declared beforehand queue on the
  day's row: none waits for a host that waits itself, and all finish.
* Callers behind a gate never exceed a ceiling, also in a day nobody asked about.
  Without the gate they exceed it by at most one debit for each *other* caller, plus
  one for each lost outcome that is retried; a strict ceiling keeps estimates that
  do not total out with no gate at all.
* A stored entry reads back as returned, without its estimate, on both dialects and
  from any offset. A poller misses only debits in progress while it asked; a caller
  that goes on from the greatest id it has skips those and, with several processes, a
  debit of the very instant of that id.
* A call gets the newest price of its own weights, among records whose digest is a
  string or not stated; an unstated rate is never free; re-costing never goes back to an
  older price while the file only grows.

**What the violated runs show**, each a sentence of the documentation that the code
does not keep:

* `postgres_torn_verdict`: `sql.py` says each debit's verdicts are "a
  self-consistent snapshot". The two read-back SELECTs have different snapshots, so
  the verdict over a window *the debit does not touch* can pair old money with new
  tokens.
* `host_deadlock`: `README.md` says "rows are locked in sorted key order, so
  concurrent debits cannot deadlock". A host that joins two debits holds the rows of
  the first while it takes those of the second, which may sort before them; one such
  host and one other debit are enough.
* `price_digest`: `docs/packages/loadledger/spec.md` says "a record STATING a digest
  matches only that digest". `_record_of` (`pricing.py:182`) reads a digest that is
  stated as anything but a string as none, without a refusal, and the record then prices
  the model under any digest.

Five smaller differences were met while modelling and have no run of their own:

* `docs/packages/loadledger/spec.md` says `entry_id` order "is insertion order"; on SQL the id is drawn
  before the transaction and two writers may commit in the other order (`entries`'
  docstring limits the claim to one writer). `EntryIdIsInsertionOrder` is therefore a
  property of `InMemoryLedger` only.
* `balances` of `SqlLedger` can return tokens of one state with money of an earlier
  one, which the lock of `InMemoryLedger` excludes. `AnswerIsBracketed` and
  `CleanCountMeansCleanSum` say what it does keep.
* `types.py` says "a ledger records both together or neither"; in memory, an
  exception after `record` leaves spend without an entry. `BookCoversEntries` is
  what remains true.
* `entries` says that two queries with touching bounds return each entry exactly
  once. The bound is inclusive, so an entry dated at the very instant of a poll may
  be returned twice, and one committed after the poll by a debit that began before
  it may be returned by neither. `OnlyInFlightIsMissed` excludes exactly the second.
* `pricing.py` says that "the only estimate that cannot under-state a budget is the worst
  case" over the records claiming an instant. The call is made later: a loaded record
  whose `effective_from` passes in between was not in the maximum, and may price it
  higher. Nothing in the code bounds by how much, so no property is stated of it.

**Fairness.** `postgres` assumes `SF_vars(Step(s))` for each session. A
session that can execute its next statement executes it; strong rather than weak
because a waiting upsert is disabled and enabled again as others take and release
the row, and PostgreSQL queues the waiters of a row. Nothing is assumed of
`BeginDebit`, `BeginDeclareRun` or `Rollback`, so the result does not rest on
timeouts or on the deadlock detector. `host_transaction` assumes the same of a
host's statements and, separately, of `HostCommit`: a host that keeps having the
opportunity to end its transaction ends it, instead of joining debits for ever.
Nothing is assumed of `FailDebit` or `HostRollback`; where hosts may deadlock, the
property claims nothing (its condition is `QueuesOn`). `QueuingHostsNeverCycle`, its
safety half, needs no fairness and is proved without. No liveness is claimed for
SQLite, whose busy handler polls and may give up.

## 4. Proofs

All theorems hold for any number of sessions, threads, callers, readers, writers,
runs, tags, currencies, instants, debits and price records, any ceilings and filters,
both dialects and unbounded counters and histories.

The assumptions are the named `ASSUME`s. `DataAssumption`, `LedgerAssumption`,
`SqlAssumption`, `MemoryAssumption`, `ApprovalsAssumption`, `CatalogueAssumption` and
the two `ReadsAssumption`s say that the constants have their types (`WindowOrder` is a
strict order with positive positions, as sorted keys are; the callers of `Approvals`
are finitely many and leave `occurred_at` to the clock). `HostAssumption` says that
hosts are on PostgreSQL and that the runs declared beforehand are runs. `NoneIsNoBalance`,
`NoneIsNoEntry`, `NoneIsNoUsage` and `NoneIsNoRecord` say that Python's `None` is not a
row, a usage or a record. `AmountsAreBounded` says that the debits of `Approvals` add
finitely many different amounts: without it there is no "largest debit" to overshoot by.
`DaysSortFirst` says that `per_day` keys sort before the others: the keys are tuples that
begin with the scope's name, and `sorted` compares those first.

**What the book adds up to.**

* **`BalancesNeverDrift`** (`LedgerProofs`): `Spec => []BookIsEntries`, and
  **`RowsNeverDrift`** (`SqlLedgerProofs`): `Spec => []BooksMatchEntries`. A sum over a
  set of entries is defined by choice, and the library's induction over finite sets is
  out of the provers' reach. `BalanceBookProofs` therefore shows by least
  counterexample (`FiniteMin`, `NatMin`, `NonePrecedes`) that a function which adds one
  element at a time exists and is unique (`AdditiveExists`, `AdditiveUnique`), and that
  the sums are its values. `ReferenceStep` follows: appending an entry changes the
  recomputed balance of a window by what the debit contributes, so `record` keeps
  `AddsUp` (`AddsUpStep`). The inductive invariants `HistoryInv` and `RowsInv` add to it
  that every entry is flagged as its debit was (`Sound`); `RowsInv` also needs `FitInv`,
  below, because a commit writes what a session had computed earlier.
* **`SqliteSnapshots`** (`SqlLedgerProofs`): `Dialect = "sqlite" => (Spec =>
  []VerdictsAreSnapshots)`. `RowsInv` holds that each entry was judged over the book
  recomputed from the entries up to its own; `BookAfterIsReference` turns that into the
  running book. The condition is needed, see `postgres_torn_verdict`.
* **`SpendIsNeverForgotten`** and **`ReadsAreNeverTorn`** (`InMemoryLedgerProofs`):
  `BookCoversEntries` and `ReadsAreSnapshots`. `BackedInv` says the
  book is at least what the entries add up to, and, while a debit is recorded and not
  appended, that it is such a book with that debit added (`Backs`: exactly that until a
  debit raises, at least that afterwards). Every interrupt keeps this, wherever in the
  loop over windows it strikes.
* **`StrictVouches`** (`LedgerProofs`): `StrictUnderIsComplete`, from `HistoryInv`: the
  count that makes a strict ceiling refuse is the number of estimates that do not total.
* **`CleanReads`** (`CallersProofs`): `CleanCountMeansCleanSum`. `PrefixInv` says that
  money was read from the book of one prefix of the history and counts from a longer
  one; an estimate that does not total would already be counted in the longer one. It
  holds of balances and of the verdicts computed from them.

**Pre-flight, caps and callers.**

* **`TypeCorrect`**, **`PreflightIsFaithful`** and **`CapsSeeSpend`**
  (`LedgerProofs`): `TypeOK`, `PreflightForetellsDebit` and `CapInForceSeesAllSpend`.
  Pre-flight rests on a lemma about the pure operators, `RecordThenJudge`: judging a
  window with a prospective contribution equals judging it after accumulating it. The
  question is asked at the clock and the debit lands at its own instant:
  `WindowOfTheInstant` says which windows those two share.
* **`VerdictsAreOfTheHistory`** (`LedgerProofs`): `VerdictsTellHistory`. A verdict is made
  once, from a book that goes on changing, so the invariant `TellsInv` carries the
  recomputation for each prefix; `VerdictTells` obtains it at the debit from `AddsUp`, and
  `LandedIsTouching` equates the entries a window sums with those of the run, the day or
  the tag. The boundary is proved with it: spending the cap exactly is not exceeding it.
* **`SerialisedCallersKeepCaps`** (`CallersProofs`): `ApprovalsSpec => []CapsHold`.
  `CapsHold` alone is not inductive: a debit approved on one day lands in another.
  The invariant `GateInv` adds that windows of days after the clock are still empty
  and that the plan of the caller at the gate fits the present book. `FitsLater`
  carries it past midnight: a debit that fits a day's window fits an empty one.
* **`OvershootIsBounded`** (`CallersProofs`): `OvershootBounded`, for callers with and
  without a gate. `OvershootInv` bounds not the spend but the spend *still to come*:
  what a window holds, plus the debit of one pending caller, plus the largest debit for
  each other pending caller, is within the cap plus the largest debit for each unseen
  one (`Unseen`: the other callers, and the commits whose outcome was lost). A commit
  moves a debit from the pending side to the window; an approval is made against a
  window that fits; midnight starts from an empty window.

**The database.**

* **`TypeCorrect`** (`SqlLedgerProofs`): `Spec => []TypeOK`. Strengthened by
  `CallOK`: which kind of call is at which step, and that an entry exists exactly
  at a debit's commit.
* **`NoWaitCycle`** (`SqlLedgerProofs`): `Spec => []WaitsClimb`, with
  `ExclusiveRows`: `Spec => []RowExclusion`. The inductive invariant `LockInv` adds
  that a session holds nothing before its first statement and that the windows it
  holds sort before those it still has to upsert. A session that is waited for holds
  something, so it waits at a window above everything it holds: waits climb, whatever
  the number of sessions, which is why the instance needs only two.
* **`Refinement`** (`SqlLedgerProofs`): `Spec => RefinesLedger`, the detailed
  transactions implement the atomic ledger. The invariant `FitInv` says what a
  session's uncommitted state means *relative to the committed rows* and stays
  true while other sessions commit: each row it holds is the committed row with its
  debit added once (others cannot commit a held row, by `RowExclusion`); money it
  read first still belongs to the row it reads second, in every *settled* window
  (all windows on SQLite, the touched ones on PostgreSQL); its pending entry has
  the verdicts over what it sees. At the commit these facts are exactly `Ledger`'s
  `RecordDebit`. The restriction to settled windows is necessary: without it the
  invariant is false on PostgreSQL, which is what `postgres_torn_verdict` shows.
* **`ReadsTypeCorrect`** and **`AnswersAreBracketed`** (`CallersProofs`): the book
  only grows (`BookGrows`), so money from an earlier state with counts from a later
  one lies between the two (`MixedIsBetween`), and "exceeded" is monotone in a
  balance (`ExceededGrows`). The proof covers every sum of tokens and money and every
  policy for partial prices.
* **`RowsAreTheRecord`** (`EntryReadsProofs`): `Spec => []RowsReadBack`, from one
  round-trip lemma for each part of a row (instant, usage, ceiling, verdict, entry).
* **`SqlFiltersAsMemory`** (`EntryReadsProofs`): `Spec => []SqlReadsAsMemory`. The
  columns select the entries that the list keeps (`SameEntriesKept`); ids are distinct
  (`IdsInv`); and sorting a finite set by rank loses and repeats nothing (`InOrderSorts`:
  the rank is injective, and an injection into as many places fills them all).
* **`PollersMissOnlyInFlight`** (`EntryReadsProofs`): `Spec => []OnlyInFlightIsMissed`,
  in all three stores. `PollInv` states the same of the debits *not committed yet*: what
  a poll cannot return is noted as overtaken or dated no earlier than the next bound,
  because no bound is later than the clock.
* **`IdsSkipOnlyInFlight`** (`EntryReadsProofs`): `Spec => []IdsResumeAfterPoll`.
  `ResumeInv` says that what a poller was given was drawn by the instant it last asked at
  and what it still has to be given was drawn at that instant or later.

**Joined debits** (`HostTransactionProofs`).

* **`HostTypeCorrect`**: `HostSpec => []HostTypeOK`. **`HostRowsNeverDrift`**: `HostSpec =>
  []BooksMatchEntries`. **`JoinedVerdictsHold`**: `HostSpec => []VerdictsFollowHistory`.
  A host answers its callers long before it commits, and others commit in between, so
  neither property is inductive. `HostInv` says what a host's uncommitted rows mean: laid
  over the committed rows of the moment, they are the last of a chain of
  books (`Chain`), one for each debit it holds back, each the one before with that debit
  recorded, and each entry has the verdicts over its own book. `ChainRebase` carries the
  chain over to the rows others commit, which differ only where the host holds no row
  (`RowsHeldOnce`) and so in no window its entries touched (`JudgedLocally`).
  `ChainExtend` adds a link at `Release`; a savepoint rolled back returns to the last
  link; and `ChainCommits` appends the chain to the history at `HostCommit`.
* **`QueuesNeverCycle`**: `HostSpec => QueuingHostsNeverCycle`. While debits fall on one
  day and are of declared runs, a host that holds any row holds the row of the day
  (`QueueInv`, from `DaysSortFirst` and the sorted loop, kept when a savepoint is rolled
  back). Whoever is waited for holds that row, and only one host can: a host that waits
  is waited for by none. Without the condition it is false, see `host_deadlock`.

**Memory.**

* **`TypeCorrect`**, **`IdsFollowAppends`** and **`Refinement`**
  (`InMemoryLedgerProofs`): `MemoryInv` says who is in the critical section, and that
  an entry built and not yet appended has the last id and the verdicts over the
  present book. The first two hold whatever raises; `RefinesLedger` asks nothing of the
  steps from the first exception on, and could not: an interrupted debit leaves spend
  that no entry stands for. A debit takes effect when it records;
  `AbstractEntries` already counts the entry it is about to append.

**Prices** (`PriceCatalogueProofs`), all from `CatalogueInv`: the loaded catalogue is a
beginning of the file, record by record, at least as long as any loaded before, and all
of it is usable, so `Repair` only takes out what lies further on. What an earlier call
was priced from is therefore still there, and a later catalogue begins with it.

* **`CatalogueTypeCorrect`**, **`PricedByTheNewest`**, **`NotStatedIsNotFree`** and
  **`RecostingIsMonotone`** prove all four properties of the run. `CoveringIsMatching`
  equates the weights a document names, read off the file, with what `matches` and
  `split` make of its record, digests that are not strings included. `FirstLatest` is the lemma on resolution: of the claiming records the newest,
  and of equally new ones the first in the file, exists.

`FitInv`, `LockInv`, `CatalogueInv` and `OvershootInv` were first checked by TLC on the
instances of their runs. Proving also corrected the models: `OnlyInFlightIsMissed` used to recognise a back-dated debit
by its shape, which is wrong when the same debit is also made without a date, and the
overshoot of infinitely many different debits has no bound.

Every safety property of every passing run is a theorem. Only model-checked:

* `EveryCallReturns` and `QueuingHostsReturn`: liveness, out of the prover's reach;
* the three violated properties, which are false.

## 5. Not modelled

* `mount_ledger_tables` (`sql.py`): builds table metadata and checks a prefix; it has
  no state, and its keys are those of the modelled tables.
* Reading JSON: decoding a price file and the text of canonical debits and verdicts;
  `PriceCatalogue` and `EntryReads` model what they keep.
* Exception classes and payloads, re-exports, argument validation that has no state
  behind it, packaging.
* The 64-bit width of the SQL columns: sums are unbounded naturals. What a sum past
  2^63 - 1 does (`sql.py:188`) depends on the database; 9.2 billion dollars in one
  window.
* Host transactions on SQLite: a host that writes holds the one write lock, so there
  is nothing to interleave but whole transactions.
* A clock that goes back between two reads of one caller, and processes whose clocks
  differ.
* `pricing_hash` and `source_ref` of an entry: strings that are stored and read back as
  they are (`EntryReads` leaves them out of its rows) and that no decision depends on.

## 6. Possible extensions

* `utc_day_start` and `utc_day_key` for instants with offsets, against a reference;
  `EntryReads` covers offsets for stored rows, the other modules take instants as
  already in UTC.
* A run that is declared by one host while another debits it, over more than two
  hosts.
