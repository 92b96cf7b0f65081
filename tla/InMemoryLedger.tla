--------------------------- MODULE InMemoryLedger ---------------------------
(***************************************************************************)
(* InMemoryLedger (memory.py): threads of one process share a book, a set   *)
(* of runs and a list of entries behind one lock.  debit is several steps   *)
(* under the lock; the steps in which it calls the injected clock or may be *)
(* interrupted are separate, because an exception there releases the lock   *)
(* and undoes nothing.  The reads take the lock and change nothing.         *)
(***************************************************************************)
EXTENDS History

CONSTANTS Threads,        \* threads that call the ledger
          Debits,         \* the debits they make
          Ceilings,       \* the ceilings the ledger was built with
          Reads,          \* the reads they make
          CallNumbers     \* numbers of debits called (Nat, or a bound for TLC)

\* NONE for a filter, or a usage or cost, that the caller does not give.
Query ==
    [op : {"would_exceed"}, run_id : Runs, usage : TokenUsage \cup {NONE},
     cost : CostEstimate \cup {NONE}, tags : SUBSET Tags]
    \cup [op : {"remaining"}, run_id : Runs]
    \cup [op : {"position"}]
    \cup [op : {"balances"}, key : ScopeKey]
    \cup [op : {"entries"}, run_id : Runs \cup {NONE}, tag : Tags \cup {NONE},
          since : Instants \cup {NONE}]

ASSUME MemoryAssumption ==
    /\ Debits \subseteq Debit
    /\ Reads \subseteq Query
    /\ Ceilings \in Seq(BudgetCeiling)
    /\ CallNumbers \subseteq Nat
    /\ NONE \notin Threads

VARIABLES book,      \* BalanceBook._balances
          runs,      \* known runs
          entries,   \* recorded entries
          called,    \* debits called so far, only to bound them
          minted,    \* entry ids drawn so far
          lock,      \* the thread in the critical section, or NONE
          pc,        \* what each thread does next
          call,      \* the debit each thread records
          entry,     \* the entry it has built and not yet appended
          answer,    \* what a thread's last read returned, and after how many entries;
                     \* NONE once the thread debits
          raised     \* auxiliary: whether a debit has raised half-way, after which book and
                     \* entries may differ for good

vars == <<book, runs, entries, called, minted, lock, pc, call, entry, answer, raised>>

-----------------------------------------------------------------------------
Init ==
    /\ book = EmptyBook
    /\ runs = {}
    /\ entries = <<>>
    /\ called = 0
    /\ minted = 0
    /\ lock = NONE
    /\ pc = [t \in Threads |-> "idle"]
    /\ call = [t \in Threads |-> NONE]
    /\ entry = [t \in Threads |-> NONE]
    /\ answer = [t \in Threads |-> NONE]
    /\ raised = FALSE

\* declare_run holds the lock for one set insertion.
DeclareRun(t) ==
    /\ pc[t] = "idle"
    /\ lock = NONE
    /\ \E run_id \in Runs : runs' = runs \cup {run_id}
    /\ UNCHANGED <<book, entries, called, minted, lock, pc, call, entry, answer, raised>>

CallDebit(t) ==
    /\ pc[t] = "idle"
    /\ called + 1 \in CallNumbers
    /\ called' = called + 1
    /\ \E d \in Debits : call' = [call EXCEPT ![t] = d]
    /\ answer' = [answer EXCEPT ![t] = NONE]
    /\ pc' = [pc EXCEPT ![t] = "acquire"]
    /\ UNCHANGED <<book, runs, entries, minted, lock, entry, raised>>

\* Mutant: debit does not take the lock.
AcquireUnlocked(t) ==
    /\ pc[t] = "acquire"
    /\ lock' = t
    /\ pc' = [pc EXCEPT ![t] = "record"]
    /\ UNCHANGED <<book, runs, entries, called, minted, call, entry, answer, raised>>

Acquire(t) ==
    /\ pc[t] = "acquire"
    /\ lock = NONE
    /\ lock' = t
    /\ pc' = [pc EXCEPT ![t] = "record"]
    /\ UNCHANGED <<book, runs, entries, called, minted, call, entry, answer, raised>>

\* The end of the "with self._lock" block, however it is left.
Release(t) ==
    /\ lock' = NONE
    /\ pc' = [pc EXCEPT ![t] = "idle"]
    /\ call' = [call EXCEPT ![t] = NONE]
    /\ entry' = [entry EXCEPT ![t] = NONE]

Accepted(debit) ==
    currency_compatible(Ceilings, debit.cost, debit.run_id, debit.occurred_at, debit.tags)

\* CurrencyMismatch.
Refuse(t) ==
    /\ pc[t] = "record"
    /\ \E now \in Instants : ~Accepted(resolved_debit(call[t], now))
    /\ Release(t)
    /\ UNCHANGED <<book, runs, entries, called, minted, answer, raised>>

Record(t) ==
    /\ pc[t] = "record"
    /\ \E now \in Instants :
        LET debit == resolved_debit(call[t], now)
        IN  /\ Accepted(debit)
            /\ book' = record(book, debit)
            /\ runs' = runs \cup {debit.run_id}
            /\ call' = [call EXCEPT ![t] = debit]
    /\ pc' = [pc EXCEPT ![t] = "make_entry"]
    /\ UNCHANGED <<entries, called, minted, lock, entry, answer, raised>>

\* self._ids.new_id() and self._book.verdicts(...).
MakeEntry(t) ==
    LET debit == call[t]
    IN  /\ pc[t] = "make_entry"
        /\ minted' = minted + 1
        /\ entry' = [entry EXCEPT ![t] =
                        [entry_id |-> minted + 1,
                         debit    |-> debit,
                         unpriced |-> is_unpriced(debit.cost),
                         verdicts |-> verdicts(Ceilings, book, debit.run_id, debit.occurred_at)]]
        /\ pc' = [pc EXCEPT ![t] = "append"]
        /\ UNCHANGED <<book, runs, entries, called, lock, call, answer, raised>>

AppendEntry(t) ==
    /\ pc[t] = "append"
    /\ entries' = Append(entries, entry[t])
    /\ Release(t)
    /\ UNCHANGED <<book, runs, called, minted, answer, raised>>

\* BalanceBook.record advances a balance field by field, money last.
PartlyAdvanced(balance, delta) ==
    LET full == Accumulate(balance, delta)
        noMoney == [full EXCEPT !.nanos_by_currency = balance.nanos_by_currency]
        noUnmetered == [noMoney EXCEPT !.unmetered_debit_count = balance.unmetered_debit_count]
        noCounts == [balance EXCEPT !.tokens_spent = full.tokens_spent]
    IN  {balance, noCounts, [noCounts EXCEPT !.unpriced_debit_count = full.unpriced_debit_count],
         noUnmetered, noMoney}

\* An exception inside BalanceBook.record: some windows are advanced, and the one the
\* loop was at in part.
RecordInPart(debit) ==
    \E last \in WindowsOf(debit) : \E reached \in SUBSET (WindowsOf(debit) \ {last}) :
        \E part \in PartlyAdvanced(BalanceIn(book, last),
                                   contribution_of(debit.usage, debit.cost)) :
            book' = [key \in ScopeKey |->
                        IF key \in reached THEN record(book, debit)[key]
                        ELSE IF key = last THEN part ELSE book[key]]

\* An exception under the lock: KeyboardInterrupt, or the injected clock raising, when
\* debit resolves the instant or inside new_id().
Interrupt(t) ==
    /\ pc[t] \in {"record", "make_entry", "append"}
    /\ \/ UNCHANGED book
       \/ /\ pc[t] = "record"
          /\ \E now \in Instants : /\ Accepted(resolved_debit(call[t], now))
                                   /\ RecordInPart(resolved_debit(call[t], now))
    /\ Release(t)
    /\ raised' = TRUE
    /\ UNCHANGED <<runs, entries, called, minted, answer>>

-----------------------------------------------------------------------------
(* Reads *)

NamesRun(q) == q.op \in {"would_exceed", "remaining"}

\* UnknownRun and CurrencyMismatch; InvalidCeiling for a position over a run's cap.
Answerable(q, now) ==
    /\ NamesRun(q) => q.run_id \in runs
    /\ q.op = "would_exceed" => currency_compatible(Ceilings, q.cost, q.run_id, now, q.tags)
    /\ q.op = "position" => \A i \in DOMAIN Ceilings : Ceilings[i].scope # "per_run"

Kept(entry_read, q) ==
    /\ q.run_id \in {NONE, entry_read.debit.run_id}
    /\ q.tag = NONE \/ q.tag \in entry_read.debit.tags
    /\ q.since = NONE \/ entry_read.debit.occurred_at >= q.since

\* verdicts_without_run names no run; without per-run ceilings any run gives its answer.
AnswerOver(q, balances, history, now) ==
    CASE q.op = "would_exceed" ->
            prospective_verdicts(Ceilings, balances, q.run_id, now, q.usage, q.cost, q.tags)
      [] q.op = "remaining" -> verdicts(Ceilings, balances, q.run_id, now)
      [] q.op = "position"  -> verdicts(Ceilings, balances, CHOOSE r \in Runs : TRUE, now)
      [] q.op = "balances"  -> BalanceIn(balances, q.key)
      [] q.op = "entries"   -> LET KeptByQuery(e) == Kept(e, q)
                               IN  SelectSeq(history, KeptByQuery)

\* Mutant: a read that does not take the lock.
ReadUnlocked(t) ==
    /\ pc[t] = "idle"
    /\ \E q \in Reads, now \in Instants :
        /\ Answerable(q, now)
        /\ answer' = [answer EXCEPT ![t] =
                        [query |-> q, at |-> now, after |-> Len(entries),
                         value |-> AnswerOver(q, book, entries, now)]]
    /\ UNCHANGED <<book, runs, entries, called, minted, lock, pc, call, entry, raised>>

\* Every read holds the lock while it looks at shared state; one that raises takes no
\* step.  entries() filters its snapshot afterwards, which nothing can change.
Read(t) ==
    /\ pc[t] = "idle"
    /\ lock = NONE
    /\ \E q \in Reads, now \in Instants :
        /\ Answerable(q, now)
        /\ answer' = [answer EXCEPT ![t] =
                        [query |-> q, at |-> now, after |-> Len(entries),
                         value |-> AnswerOver(q, book, entries, now)]]
    /\ UNCHANGED <<book, runs, entries, called, minted, lock, pc, call, entry, raised>>

Next == \E t \in Threads :
            \/ DeclareRun(t) \/ Read(t) \/ CallDebit(t) \/ Acquire(t) \/ Refuse(t)
            \/ Record(t) \/ MakeEntry(t) \/ AppendEntry(t) \/ Interrupt(t)

Spec == Init /\ [][Next]_vars

-----------------------------------------------------------------------------
(* The atomic ledger this module implements.  A debit takes effect when it   *)
(* records; the entry it is about to append is already determined by then.   *)

Recorded == {t \in Threads : pc[t] \in {"make_entry", "append"}}

Implied(debit, vs) ==
    [debit |-> debit, unpriced |-> is_unpriced(debit.cost), report |-> report(vs, debit, TRUE)]

AbstractEntries ==
    [i \in DOMAIN entries |->
        [debit    |-> entries[i].debit,
         unpriced |-> entries[i].unpriced,
         report   |-> report(entries[i].verdicts, entries[i].debit, TRUE)]]
    \o (IF Recorded = {} THEN <<>>
        ELSE LET debit == call[CHOOSE t \in Recorded : TRUE]
             IN  <<Implied(debit, verdicts(Ceilings, book, debit.run_id, debit.occurred_at))>>)

L == INSTANCE Ledger WITH entries <- AbstractEntries,
                          CeilingSets <- {Ceilings},
                          ReportsEvery <- TRUE,
                          HistoryLengths <- Nat

-----------------------------------------------------------------------------
(* Properties *)

(* Type invariant of the shared state and of the threads (memory.py            *)
(* InMemoryLedger.__init__ and the locals of debit).                           *)
TypeOK ==
    /\ book \in Book
    /\ runs \subseteq Runs
    /\ \A i \in DOMAIN entries : entries[i].debit \in ResolvedDebit
    /\ called \in Nat /\ minted \in Nat
    /\ raised \in BOOLEAN
    /\ lock \in Threads \cup {NONE}
    /\ pc \in [Threads -> {"idle", "acquire", "record", "make_entry", "append"}]
    /\ \A t \in Threads : /\ pc[t] = "acquire" => call[t] \in Debit
                          /\ pc[t] \in {"make_entry", "append"} => call[t] \in ResolvedDebit

(* A debit that returns is one atomic step of the promised ledger for every    *)
(* observer, with verdicts exact for every ceiling (memory.py class docstring, *)
(* "computed against one consistent state and commit together"), up to the     *)
(* first debit that raises half-way: what it leaves in the book is undone by   *)
(* nothing, and only BookCoversEntries speaks of the time after it.            *)
RefinesLedger == L!Init /\ [][raised' \/ L!Next]_(L!vars)

(* A read is never torn (memory.py class docstring, "computed against one      *)
(* consistent state"): what it answers is what the entries recorded before it  *)
(* determine, so a caller that reads balances and then entries can add up the  *)
(* second and find the first, whatever other threads debit meanwhile, until a  *)
(* debit raises half-way.                                                      *)
ReadsAreSnapshots ==
    \A t \in Threads :
        ~raised /\ answer[t] # NONE =>
            answer[t].value = AnswerOver(answer[t].query, BookAfter(entries)[answer[t].after],
                                         SubSeq(entries, 1, answer[t].after), answer[t].at)

(* In one process the entry ids follow the insertion order even when threads   *)
(* debit concurrently (types.py LedgerEntry, "ordered within the ledger that   *)
(* made it"), because the id is drawn under the lock that orders the appends.  *)
EntryIdIsInsertionOrder ==
    \A i, j \in DOMAIN entries : i < j => entries[i].entry_id < entries[j].entry_id

(* A debit that raises half-way never makes the ledger forget spend (memory.py *)
(* debit records before it appends): between operations, every window holds at *)
(* least the tokens, the money and the three honesty counts of the entries in  *)
(* it, so a ceiling over it, a strict one too, errs on the side of "exceeded". *)
BookCoversEntries ==
    lock = NONE =>
        \A key \in ScopeKey :
            Touching(entries, key) # {} =>
                LET least == ReferenceBalance(entries, key)
                IN  /\ book[key] # NONE
                    /\ book[key].tokens_spent >= least.tokens_spent
                    /\ book[key].unpriced_debit_count >= least.unpriced_debit_count
                    /\ book[key].untotalled_debit_count >= least.untotalled_debit_count
                    /\ book[key].unmetered_debit_count >= least.unmetered_debit_count
                    /\ \A currency \in Currencies :
                            least.nanos_by_currency[currency] # NONE =>
                                /\ book[key].nanos_by_currency[currency] # NONE
                                /\ book[key].nanos_by_currency[currency]
                                    >= least.nanos_by_currency[currency]

=============================================================================
