------------------------- MODULE InMemoryLedgerProofs -------------------------
(***************************************************************************)
(* Theorems about InMemoryLedger, for any number of threads: types, the     *)
(* order of entry ids, that the book never holds less than the entries add  *)
(* up to, and, until a debit raises half-way, that a debit under the lock   *)
(* is one atomic step of the promised ledger and a read is one snapshot.    *)
(***************************************************************************)
EXTENDS InMemoryLedger, BalanceBookProofs

-----------------------------------------------------------------------------
(* The invariant *)

Critical == {"record", "make_entry", "append"}

MemoryEntry == [entry_id : Nat, debit : ResolvedDebit, unpriced : BOOLEAN,
                verdicts : Seq(CeilingVerdict)]

\* The entry of a debit that the book has already recorded.
EntryOf(debit, id) ==
    [entry_id |-> id, debit |-> debit, unpriced |-> is_unpriced(debit.cost),
     verdicts |-> verdicts(Ceilings, book, debit.run_id, debit.occurred_at)]

Types ==
    /\ book \in Book
    /\ runs \subseteq Runs
    /\ entries \in Seq(MemoryEntry)
    /\ called \in Nat /\ minted \in Nat
    /\ raised \in BOOLEAN
    /\ lock \in Threads \cup {NONE}
    /\ pc \in [Threads -> {"idle", "acquire", "record", "make_entry", "append"}]
    /\ DOMAIN call = Threads /\ DOMAIN entry = Threads
    /\ \A t \in Threads :
        /\ pc[t] \in {"acquire", "record"} => call[t] \in Debits
        /\ pc[t] \in {"make_entry", "append"} => call[t] \in ResolvedDebit

\* Exactly the holder of the lock is inside the critical section.
Mutex == \A t \in Threads : pc[t] \in Critical <=> lock = t

\* Ids rise along the list, and the next to be appended is above all of them.
IdsRise ==
    /\ EntryIdIsInsertionOrder
    /\ \A i \in DOMAIN entries : entries[i].entry_id <= minted
    /\ \A t \in Threads :
        pc[t] = "append" =>
            /\ entry[t] = EntryOf(call[t], minted)
            /\ \A i \in DOMAIN entries : entries[i].entry_id < minted

MemoryInv == Types /\ Mutex /\ IdsRise

-----------------------------------------------------------------------------
(* Lemmas *)

(* Recording a debit in a book gives a book (core.py BalanceBook.record).       *)
LEMMA RecordType ==
    ASSUME NEW b \in Book, NEW debit \in ResolvedDebit
    PROVE  record(b, debit) \in Book
<1>1. contribution_of(debit.usage, debit.cost) \in DebitContribution
  BY ContributionType DEF ResolvedDebit
<1>2. ASSUME NEW key \in ScopeKey PROVE BalanceIn(b, key) \in ScopeBalance
  BY EmptyBalanceType DEF BalanceIn, Book
<1>3. ASSUME NEW key \in ScopeKey
      PROVE  Accumulate(BalanceIn(b, key), contribution_of(debit.usage, debit.cost)) \in ScopeBalance
  BY <1>1, <1>2, AccumulateType
<1>4. QED BY <1>3 DEF record, Book

(* A balance is still a balance half-way through record (core.py record).      *)
LEMMA PartlyAdvancedType ==
    ASSUME NEW balance \in ScopeBalance, NEW delta \in DebitContribution,
           NEW part \in PartlyAdvanced(balance, delta)
    PROVE  part \in ScopeBalance
<1> DEFINE full == Accumulate(balance, delta)
<1>1. full \in ScopeBalance
  BY AccumulateType
<1> HIDE DEF full
<1>2. QED BY <1>1 DEF PartlyAdvanced, full, ScopeBalance

(* A book that record was interrupted in is a book (core.py record).            *)
LEMMA RecordInPartType ==
    ASSUME NEW debit \in ResolvedDebit, book \in Book, RecordInPart(debit)
    PROVE  book' \in Book
<1> DEFINE delta == contribution_of(debit.usage, debit.cost)
<1>1. delta \in DebitContribution
  BY ContributionType DEF ResolvedDebit
<1>2. record(book, debit) \in Book
  BY RecordType
<1>3. PICK last \in WindowsOf(debit) : \E reached \in SUBSET (WindowsOf(debit) \ {last}) :
        \E part \in PartlyAdvanced(BalanceIn(book, last), delta) :
            book' = [key \in ScopeKey |->
                        IF key \in reached THEN record(book, debit)[key]
                        ELSE IF key = last THEN part ELSE book[key]]
  BY DEF RecordInPart
<1> HIDE DEF delta
<1>4. PICK reached \in SUBSET (WindowsOf(debit) \ {last}),
           part \in PartlyAdvanced(BalanceIn(book, last), delta) :
            book' = [key \in ScopeKey |->
                        IF key \in reached THEN record(book, debit)[key]
                        ELSE IF key = last THEN part ELSE book[key]]
  BY <1>3
<1>5. BalanceIn(book, last) \in ScopeBalance
  BY WindowsOfType, EmptyBalanceType DEF BalanceIn, Book
<1>6. part \in ScopeBalance
  BY <1>1, <1>4, <1>5, PartlyAdvancedType
<1>7. QED BY <1>2, <1>4, <1>6 DEF Book

(* The entry of a recorded debit is an entry (memory.py debit).                 *)
LEMMA EntryOfType ==
    ASSUME book \in Book, NEW debit \in ResolvedDebit, NEW id \in Nat
    PROVE  EntryOf(debit, id) \in MemoryEntry
<1> DEFINE vs == verdicts(Ceilings, book, debit.run_id, debit.occurred_at)
<1>1. Ceilings \in Seq(BudgetCeiling)
  BY MemoryAssumption
<1>2. NOTHING \in DebitContribution
  BY DEF NOTHING, DebitContribution
<1>3. ASSUME NEW i \in DOMAIN Ceilings PROVE vs[i] \in CeilingVerdict
  <2>1. Ceilings[i] \in BudgetCeiling
    BY <1>1
  <2>2. window_for(Ceilings[i], debit.run_id, debit.occurred_at) \in ScopeKey
    BY <2>1 DEF window_for, ScopeKey, BudgetCeiling, CeilingScope, ResolvedDebit
  <2>3. BalanceIn(book, window_for(Ceilings[i], debit.run_id, debit.occurred_at)) \in ScopeBalance
    BY <2>2, EmptyBalanceType DEF BalanceIn, Book
  <2>4. QED BY <1>2, <2>1, <2>3, VerdictType DEF verdicts
<1>4. DOMAIN vs = DOMAIN Ceilings
  BY DEF verdicts
<1>5. vs = [i \in DOMAIN Ceilings |-> vs[i]]
  BY DEF verdicts
<1> HIDE DEF vs
<1>6. vs \in Seq(CeilingVerdict)
  <2>1. DOMAIN Ceilings = 1..Len(Ceilings) /\ Len(Ceilings) \in Nat
    BY <1>1
  <2>2. vs \in [1..Len(Ceilings) -> CeilingVerdict]
    BY <1>3, <1>5, <2>1
  <2>3. QED BY <2>1, <2>2
<1>7. is_unpriced(debit.cost) \in BOOLEAN
  BY DEF is_unpriced, Totalled
<1>8. QED BY <1>6, <1>7 DEF EntryOf, MemoryEntry, vs

(* What a list of entries holds. *)
LEMMA EntryFields ==
    ASSUME NEW history \in Seq(MemoryEntry), NEW i \in DOMAIN history
    PROVE  history[i].entry_id \in Nat /\ history[i].debit \in ResolvedDebit
<1>1. history[i] \in MemoryEntry
  OBVIOUS
<1>2. QED BY <1>1 DEF MemoryEntry

LEMMA MemoryInit == Init => MemoryInv
<1> SUFFICES ASSUME Init PROVE MemoryInv
  OBVIOUS
<1>1. book \in Book
  BY DEF Init, EmptyBook, Book
<1>2. Types
  <2>1. raised \in BOOLEAN
    BY DEF Init
  <2>2. QED BY <1>1, <2>1 DEF Init, Types
<1>3. Mutex
  BY MemoryAssumption DEF Init, Mutex, Critical
<1>4. IdsRise
  BY DEF Init, IdsRise, EntryIdIsInsertionOrder
<1>5. QED BY <1>2, <1>3, <1>4 DEF MemoryInv

(* Leaving the critical section, entries unchanged.                             *)
LEMMA ReleaseFrame ==
    ASSUME MemoryInv, NEW t \in Threads, pc[t] \in Critical, Release(t),
           book' \in Book, raised' \in BOOLEAN, UNCHANGED <<runs, entries, called, minted>>
    PROVE  MemoryInv'
<1>1. Types'
  BY DEF MemoryInv, Types, Release
<1>2. Mutex'
  BY MemoryAssumption DEF MemoryInv, Types, Mutex, Release, Critical
<1>3. \A u \in Threads : pc'[u] # "append"
  BY DEF MemoryInv, Types, Mutex, Release, Critical
<1>4. IdsRise'
  BY <1>3 DEF MemoryInv, IdsRise, EntryIdIsInsertionOrder
<1>5. QED BY <1>1, <1>2, <1>4 DEF MemoryInv

LEMMA MemoryStep == MemoryInv /\ [Next]_vars => MemoryInv'
<1> SUFFICES ASSUME MemoryInv, [Next]_vars PROVE MemoryInv'
  OBVIOUS
<1> USE DEF MemoryInv
<1>1. ASSUME NEW t \in Threads, DeclareRun(t) PROVE MemoryInv'
  <2>1. Types'
    BY <1>1 DEF DeclareRun, Types
  <2>2. Mutex' /\ IdsRise'
    BY <1>1 DEF DeclareRun, Mutex, IdsRise, EntryIdIsInsertionOrder, EntryOf
  <2>3. QED BY <2>1, <2>2
<1>2. ASSUME NEW t \in Threads, CallDebit(t) PROVE MemoryInv'
  <2>1. Types'
    BY <1>2, MemoryAssumption DEF CallDebit, Types
  <2>2. Mutex'
    BY <1>2 DEF CallDebit, Types, Mutex, Critical
  <2>3. \A u \in Threads : pc'[u] = "append" => pc[u] = "append" /\ call'[u] = call[u]
    BY <1>2 DEF CallDebit, Types
  <2>4. IdsRise'
    BY <1>2, <2>3 DEF CallDebit, IdsRise, EntryIdIsInsertionOrder, EntryOf
  <2>5. QED BY <2>1, <2>2, <2>4
<1>3. ASSUME NEW t \in Threads, Acquire(t) PROVE MemoryInv'
  <2>1. Types'
    BY <1>3 DEF Acquire, Types
  <2>2. Mutex'
    BY <1>3, MemoryAssumption DEF Acquire, Types, Mutex, Critical
  <2>3. \A u \in Threads : pc'[u] = "append" => pc[u] = "append"
    BY <1>3 DEF Acquire, Types
  <2>4. IdsRise'
    BY <1>3, <2>3 DEF Acquire, IdsRise, EntryIdIsInsertionOrder, EntryOf
  <2>5. QED BY <2>1, <2>2, <2>4
<1>4. ASSUME NEW t \in Threads, Refuse(t) PROVE MemoryInv'
  <2>1. pc[t] \in Critical /\ Release(t) /\ UNCHANGED <<book, runs, entries, called, minted, raised>>
    BY <1>4 DEF Refuse, Critical
  <2>2. QED BY <2>1, ReleaseFrame DEF Types
<1>5. ASSUME NEW t \in Threads, Record(t) PROVE MemoryInv'
  <2>1. PICK now \in Instants :
            /\ book' = record(book, resolved_debit(call[t], now))
            /\ runs' = runs \cup {resolved_debit(call[t], now).run_id}
            /\ call' = [call EXCEPT ![t] = resolved_debit(call[t], now)]
    BY <1>5 DEF Record
  <2>2. resolved_debit(call[t], now) \in ResolvedDebit
    BY <1>5, ResolvedDebitType, MemoryAssumption DEF Record, Types
  <2>3. book' \in Book
    BY <2>1, <2>2, RecordType DEF Types
  <2>4. resolved_debit(call[t], now).run_id \in Runs
    BY <2>2 DEF ResolvedDebit
  <2>5. Types'
    BY <1>5, <2>1, <2>2, <2>3, <2>4 DEF Record, Types
  <2>6. Mutex'
    BY <1>5 DEF Record, Types, Mutex, Critical
  <2>7. \A u \in Threads : pc'[u] # "append"
    BY <1>5 DEF Record, Types, Mutex, Critical
  <2>8. IdsRise'
    BY <1>5, <2>7 DEF Record, IdsRise, EntryIdIsInsertionOrder
  <2>9. QED BY <2>5, <2>6, <2>8
<1>6. ASSUME NEW t \in Threads, MakeEntry(t) PROVE MemoryInv'
  <2>1. Types'
    BY <1>6 DEF MakeEntry, Types
  <2>2. Mutex'
    BY <1>6 DEF MakeEntry, Types, Mutex, Critical
  <2>3. \A u \in Threads : pc'[u] = "append" => u = t
    BY <1>6 DEF MakeEntry, Types, Mutex, Critical
  <2>4. entry'[t] = EntryOf(call[t], minted + 1)
    BY <1>6 DEF MakeEntry, Types, EntryOf
  <2>5. \A i \in DOMAIN entries : entries[i].entry_id \in Nat
    BY EntryFields DEF Types
  <2>6. IdsRise'
    BY <1>6, <2>3, <2>4, <2>5 DEF MakeEntry, Types, IdsRise, EntryIdIsInsertionOrder, EntryOf
  <2>7. QED BY <2>1, <2>2, <2>6
<1>7. ASSUME NEW t \in Threads, AppendEntry(t) PROVE MemoryInv'
  <2>1. /\ entry[t] = EntryOf(call[t], minted)
        /\ call[t] \in ResolvedDebit /\ minted \in Nat /\ book \in Book
        /\ \A i \in DOMAIN entries : entries[i].entry_id < minted
    BY <1>7 DEF AppendEntry, Types, IdsRise
  <2>2. entry[t] \in MemoryEntry /\ entry[t].entry_id = minted
    BY <2>1, EntryOfType DEF EntryOf
  <2>3. entries' = Append(entries, entry[t]) /\ entries \in Seq(MemoryEntry)
    BY <1>7 DEF AppendEntry, Types
  <2>4. entries' \in Seq(MemoryEntry)
    BY <2>2, <2>3
  <2>5. Types'
    BY <1>7, <2>4 DEF AppendEntry, Release, Types
  <2>6. Mutex'
    BY <1>7, MemoryAssumption DEF AppendEntry, Release, Types, Mutex, Critical
  <2>7. \A u \in Threads : pc'[u] # "append"
    BY <1>7 DEF AppendEntry, Release, Types, Mutex, Critical
  <2>8. /\ \A i \in DOMAIN entries' : i \in DOMAIN entries \/ i = Len(entries) + 1
        /\ \A i \in DOMAIN entries : entries'[i] = entries[i]
        /\ entries'[Len(entries) + 1] = entry[t]
        /\ Len(entries) \in Nat /\ DOMAIN entries = 1..Len(entries)
    BY <2>2, <2>3
  <2>9. \A i \in DOMAIN entries : entries[i].entry_id \in Nat
    BY <2>3, EntryFields
  <2>10. minted' = minted
    BY <1>7 DEF AppendEntry
  <2>11. \A i \in DOMAIN entries' : entries'[i].entry_id <= minted'
    BY <2>1, <2>2, <2>8, <2>9, <2>10
  <2>12. EntryIdIsInsertionOrder'
    <3> SUFFICES ASSUME NEW i \in DOMAIN entries', NEW j \in DOMAIN entries', i < j
                 PROVE  entries'[i].entry_id < entries'[j].entry_id
      BY DEF EntryIdIsInsertionOrder
    <3>1. i \in DOMAIN entries
      BY <2>8
    <3>2. CASE j \in DOMAIN entries
      BY <2>8, <3>1, <3>2 DEF IdsRise, EntryIdIsInsertionOrder
    <3>3. CASE j = Len(entries) + 1
      BY <2>1, <2>2, <2>8, <3>1, <3>3
    <3>4. QED BY <2>8, <3>2, <3>3
  <2>13. IdsRise'
    BY <2>7, <2>11, <2>12 DEF IdsRise
  <2>14. QED BY <2>5, <2>6, <2>13
<1>8. ASSUME NEW t \in Threads, Interrupt(t) PROVE MemoryInv'
  <2>1. /\ pc[t] \in Critical /\ Release(t) /\ raised' \in BOOLEAN
        /\ UNCHANGED <<runs, entries, called, minted>>
    BY <1>8 DEF Interrupt, Critical
  <2>2. CASE UNCHANGED book
    BY <2>1, <2>2, ReleaseFrame DEF Types
  <2>3. CASE /\ pc[t] = "record"
             /\ \E now \in Instants : RecordInPart(resolved_debit(call[t], now))
    <3>1. PICK now \in Instants : RecordInPart(resolved_debit(call[t], now))
      BY <2>3
    <3>2. resolved_debit(call[t], now) \in ResolvedDebit
      BY <2>3, ResolvedDebitType, MemoryAssumption DEF Types
    <3>3. book' \in Book
      BY <3>1, <3>2, RecordInPartType DEF Types
    <3>4. QED BY <2>1, <3>3, ReleaseFrame
  <2>4. QED BY <1>8, <2>2, <2>3 DEF Interrupt
<1>9. ASSUME NEW t \in Threads, Read(t) PROVE MemoryInv'
  BY <1>9 DEF Read, Types, Mutex, IdsRise, EntryIdIsInsertionOrder, EntryOf
<1>10. CASE UNCHANGED vars
  BY <1>10 DEF vars, Types, Mutex, IdsRise, EntryIdIsInsertionOrder, EntryOf
<1>11. QED
  BY <1>1, <1>2, <1>3, <1>4, <1>5, <1>6, <1>7, <1>8, <1>9, <1>10 DEF Next

-----------------------------------------------------------------------------
(* Every reachable state of the ledger and its threads is well-typed (memory.py *)
(* InMemoryLedger), also when debits raise half-way.                            *)
THEOREM TypeCorrect == Spec => []TypeOK
<1>1. MemoryInv => TypeOK
  <2> SUFFICES ASSUME MemoryInv PROVE TypeOK
    OBVIOUS
  <2>1. \A i \in DOMAIN entries : entries[i].debit \in ResolvedDebit
    BY EntryFields DEF MemoryInv, Types
  <2>2. \A t \in Threads : pc[t] = "acquire" => call[t] \in Debit
    BY MemoryAssumption DEF MemoryInv, Types
  <2>3. QED BY <2>1, <2>2 DEF MemoryInv, Types, TypeOK
<1>2. QED BY <1>1, MemoryInit, MemoryStep, PTL DEF Spec

(* The ids of one process rise in the order of its entries (types.py            *)
(* LedgerEntry, "ordered within the ledger that made it"), for any number of    *)
(* threads and also when debits raise after drawing an id.                      *)
THEOREM IdsFollowAppends == Spec => []EntryIdIsInsertionOrder
<1>1. MemoryInv => EntryIdIsInsertionOrder
  BY DEF MemoryInv, IdsRise
<1>2. QED BY <1>1, MemoryInit, MemoryStep, PTL DEF Spec

-----------------------------------------------------------------------------
(* Refinement.  The instance of Ledger repeats the operators of BalanceBook;    *)
(* they are the same.                                                           *)

LEMMA SameWindows ==
    /\ L!ScopeKey = ScopeKey /\ L!EmptyBook = EmptyBook
    /\ \A debit : L!WindowsOf(debit) = WindowsOf(debit)
    /\ \A run_id, at, tags : L!windows_touched(run_id, at, tags) = windows_touched(run_id, at, tags)
    /\ \A ceiling, run_id, at : L!window_for(ceiling, run_id, at) = window_for(ceiling, run_id, at)
<1>1. \A at : L!utc_day_key(at) = utc_day_key(at)
  BY DEF L!utc_day_key, utc_day_key
<1>2. L!ScopeKey = ScopeKey
  BY <1>1 DEF L!ScopeKey, ScopeKey
<1>3. L!EmptyBook = EmptyBook
  BY <1>2 DEF L!EmptyBook, EmptyBook
<1>4. \A run_id, at, tags : L!windows_touched(run_id, at, tags) = windows_touched(run_id, at, tags)
  BY <1>1 DEF L!windows_touched, windows_touched
<1>5. \A debit : L!WindowsOf(debit) = WindowsOf(debit)
  BY <1>4 DEF L!WindowsOf, WindowsOf
<1>6. \A ceiling, run_id, at : L!window_for(ceiling, run_id, at) = window_for(ceiling, run_id, at)
  BY <1>1 DEF L!window_for, window_for
<1>7. QED BY <1>2, <1>3, <1>4, <1>5, <1>6

LEMMA SameContribution ==
    /\ \A usage, cost : L!contribution_of(usage, cost) = contribution_of(usage, cost)
    /\ \A cost : L!is_unpriced(cost) = is_unpriced(cost)
    /\ L!NOTHING = NOTHING /\ L!EMPTY_BALANCE = EMPTY_BALANCE
<1>1. L!TokenClasses = TokenClasses
  BY DEF L!TokenClasses, TokenClasses
<1>2. \A cost : L!Totalled(cost) = Totalled(cost)
  BY <1>1 DEF L!Totalled, Totalled
<1>3. \A f : L!SumOfReported(f) = SumOfReported(f)
  BY DEF L!SumOfReported, SumOfReported, L!OrZero, OrZero
<1>4. \A usage, cost : L!contribution_of(usage, cost) = contribution_of(usage, cost)
  BY <1>1, <1>2, <1>3 DEF L!contribution_of, contribution_of
<1>5. \A cost : L!is_unpriced(cost) = is_unpriced(cost)
  BY <1>2 DEF L!is_unpriced, is_unpriced
<1>6. QED BY <1>4, <1>5 DEF L!NOTHING, NOTHING, L!EMPTY_BALANCE, EMPTY_BALANCE

LEMMA SameRecord == \A b, debit : L!record(b, debit) = record(b, debit)
<1>1. \A balance, delta : L!Accumulate(balance, delta) = Accumulate(balance, delta)
  BY DEF L!Accumulate, Accumulate, L!NoneAsZero, NoneAsZero, L!Count, Count
<1>2. \A b, key : L!BalanceIn(b, key) = BalanceIn(b, key)
  BY SameContribution DEF L!BalanceIn, BalanceIn
<1>3. QED BY <1>1, <1>2, SameWindows, SameContribution DEF L!record, record

LEMMA SameVerdicts ==
    /\ \A ceilings, b, run_id, at :
            L!verdicts(ceilings, b, run_id, at) = verdicts(ceilings, b, run_id, at)
    /\ \A vs, debit, every : L!report(vs, debit, every) = report(vs, debit, every)
    /\ \A ceilings, cost, run_id, at, tags :
            L!currency_compatible(ceilings, cost, run_id, at, tags)
            = currency_compatible(ceilings, cost, run_id, at, tags)
    /\ \A debit, now : L!resolved_debit(debit, now) = resolved_debit(debit, now)
<1>1. \A ceiling, balance, delta :
        L!verdict_over(ceiling, balance, delta) = verdict_over(ceiling, balance, delta)
  BY DEF L!verdict_over, verdict_over, L!MoneyWith, MoneyWith, L!OverMoney, OverMoney,
         L!OverTokens, OverTokens, L!StrictlyUnknown, StrictlyUnknown,
         L!NoneAsZero, NoneAsZero, L!Count, Count
<1>2. \A b, key : L!BalanceIn(b, key) = BalanceIn(b, key)
  BY SameContribution DEF L!BalanceIn, BalanceIn
<1>3. \A ceilings, b, run_id, at :
        L!verdicts(ceilings, b, run_id, at) = verdicts(ceilings, b, run_id, at)
  BY <1>1, <1>2, SameWindows, SameContribution DEF L!verdicts, verdicts
<1>4. \A vs, debit, every : L!report(vs, debit, every) = report(vs, debit, every)
  BY SameWindows DEF L!report, report, L!answered, answered
<1>5. \A ceilings, cost, run_id, at, tags :
        L!currency_compatible(ceilings, cost, run_id, at, tags)
        = currency_compatible(ceilings, cost, run_id, at, tags)
  BY SameWindows DEF L!currency_compatible, currency_compatible
<1>6. \A debit, now : L!resolved_debit(debit, now) = resolved_debit(debit, now)
  BY DEF L!resolved_debit, resolved_debit
<1>7. QED BY <1>3, <1>4, <1>5, <1>6

-----------------------------------------------------------------------------

\* How an entry appears in the promised ledger.
abs(e) == [debit |-> e.debit, unpriced |-> e.unpriced,
           report |-> report(e.verdicts, e.debit, TRUE)]

Shown == [i \in DOMAIN entries |-> abs(entries[i])]

(* The id of an entry is not shown. *)
LEMMA AbsOfEntry ==
    \A debit, id :
        abs(EntryOf(debit, id))
        = [debit |-> debit, unpriced |-> is_unpriced(debit.cost),
           report |-> report(verdicts(Ceilings, book, debit.run_id, debit.occurred_at),
                             debit, TRUE)]
BY DEF abs, EntryOf

(* With nobody past record, the promised entries are those in the list. *)
LEMMA NoneRecorded == Recorded = {} => AbstractEntries = Shown \o <<>>
BY DEF AbstractEntries, Shown, abs

(* With thread t past it, its entry follows. *)
LEMMA OneRecorded ==
    \A t \in Threads :
        Recorded = {t} => AbstractEntries = Shown \o <<abs(EntryOf(call[t], 0))>>
<1> SUFFICES ASSUME NEW t \in Threads, Recorded = {t}
             PROVE  AbstractEntries = Shown \o <<abs(EntryOf(call[t], 0))>>
  OBVIOUS
<1>1. (CHOOSE u \in Recorded : TRUE) = t
  OBVIOUS
<1>2. abs(EntryOf(call[t], 0))
      = Implied(call[t], verdicts(Ceilings, book, call[t].run_id, call[t].occurred_at))
  BY DEF abs, EntryOf, Implied
<1>3. QED BY <1>1, <1>2 DEF AbstractEntries, Shown, abs

(* The list as the promised ledger shows it is a sequence as long as the list.  *)
LEMMA ShownSeq ==
    ASSUME Types
    PROVE  Shown \in Seq({abs(e) : e \in MemoryEntry}) /\ Len(Shown) = Len(entries)
<1>1. /\ Len(entries) \in Nat /\ DOMAIN entries = 1..Len(entries)
      /\ \A i \in 1..Len(entries) : entries[i] \in MemoryEntry
  BY DEF Types
<1>2. \A i \in 1..Len(entries) : abs(entries[i]) \in {abs(e) : e \in MemoryEntry}
  BY <1>1
<1> HIDE DEF abs
<1>3. QED BY <1>1, <1>2 DEF Shown

(* Recorded is empty or holds the owner of the lock. *)
LEMMA RecordedHolder ==
    ASSUME MemoryInv, NEW t \in Threads
    PROVE  /\ pc[t] \in {"make_entry", "append"} => Recorded = {t}
           /\ pc[t] = "record" \/ lock \notin Threads => Recorded = {}
BY DEF MemoryInv, Types, Mutex, Critical, Recorded

(* A step that keeps the book, the list and the debits past record is hidden.   *)
LEMMA Unseen ==
    ASSUME UNCHANGED <<book, entries>>, Recorded' = Recorded,
           \A t \in Recorded : call'[t] = call[t]
    PROVE  AbstractEntries' = AbstractEntries
<1>1. CASE Recorded = {}
  BY <1>1 DEF AbstractEntries
<1>2. CASE Recorded # {}
  <2>1. (CHOOSE t \in Recorded : TRUE) \in Recorded
    BY <1>2
  <2>2. call'[CHOOSE t \in Recorded : TRUE] = call[CHOOSE t \in Recorded : TRUE]
    BY <2>1
  <2>3. QED BY <1>2, <2>2 DEF AbstractEntries
<1>3. QED BY <1>1, <1>2

LEMMA RefineInit == Init => L!Init
<1> SUFFICES ASSUME Init PROVE L!Init
  OBVIOUS
<1>1. Recorded = {}
  BY DEF Init, Recorded
<1>2. AbstractEntries = <<>>
  BY <1>1 DEF Init, AbstractEntries
<1>3. book = L!EmptyBook
  BY SameWindows DEF Init
<1>4. QED BY <1>2, <1>3 DEF Init, L!Init

(* Recording a debit under the lock is the debit of the promised ledger.        *)
LEMMA RefineRecord ==
    ASSUME MemoryInv, NEW t \in Threads, Record(t)
    PROVE  L!Next
<1>1. PICK now \in Instants :
        LET debit == resolved_debit(call[t], now)
        IN  /\ Accepted(debit)
            /\ book' = record(book, debit)
            /\ runs' = runs \cup {debit.run_id}
            /\ call' = [call EXCEPT ![t] = debit]
  BY DEF Record
<1> DEFINE debit == resolved_debit(call[t], now)
           vs == verdicts(Ceilings, book', debit.run_id, debit.occurred_at)
<1>2. call[t] \in Debits /\ call'[t] = debit
  BY <1>1 DEF Record, MemoryInv, Types
<1>3. Recorded = {} /\ Recorded' = {t}
  <2>1. Recorded = {}
    BY RecordedHolder DEF Record
  <2>2. QED BY <2>1 DEF Record, Recorded, MemoryInv, Types
<1>4. AbstractEntries = Shown \o <<>>
  BY <1>3, NoneRecorded
<1>5. AbstractEntries' = Shown' \o <<abs(EntryOf(call[t], 0))'>>
  <2>1. (CHOOSE u \in Recorded' : TRUE) = t
    BY <1>3
  <2>2. abs(EntryOf(call[t], 0))'
        = Implied(call[t], verdicts(Ceilings, book, call[t].run_id, call[t].occurred_at))'
    BY DEF abs, EntryOf, Implied
  <2>3. QED BY <1>3, <2>1, <2>2 DEF AbstractEntries, Shown, abs
<1>6. Shown' = Shown
  BY DEF Record, Shown
<1>7. abs(EntryOf(call[t], 0))' = L!NewEntry(debit, vs)
  <2>1. abs(EntryOf(call[t], 0))'
        = [debit |-> call'[t], unpriced |-> is_unpriced(call'[t].cost),
           report |-> report(verdicts(Ceilings, book', call'[t].run_id, call'[t].occurred_at),
                             call'[t], TRUE)]
    <3> DEFINE e == EntryOf(call[t], 0)'
               ws == verdicts(Ceilings, book', call'[t].run_id, call'[t].occurred_at)
    <3>1. e = [entry_id |-> 0, debit |-> call'[t], unpriced |-> is_unpriced(call'[t].cost),
               verdicts |-> ws]
      BY DEF EntryOf
    <3>2. abs(EntryOf(call[t], 0))'
          = [debit |-> e.debit, unpriced |-> e.unpriced, report |-> report(e.verdicts, e.debit, TRUE)]
      BY DEF abs
    <3> HIDE DEF e, ws
    <3>3. QED BY <3>1, <3>2 DEF ws
  <2>2. abs(EntryOf(call[t], 0))'
        = [debit |-> debit, unpriced |-> is_unpriced(debit.cost), report |-> report(vs, debit, TRUE)]
    BY <1>2, <2>1
  <2> HIDE DEF debit, vs
  <2>3. L!NewEntry(debit, vs)
        = [debit |-> debit, unpriced |-> L!is_unpriced(debit.cost),
           report |-> L!report(vs, debit, TRUE)]
    BY DEF L!NewEntry
  <2>4. L!is_unpriced(debit.cost) = is_unpriced(debit.cost)
    BY SameContribution
  <2>5. L!report(vs, debit, TRUE) = report(vs, debit, TRUE)
    BY SameVerdicts
  <2>6. QED BY <2>2, <2>3, <2>4, <2>5
<1>8. Shown \in Seq({abs(e) : e \in MemoryEntry})
  BY ShownSeq DEF MemoryInv
<1> HIDE DEF debit, vs
<1>9. AbstractEntries = Shown
  BY <1>4, <1>8
<1>10. AbstractEntries' = Append(AbstractEntries, L!NewEntry(debit, vs))
  BY <1>5, <1>6, <1>7, <1>8, <1>9
<1>11. Len(AbstractEntries) \in Nat
  BY <1>8, <1>9
<1>12. L!RecordDebit(L!resolved_debit(call[t], now), Ceilings)
  BY <1>1, <1>10, <1>11, SameVerdicts, SameRecord DEF L!RecordDebit, Accepted, debit, vs
<1>13. QED BY <1>2, <1>12 DEF L!Next

(* Appending the entry only moves it into the list.                             *)
LEMMA RefineAppend ==
    ASSUME MemoryInv, NEW t \in Threads, AppendEntry(t)
    PROVE  AbstractEntries' = AbstractEntries
<1>1. Recorded = {t} /\ Recorded' = {}
  <2>1. Recorded = {t}
    BY RecordedHolder DEF AppendEntry
  <2>2. QED BY <2>1 DEF AppendEntry, Release, Recorded, MemoryInv, Types
<1>2. AbstractEntries = Shown \o <<abs(EntryOf(call[t], 0))>>
  BY <1>1, OneRecorded
<1>3. AbstractEntries' = Shown' \o <<>>
  <2>1. (Recorded = {} => AbstractEntries = Shown \o <<>>)'
    BY NoneRecorded, PTL
  <2>2. QED BY <1>1, <2>1
<1>4. abs(entry[t]) = abs(EntryOf(call[t], 0))
  <2>1. entry[t] = EntryOf(call[t], minted)
    BY DEF AppendEntry, MemoryInv, IdsRise
  <2>2. QED BY <2>1, AbsOfEntry
<1>5. Types'
  BY MemoryStep DEF MemoryInv, Next
<1>6. Shown \in Seq({abs(e) : e \in MemoryEntry}) /\ Len(Shown) = Len(entries)
  BY ShownSeq DEF MemoryInv
<1>7. /\ Len(entries) \in Nat /\ DOMAIN entries = 1..Len(entries)
      /\ DOMAIN entries' = 1..(Len(entries) + 1)
      /\ \A i \in 1..Len(entries) : entries'[i] = entries[i]
      /\ entries'[Len(entries) + 1] = entry[t]
  BY DEF AppendEntry, MemoryInv, Types
<1>8. Shown' = [i \in 1..(Len(entries) + 1) |-> abs(entries'[i])]
  BY <1>7 DEF Shown, abs
<1>9. Shown = [i \in 1..Len(entries) |-> abs(entries[i])]
  BY <1>7 DEF Shown
<1> HIDE DEF abs
<1>10. Shown' = Append(Shown, abs(entry[t]))
  BY <1>6, <1>7, <1>8, <1>9
<1>11. Shown' \in Seq({abs(e) : e \in MemoryEntry} \cup {abs(entry[t])})
  BY <1>6, <1>10
<1>12. QED BY <1>2, <1>3, <1>4, <1>6, <1>10, <1>11

LEMMA RefineStep == MemoryInv /\ [Next]_vars => [raised' \/ L!Next]_(L!vars)
<1> SUFFICES ASSUME MemoryInv, [Next]_vars, ~raised' PROVE [L!Next]_(L!vars)
  OBVIOUS
<1>1. ASSUME NEW t \in Threads, DeclareRun(t) PROVE L!Next
  <2>1. AbstractEntries' = AbstractEntries
    BY <1>1, Unseen DEF DeclareRun, Recorded
  <2>2. QED BY <1>1, <2>1 DEF DeclareRun, L!DeclareRun, L!Next
<1>2. ASSUME NEW t \in Threads, CallDebit(t) PROVE UNCHANGED L!vars
  <2>1. Recorded' = Recorded /\ \A u \in Recorded : call'[u] = call[u]
    BY <1>2 DEF CallDebit, Recorded, MemoryInv, Types
  <2>2. QED BY <1>2, <2>1, Unseen DEF CallDebit, L!vars
<1>3. ASSUME NEW t \in Threads, Acquire(t) PROVE UNCHANGED L!vars
  <2>1. Recorded' = Recorded
    BY <1>3 DEF Acquire, Recorded, MemoryInv, Types
  <2>2. QED BY <1>3, <2>1, Unseen DEF Acquire, L!vars
<1>4. ASSUME NEW t \in Threads, Refuse(t) PROVE UNCHANGED L!vars
  <2>1. Recorded = {} /\ Recorded' = {}
    <3>1. Recorded = {}
      BY <1>4, RecordedHolder DEF Refuse
    <3>2. QED BY <1>4, <3>1 DEF Refuse, Release, Recorded, MemoryInv, Types
  <2>2. QED BY <1>4, <2>1, Unseen DEF Refuse, L!vars
<1>5. ASSUME NEW t \in Threads, MakeEntry(t) PROVE UNCHANGED L!vars
  <2>1. Recorded' = Recorded
    BY <1>5 DEF MakeEntry, Recorded, MemoryInv, Types
  <2>2. QED BY <1>5, <2>1, Unseen DEF MakeEntry, L!vars
<1>6. ASSUME NEW t \in Threads, AppendEntry(t) PROVE UNCHANGED L!vars
  BY <1>6, RefineAppend DEF AppendEntry, L!vars
<1>7. ASSUME NEW t \in Threads, Read(t) PROVE UNCHANGED L!vars
  <2>1. Recorded' = Recorded
    BY <1>7 DEF Read, Recorded
  <2>2. QED BY <1>7, <2>1, Unseen DEF Read, L!vars
<1>8. CASE UNCHANGED vars
  <2>1. Recorded' = Recorded
    BY <1>8 DEF vars, Recorded
  <2>2. QED BY <1>8, <2>1, Unseen DEF vars, L!vars
<1>9. QED
  BY <1>1, <1>2, <1>3, <1>4, <1>5, <1>6, <1>7, <1>8, RefineRecord DEF Next, Interrupt

(* InMemoryLedger implements the promised ledger (memory.py class docstring,    *)
(* "computed against one consistent state and commit together"): until a debit  *)
(* raises half-way, each is one atomic step for every observer, with exact      *)
(* balances and verdicts, for any number of threads.                            *)
THEOREM Refinement == Spec => RefinesLedger
BY MemoryInit, MemoryStep, RefineInit, RefineStep, PTL DEF Spec, RefinesLedger

-----------------------------------------------------------------------------
(* The book and the entries *)

\* Balance a holds what balance least holds, and book b what book c holds.
MoneyCovers(n, m) == m # NONE => n # NONE /\ n >= m

Covers(a, least) ==
    /\ a.tokens_spent >= least.tokens_spent
    /\ a.unpriced_debit_count >= least.unpriced_debit_count
    /\ a.untotalled_debit_count >= least.untotalled_debit_count
    /\ a.unmetered_debit_count >= least.unmetered_debit_count
    /\ \A currency \in Currencies :
            MoneyCovers(a.nanos_by_currency[currency], least.nanos_by_currency[currency])

BookCovers(b, c) ==
    \A key \in ScopeKey : /\ c[key] # NONE => b[key] # NONE
                          /\ Covers(BalanceIn(b, key), BalanceIn(c, key))

\* What a book is for the entries, once some debit has left it inexact and before.
Backs(inexact, b, history) ==
    IF inexact THEN BookCovers(b, ReferenceBook(history)) ELSE b = ReferenceBook(history)

\* A read answered from the first entries and their book.
FromPrefix(reply, history) ==
    \E k \in 0..Len(history) :
        /\ reply.after = k
        /\ reply.value = AnswerOver(reply.query, ReferenceBook(SubSeq(history, 1, k)),
                                    SubSeq(history, 1, k), reply.at)

BackedInv ==
    /\ MemoryInv
    /\ Sound(entries)
    /\ Recorded = {} => Backs(raised, book, entries)
    /\ \A t \in Recorded :
            \E b \in Book : Backs(raised, b, entries) /\ book = record(b, call[t])
    /\ DOMAIN answer = Threads
    /\ ~raised =>
            \A t \in Threads : answer[t] # NONE => FromPrefix(answer[t], entries)

LEMMA BalanceInType ==
    ASSUME NEW b \in Book, NEW key \in ScopeKey
    PROVE  BalanceIn(b, key) \in ScopeBalance
BY EmptyBalanceType DEF BalanceIn, Book

LEMMA CoversOrder ==
    ASSUME NEW a \in ScopeBalance, NEW b \in ScopeBalance, NEW c \in ScopeBalance
    PROVE  /\ Covers(a, a)
           /\ Covers(a, b) /\ Covers(b, c) => Covers(a, c)
<1>1. \A m, n, k \in Nat \cup {NONE} :
        /\ MoneyCovers(m, m)
        /\ MoneyCovers(m, n) /\ MoneyCovers(n, k) => MoneyCovers(m, k)
  BY NoneIsNoNumber DEF MoneyCovers
<1>2. \A x \in ScopeBalance :
        /\ x.tokens_spent \in Nat /\ x.unpriced_debit_count \in Nat
        /\ x.untotalled_debit_count \in Nat /\ x.unmetered_debit_count \in Nat
        /\ \A currency \in Currencies : x.nanos_by_currency[currency] \in Nat \cup {NONE}
  BY DEF ScopeBalance
<1>3. Covers(a, a)
  <2>1. \A currency \in Currencies :
            MoneyCovers(a.nanos_by_currency[currency], a.nanos_by_currency[currency])
    BY <1>1, <1>2
  <2>2. QED BY <1>2, <2>1 DEF Covers
<1>4. ASSUME Covers(a, b), Covers(b, c) PROVE Covers(a, c)
  <2>1. /\ a.tokens_spent >= c.tokens_spent
        /\ a.unpriced_debit_count >= c.unpriced_debit_count
        /\ a.untotalled_debit_count >= c.untotalled_debit_count
        /\ a.unmetered_debit_count >= c.unmetered_debit_count
    BY <1>2, <1>4 DEF Covers
  <2>2. ASSUME NEW currency \in Currencies
        PROVE  MoneyCovers(a.nanos_by_currency[currency], c.nanos_by_currency[currency])
    <3>1. \A x \in {a, b, c} : x.nanos_by_currency[currency] \in Nat \cup {NONE}
      BY <1>2
    <3>2. /\ MoneyCovers(a.nanos_by_currency[currency], b.nanos_by_currency[currency])
          /\ MoneyCovers(b.nanos_by_currency[currency], c.nanos_by_currency[currency])
      BY <1>4 DEF Covers
    <3>3. QED BY <1>1, <3>1, <3>2
  <2>3. QED BY <2>1, <2>2 DEF Covers
<1>5. QED BY <1>3, <1>4

(* Accumulating keeps the order, and adds to what was held (core.py record).    *)
LEMMA AccumulateCovers ==
    ASSUME NEW a \in ScopeBalance, NEW b \in ScopeBalance, NEW delta \in DebitContribution
    PROVE  /\ Covers(Accumulate(a, delta), a)
           /\ Covers(a, b) => Covers(Accumulate(a, delta), Accumulate(b, delta))
<1>1. /\ delta.tokens \in Nat /\ delta.nanos \in Nat /\ Count(delta.unpriced) \in Nat
      /\ Count(delta.untotalled) \in Nat /\ Count(delta.unmetered) \in Nat
      /\ \A x \in {a, b} : /\ x.tokens_spent \in Nat /\ x.unpriced_debit_count \in Nat
                           /\ x.untotalled_debit_count \in Nat
                           /\ x.unmetered_debit_count \in Nat
                           /\ \A currency \in Currencies :
                                x.nanos_by_currency[currency] \in Nat \cup {NONE}
  BY DEF ScopeBalance, DebitContribution, Count
<1>2. \A x : /\ Accumulate(x, delta).tokens_spent = x.tokens_spent + delta.tokens
             /\ Accumulate(x, delta).unpriced_debit_count
                    = x.unpriced_debit_count + Count(delta.unpriced)
             /\ Accumulate(x, delta).untotalled_debit_count
                    = x.untotalled_debit_count + Count(delta.untotalled)
             /\ Accumulate(x, delta).unmetered_debit_count
                    = x.unmetered_debit_count + Count(delta.unmetered)
             /\ \A currency \in Currencies :
                    Accumulate(x, delta).nanos_by_currency[currency]
                    = IF delta.priced /\ delta.currency = currency
                      THEN NoneAsZero(x.nanos_by_currency[currency]) + delta.nanos
                      ELSE x.nanos_by_currency[currency]
  BY DEF Accumulate
<1>3. ASSUME NEW currency \in Currencies
      PROVE  /\ MoneyCovers(Accumulate(a, delta).nanos_by_currency[currency],
                            a.nanos_by_currency[currency])
             /\ MoneyCovers(a.nanos_by_currency[currency], b.nanos_by_currency[currency]) =>
                    MoneyCovers(Accumulate(a, delta).nanos_by_currency[currency],
                                Accumulate(b, delta).nanos_by_currency[currency])
  <2>1. PICK m \in Nat \cup {NONE}, n \in Nat \cup {NONE} :
            m = a.nanos_by_currency[currency] /\ n = b.nanos_by_currency[currency]
    BY <1>1
  <2>2. CASE delta.priced /\ delta.currency = currency
    <3>1. /\ Accumulate(a, delta).nanos_by_currency[currency] = NoneAsZero(m) + delta.nanos
          /\ Accumulate(b, delta).nanos_by_currency[currency] = NoneAsZero(n) + delta.nanos
      BY <1>2, <2>1, <2>2
    <3>2. QED BY <1>1, <2>1, <3>1, NoneIsNoNumber DEF MoneyCovers, NoneAsZero
  <2>3. CASE ~(delta.priced /\ delta.currency = currency)
    <3>1. /\ Accumulate(a, delta).nanos_by_currency[currency] = m
          /\ Accumulate(b, delta).nanos_by_currency[currency] = n
      BY <1>2, <2>1, <2>3
    <3>2. QED BY <2>1, <3>1 DEF MoneyCovers
  <2>4. QED BY <2>2, <2>3
<1>4. QED BY <1>1, <1>2, <1>3 DEF Covers

(* A book with a debit recorded, or with part of it, holds what it held.        *)
LEMMA BookCoversOrder ==
    ASSUME NEW a \in Book, NEW b \in Book, NEW c \in Book, BookCovers(a, b), BookCovers(b, c)
    PROVE  BookCovers(a, c)
BY BalanceInType, CoversOrder DEF BookCovers

LEMMA RecordCovers ==
    ASSUME NEW a \in Book, NEW debit \in ResolvedDebit
    PROVE  /\ BookCovers(record(a, debit), a)
           /\ \A b \in Book : BookCovers(a, b) => BookCovers(record(a, debit), record(b, debit))
<1>1. PICK delta \in DebitContribution : delta = contribution_of(debit.usage, debit.cost)
  BY ContributionType DEF ResolvedDebit
<1>2. ASSUME NEW b \in Book, NEW key \in ScopeKey
      PROVE  /\ record(b, debit)[key] = IF key \in WindowsOf(debit)
                                        THEN Accumulate(BalanceIn(b, key), delta) ELSE b[key]
             /\ BalanceIn(record(b, debit), key)
                    = IF key \in WindowsOf(debit)
                      THEN Accumulate(BalanceIn(b, key), delta) ELSE BalanceIn(b, key)
             /\ key \in WindowsOf(debit) => record(b, debit)[key] # NONE
  <2>1. record(b, debit)[key] = IF key \in WindowsOf(debit)
                                THEN Accumulate(BalanceIn(b, key), delta) ELSE b[key]
    BY <1>1 DEF record
  <2>2. Accumulate(BalanceIn(b, key), delta) # NONE
    BY BalanceInType, AccumulateType, NoneIsNoBalance
  <2>3. QED BY <2>1, <2>2 DEF BalanceIn
<1>3. BookCovers(record(a, debit), a)
  <2>1. ASSUME NEW key \in ScopeKey
        PROVE  /\ a[key] # NONE => record(a, debit)[key] # NONE
               /\ Covers(BalanceIn(record(a, debit), key), BalanceIn(a, key))
    BY <1>2, BalanceInType, AccumulateCovers, CoversOrder
  <2>2. QED BY <2>1 DEF BookCovers
<1>4. ASSUME NEW b \in Book, BookCovers(a, b)
      PROVE  BookCovers(record(a, debit), record(b, debit))
  <2>1. ASSUME NEW key \in ScopeKey
        PROVE  /\ record(b, debit)[key] # NONE => record(a, debit)[key] # NONE
               /\ Covers(BalanceIn(record(a, debit), key), BalanceIn(record(b, debit), key))
    <3>1. /\ BalanceIn(a, key) \in ScopeBalance /\ BalanceIn(b, key) \in ScopeBalance
          /\ b[key] # NONE => a[key] # NONE
          /\ Covers(BalanceIn(a, key), BalanceIn(b, key))
      BY <1>4, BalanceInType DEF BookCovers
    <3>2. QED BY <1>2, <3>1, AccumulateCovers
  <2>2. QED BY <2>1 DEF BookCovers
<1>5. QED BY <1>3, <1>4

LEMMA PartCovers ==
    ASSUME NEW debit \in ResolvedDebit, book \in Book, RecordInPart(debit)
    PROVE  BookCovers(book', book)
<1>1. PICK delta \in DebitContribution : delta = contribution_of(debit.usage, debit.cost)
  BY ContributionType DEF ResolvedDebit
<1>2. PICK last \in WindowsOf(debit) : \E reached \in SUBSET (WindowsOf(debit) \ {last}) :
        \E part \in PartlyAdvanced(BalanceIn(book, last), delta) :
            book' = [key \in ScopeKey |->
                        IF key \in reached THEN record(book, debit)[key]
                        ELSE IF key = last THEN part ELSE book[key]]
  BY <1>1 DEF RecordInPart
<1>3. PICK reached \in SUBSET (WindowsOf(debit) \ {last}),
           part \in PartlyAdvanced(BalanceIn(book, last), delta) :
            book' = [key \in ScopeKey |->
                        IF key \in reached THEN record(book, debit)[key]
                        ELSE IF key = last THEN part ELSE book[key]]
  BY <1>2
<1>4. PICK balance \in ScopeBalance : balance = BalanceIn(book, last)
  BY WindowsOfType, BalanceInType
<1>5. part \in ScopeBalance /\ part # NONE
  BY <1>3, <1>4, PartlyAdvancedType, NoneIsNoBalance
<1>6. Covers(part, balance)
  <2>1. PICK full \in ScopeBalance : full = Accumulate(balance, delta) /\ Covers(full, balance)
    BY <1>4, AccumulateType, AccumulateCovers
  <2>2. /\ part.tokens_spent \in {balance.tokens_spent, full.tokens_spent}
        /\ part.unpriced_debit_count \in {balance.unpriced_debit_count, full.unpriced_debit_count}
        /\ part.untotalled_debit_count
                \in {balance.untotalled_debit_count, full.untotalled_debit_count}
        /\ part.unmetered_debit_count \in {balance.unmetered_debit_count, full.unmetered_debit_count}
        /\ part.nanos_by_currency = balance.nanos_by_currency
    BY <1>3, <1>4, <2>1 DEF PartlyAdvanced, ScopeBalance
  <2>3. Covers(balance, balance)
    BY <1>4, CoversOrder
  <2>4. QED BY <2>1, <2>2, <2>3 DEF Covers
<1>7. ASSUME NEW key \in ScopeKey
      PROVE  /\ book[key] # NONE => book'[key] # NONE
             /\ Covers(BalanceIn(book', key), BalanceIn(book, key))
  <2>1. CASE key \in reached
    <3>1. book'[key] = record(book, debit)[key]
      BY <1>3, <2>1
    <3>2. BookCovers(record(book, debit), book)
      BY RecordCovers
    <3>3. QED BY <3>1, <3>2 DEF BookCovers, BalanceIn
  <2>2. CASE key \notin reached /\ key = last
    BY <1>3, <1>4, <1>5, <1>6, <2>2 DEF BalanceIn
  <2>3. CASE key \notin reached /\ key # last
    <3>1. book'[key] = book[key]
      BY <1>3, <2>3
    <3>2. QED BY <3>1, BalanceInType, CoversOrder DEF BalanceIn
  <2>4. QED BY <2>1, <2>2, <2>3
<1>8. QED BY <1>7 DEF BookCovers

LEMMA ReferenceBookType ==
    ASSUME NEW E, NEW h \in Seq(E), Sound(h)
    PROVE  ReferenceBook(h) \in Book
BY ReferenceType DEF ReferenceBook, Book

(* Recording the debit of the next entry, the book backs one entry more.        *)
LEMMA BacksStep ==
    ASSUME NEW E, NEW h \in Seq(E), NEW e \in E, Sound(Append(h, e)),
           e.debit \in ResolvedDebit, NEW inexact \in BOOLEAN, NEW b \in Book, Backs(inexact, b, h)
    PROVE  Backs(inexact, record(b, e.debit), Append(h, e))
<1>1. PICK reference \in Book : reference = ReferenceBook(h)
  <2>1. Sound(h)
    BY DEF Sound
  <2>2. QED BY <2>1, ReferenceBookType
<1>2. AddsUp(record(reference, e.debit), Append(h, e))
  <2>1. AddsUp(reference, h)
    BY <1>1, AddsUpIsReference
  <2>2. QED BY <2>1, AddsUpStep
<1>3. record(reference, e.debit) = ReferenceBook(Append(h, e))
  BY <1>1, <1>2, RecordType, AddsUpIsReference
<1>4. CASE inexact
  <2>1. BookCovers(b, reference)
    BY <1>1, <1>4 DEF Backs
  <2>2. BookCovers(record(b, e.debit), record(reference, e.debit))
    BY <1>1, <2>1, RecordCovers
  <2>3. QED BY <1>3, <1>4, <2>2 DEF Backs
<1>5. CASE ~inexact
  BY <1>1, <1>3, <1>5 DEF Backs
<1>6. QED BY <1>4, <1>5

(* A book that holds more than one that backs the entries backs them too.       *)
LEMMA BacksMore ==
    ASSUME NEW E, NEW h \in Seq(E), Sound(h), NEW b \in Book, NEW more \in Book,
           NEW inexact \in BOOLEAN, Backs(inexact, b, h), BookCovers(more, b)
    PROVE  Backs(TRUE, more, h)
<1>1. PICK reference \in Book : reference = ReferenceBook(h)
  BY ReferenceBookType
<1>2. BookCovers(more, reference)
  BY <1>1, BookCoversOrder DEF Backs
<1>3. QED BY <1>1, <1>2 DEF Backs

-----------------------------------------------------------------------------
(* The steps *)

LEMMA BackedInit == Init => BackedInv
<1> SUFFICES ASSUME Init PROVE BackedInv
  OBVIOUS
<1>1. Recorded = {} /\ entries = <<>> /\ book = EmptyBook /\ book \in Book
  BY DEF Init, Recorded, EmptyBook, Book
<1>2. book = ReferenceBook(entries)
  BY <1>1, AddsUpInit, AddsUpIsReference
<1>3. BookCovers(book, book)
  BY <1>1, BalanceInType, CoversOrder DEF BookCovers
<1>4. Backs(raised, book, entries)
  BY <1>2, <1>3 DEF Backs
<1>5. QED BY <1>1, <1>4, MemoryInit DEF Init, BackedInv, Sound

(* A step that keeps book, list and the debits past record, and answers nothing *)
(* wrong.                                                                       *)
LEMMA BackedFrame ==
    ASSUME BackedInv, MemoryInv', UNCHANGED <<book, entries, raised>>, Recorded' = Recorded,
           \A t \in Recorded : call'[t] = call[t], DOMAIN answer' = Threads,
           \A t \in Threads :
                \/ answer'[t] = answer[t]
                \/ answer'[t] = NONE
                \/ ~raised => FromPrefix(answer'[t], entries)
    PROVE  BackedInv'
BY DEF BackedInv, FromPrefix, Backs

LEMMA BackedStep == BackedInv /\ [Next]_vars => BackedInv'
<1> SUFFICES ASSUME BackedInv, [Next]_vars PROVE BackedInv'
  OBVIOUS
<1>1. MemoryInv /\ MemoryInv' /\ DOMAIN answer = Threads
  BY MemoryStep DEF BackedInv
<1>2. /\ book \in Book /\ book' \in Book
      /\ entries \in Seq(MemoryEntry) /\ Len(entries) \in Nat
      /\ raised \in BOOLEAN
  BY <1>1 DEF MemoryInv, Types
<1>3. ASSUME NEW t \in Threads, DeclareRun(t) PROVE BackedInv'
  <2>1. Recorded' = Recorded
    BY <1>3 DEF DeclareRun, Recorded
  <2>2. QED BY <1>1, <1>3, <2>1, BackedFrame DEF DeclareRun
<1>4. ASSUME NEW t \in Threads, CallDebit(t) PROVE BackedInv'
  <2>1. Recorded' = Recorded /\ \A u \in Recorded : call'[u] = call[u]
    BY <1>1, <1>4 DEF CallDebit, Recorded, MemoryInv, Types
  <2>2. DOMAIN answer' = Threads /\ \A u \in Threads : answer'[u] \in {answer[u], NONE}
    BY <1>1, <1>4 DEF CallDebit
  <2>3. QED BY <1>1, <1>4, <2>1, <2>2, BackedFrame DEF CallDebit
<1>5. ASSUME NEW t \in Threads, Acquire(t) PROVE BackedInv'
  <2>1. Recorded' = Recorded
    BY <1>1, <1>5 DEF Acquire, Recorded, MemoryInv, Types
  <2>2. QED BY <1>1, <1>5, <2>1, BackedFrame DEF Acquire
<1>6. ASSUME NEW t \in Threads, Refuse(t) PROVE BackedInv'
  <2>1. Recorded = {} /\ Recorded' = {}
    <3>1. Recorded = {}
      BY <1>1, <1>6, RecordedHolder DEF Refuse
    <3>2. QED BY <1>1, <1>6, <3>1 DEF Refuse, Release, Recorded, MemoryInv, Types
  <2>2. QED BY <1>1, <1>6, <2>1, BackedFrame DEF Refuse
<1>7. ASSUME NEW t \in Threads, Record(t) PROVE BackedInv'
  <2>1. PICK now \in Instants :
            /\ book' = record(book, resolved_debit(call[t], now))
            /\ call' = [call EXCEPT ![t] = resolved_debit(call[t], now)]
    BY <1>7 DEF Record
  <2>2. Recorded = {} /\ Recorded' = {t}
    <3>1. Recorded = {}
      BY <1>1, <1>7, RecordedHolder DEF Record
    <3>2. QED BY <1>1, <1>7, <3>1 DEF Record, Recorded, MemoryInv, Types
  <2>3. call'[t] = resolved_debit(call[t], now)
    BY <1>1, <2>1 DEF MemoryInv, Types
  <2>4. Backs(raised, book, entries) /\ book' = record(book, call'[t])
    BY <2>1, <2>2, <2>3 DEF BackedInv
  <2>5. entries' = entries /\ answer' = answer /\ raised' = raised
    BY <1>7 DEF Record
  <2>6. \A u \in Recorded' : \E b \in Book : Backs(raised, b, entries) /\ book' = record(b, call'[u])
    BY <1>2, <2>2, <2>4
  <2>7. QED BY <1>1, <2>2, <2>5, <2>6 DEF BackedInv, Backs, FromPrefix
<1>8. ASSUME NEW t \in Threads, MakeEntry(t) PROVE BackedInv'
  <2>1. Recorded' = Recorded
    BY <1>1, <1>8 DEF MakeEntry, Recorded, MemoryInv, Types
  <2>2. QED BY <1>1, <1>8, <2>1, BackedFrame DEF MakeEntry
<1>9. ASSUME NEW t \in Threads, AppendEntry(t) PROVE BackedInv'
  <2>1. Recorded = {t} /\ Recorded' = {}
    <3>1. Recorded = {t}
      BY <1>1, <1>9, RecordedHolder DEF AppendEntry
    <3>2. QED BY <1>1, <1>9, <3>1 DEF AppendEntry, Release, Recorded, MemoryInv, Types
  <2>2. PICK e \in MemoryEntry :
            /\ e = entry[t] /\ e.debit = call[t] /\ e.debit \in ResolvedDebit
            /\ e.unpriced = is_unpriced(e.debit.cost)
    <3>1. entry[t] = EntryOf(call[t], minted) /\ call[t] \in ResolvedDebit /\ minted \in Nat
      BY <1>1, <1>9 DEF AppendEntry, MemoryInv, Types, IdsRise
    <3>2. entry[t] \in MemoryEntry
      BY <1>2, <3>1, EntryOfType
    <3>3. QED BY <3>1, <3>2 DEF EntryOf
  <2>3. /\ entries' = Append(entries, e) /\ book' = book /\ answer' = answer
        /\ raised' = raised
    BY <1>9, <2>2 DEF AppendEntry
  <2>4. /\ DOMAIN entries' = 1..(Len(entries) + 1) /\ DOMAIN entries = 1..Len(entries)
        /\ entries'[Len(entries) + 1] = e
        /\ \A i \in 1..Len(entries) : entries'[i] = entries[i]
        /\ Len(entries') = Len(entries) + 1
        /\ \A k \in 0..Len(entries) : SubSeq(entries', 1, k) = SubSeq(entries, 1, k)
    BY <1>2, <2>3
  <2>5. Sound(entries')
    BY <1>2, <2>2, <2>4 DEF BackedInv, Sound
  <2>6. PICK b \in Book : Backs(raised, b, entries) /\ book = record(b, e.debit)
    BY <2>1, <2>2 DEF BackedInv
  <2>7. Backs(raised', book', entries')
    BY <1>2, <2>2, <2>3, <2>5, <2>6, BacksStep
  <2>8. ASSUME ~raised, NEW u \in Threads, answer'[u] # NONE
        PROVE  FromPrefix(answer'[u], entries')
    <3>1. PICK k \in 0..Len(entries) :
            /\ answer[u].after = k
            /\ answer[u].value = AnswerOver(answer[u].query, ReferenceBook(SubSeq(entries, 1, k)),
                                            SubSeq(entries, 1, k), answer[u].at)
      BY <2>3, <2>8 DEF BackedInv, FromPrefix
    <3>2. k \in 0..Len(entries') /\ SubSeq(entries', 1, k) = SubSeq(entries, 1, k)
      BY <1>2, <2>4
    <3>3. QED BY <2>3, <3>1, <3>2 DEF FromPrefix
  <2>9. QED BY <1>1, <2>1, <2>3, <2>5, <2>7, <2>8 DEF BackedInv, Backs
<1>10. ASSUME NEW t \in Threads, Interrupt(t) PROVE BackedInv'
  <2>1. Recorded' = {}
    BY <1>1, <1>10 DEF Interrupt, Release, Recorded, MemoryInv, Types, Mutex, Critical
  <2>2. raised' /\ entries' = entries /\ answer' = answer /\ Sound(entries)
    BY <1>10 DEF Interrupt, BackedInv
  <2>3. Backs(TRUE, book, entries)
    <3>1. CASE pc[t] = "record"
      <4>1. Recorded = {}
        BY <1>1, <3>1, RecordedHolder
      <4>2. BookCovers(book, book)
        BY <1>2, BalanceInType, CoversOrder DEF BookCovers
      <4>3. Backs(raised, book, entries)
        BY <4>1 DEF BackedInv
      <4>4. QED BY <1>2, <2>2, <4>2, <4>3, BacksMore
    <3>2. CASE pc[t] \in {"make_entry", "append"}
      <4>1. t \in Recorded /\ call[t] \in ResolvedDebit
        BY <1>1, <3>2 DEF Recorded, MemoryInv, Types
      <4>2. PICK b \in Book : Backs(raised, b, entries) /\ book = record(b, call[t])
        BY <4>1 DEF BackedInv
      <4>3. BookCovers(book, b)
        BY <4>1, <4>2, RecordCovers
      <4>4. Backs(raised, b, entries) /\ Sound(entries)
        BY <2>2, <4>2
      <4>5. book \in Book /\ raised \in BOOLEAN /\ entries \in Seq(MemoryEntry)
        BY <1>2
      <4>6. QED BY <4>3, <4>4, <4>5, BacksMore
    <3>3. QED BY <1>10, <3>1, <3>2 DEF Interrupt
  <2>4. Backs(TRUE, book', entries)
    <3>1. CASE UNCHANGED book
      BY <2>3, <3>1
    <3>2. CASE /\ pc[t] = "record"
               /\ \E now \in Instants : RecordInPart(resolved_debit(call[t], now))
      <4>1. PICK now \in Instants : RecordInPart(resolved_debit(call[t], now))
        BY <3>2
      <4>2. resolved_debit(call[t], now) \in ResolvedDebit
        BY <1>1, <3>2, ResolvedDebitType, MemoryAssumption DEF MemoryInv, Types
      <4>3. BookCovers(book', book)
        BY <1>2, <4>1, <4>2, PartCovers
      <4>4. QED BY <1>2, <2>2, <2>3, <4>3, BacksMore
    <3>3. QED BY <1>10, <3>1, <3>2 DEF Interrupt
  <2>5. QED BY <1>1, <2>1, <2>2, <2>4 DEF BackedInv, Backs
<1>11. ASSUME NEW t \in Threads, Read(t) PROVE BackedInv'
  <2>1. lock = NONE /\ UNCHANGED <<book, entries, pc, call, raised>>
    BY <1>11 DEF Read
  <2>2. Recorded = {} /\ Recorded' = {}
    <3>1. Recorded = {}
      BY <1>1, <2>1, MemoryAssumption, RecordedHolder
    <3>2. QED BY <2>1, <3>1 DEF Recorded
  <2>3. PICK q \in Reads, now \in Instants :
            answer' = [answer EXCEPT ![t] =
                        [query |-> q, at |-> now, after |-> Len(entries),
                         value |-> AnswerOver(q, book, entries, now)]]
    BY <1>11 DEF Read
  <2>4. DOMAIN answer' = Threads /\ \A u \in Threads : u # t => answer'[u] = answer[u]
    BY <1>1, <2>3
  <2>5. ~raised => FromPrefix(answer'[t], entries)
    <3>1. PICK value : value = AnswerOver(q, book, entries, now)
      OBVIOUS
    <3>2. /\ answer'[t].after = Len(entries) /\ answer'[t].value = value
          /\ answer'[t].query = q /\ answer'[t].at = now
      BY <1>1, <2>3, <3>1
    <3>3. SubSeq(entries, 1, Len(entries)) = entries /\ Len(entries) \in 0..Len(entries)
      BY <1>2
    <3>4. ~raised => book = ReferenceBook(entries)
      BY <2>2 DEF BackedInv, Backs
    <3>5. QED BY <3>1, <3>2, <3>3, <3>4 DEF FromPrefix
  <2>6. QED BY <1>1, <2>1, <2>2, <2>4, <2>5, BackedFrame
<1>12. CASE UNCHANGED vars
  <2>1. Recorded' = Recorded
    BY <1>12 DEF vars, Recorded
  <2>2. QED BY <1>1, <1>12, <2>1, BackedFrame DEF vars
<1>13. QED
  BY <1>3, <1>4, <1>5, <1>6, <1>7, <1>8, <1>9, <1>10, <1>11, <1>12 DEF Next

(* A debit that raises half-way never makes the ledger forget spend (memory.py  *)
(* debit records before it appends): between operations every window holds at   *)
(* least what its entries add up to, wherever debits were interrupted before.   *)
THEOREM SpendIsNeverForgotten == Spec => []BookCoversEntries
<1>1. BackedInv => BookCoversEntries
  <2> SUFFICES ASSUME BackedInv, lock = NONE, NEW key \in ScopeKey, Touching(entries, key) # {}
               PROVE  LET least == ReferenceBalance(entries, key)
                      IN  /\ book[key] # NONE
                          /\ book[key].tokens_spent >= least.tokens_spent
                          /\ book[key].unpriced_debit_count >= least.unpriced_debit_count
                          /\ book[key].untotalled_debit_count >= least.untotalled_debit_count
                          /\ book[key].unmetered_debit_count >= least.unmetered_debit_count
                          /\ \A currency \in Currencies :
                                least.nanos_by_currency[currency] # NONE =>
                                    /\ book[key].nanos_by_currency[currency] # NONE
                                    /\ book[key].nanos_by_currency[currency]
                                        >= least.nanos_by_currency[currency]
    BY DEF BookCoversEntries
  <2>1. /\ Backs(raised, book, entries) /\ book \in Book
        /\ entries \in Seq(MemoryEntry) /\ Sound(entries)
    <3>1. Recorded = {}
      BY MemoryAssumption, RecordedHolder DEF BackedInv, Recorded
    <3>2. QED BY <3>1 DEF BackedInv, MemoryInv, Types
  <2>2. PICK least \in ScopeBalance : least = ReferenceBalance(entries, key)
    BY <2>1, ReferenceType
  <2>3. ReferenceBook(entries)[key] = least /\ least # NONE
    BY <2>2, NoneIsNoBalance DEF ReferenceBook
  <2>4. book[key] # NONE /\ Covers(book[key], least)
    <3>1. CASE raised
      BY <2>1, <2>3, <3>1 DEF Backs, BookCovers, BalanceIn
    <3>2. CASE ~raised
      BY <2>1, <2>2, <2>3, <3>2, CoversOrder DEF Backs
    <3>3. QED BY <3>1, <3>2
  <2>5. QED BY <2>2, <2>4 DEF Covers, MoneyCovers
<1>2. QED BY <1>1, BackedInit, BackedStep, PTL DEF Spec

(* A read is never torn (memory.py class docstring, "computed against one       *)
(* consistent state"), for any number of threads: until a debit raises          *)
(* half-way, it answers from the book of the entries recorded before it.        *)
THEOREM ReadsAreNeverTorn == Spec => []ReadsAreSnapshots
<1>1. BackedInv => ReadsAreSnapshots
  <2> SUFFICES ASSUME BackedInv, ~raised, NEW t \in Threads, answer[t] # NONE
               PROVE  answer[t].value
                      = AnswerOver(answer[t].query, BookAfter(entries)[answer[t].after],
                                   SubSeq(entries, 1, answer[t].after), answer[t].at)
    BY DEF ReadsAreSnapshots
  <2>1. PICK k \in 0..Len(entries) :
            /\ answer[t].after = k
            /\ answer[t].value = AnswerOver(answer[t].query, ReferenceBook(SubSeq(entries, 1, k)),
                                            SubSeq(entries, 1, k), answer[t].at)
    BY DEF BackedInv, FromPrefix
  <2>2. BookAfter(entries)[k] = ReferenceBook(SubSeq(entries, 1, k))
    BY BookAfterIsReference DEF BackedInv, MemoryInv, Types
  <2>3. QED BY <2>1, <2>2
<1>2. QED BY <1>1, BackedInit, BackedStep, PTL DEF Spec

=============================================================================
