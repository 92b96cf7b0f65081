---------------------------- MODULE LedgerProofs ----------------------------
(***************************************************************************)
(* Theorems about the abstract ledger, for any debits and ceilings.         *)
(***************************************************************************)
EXTENDS Ledger, BalanceBookProofs

(* Recording a debit in a book gives a book (core.py BalanceBook.record).       *)
LEMMA RecordType ==
    ASSUME NEW b \in Book, NEW debit \in ResolvedDebit
    PROVE  record(b, debit) \in Book
<1>1. contribution_of(debit.usage, debit.cost) \in DebitContribution
  BY ContributionType DEF ResolvedDebit
<1>2. ASSUME NEW key \in ScopeKey PROVE BalanceIn(b, key) \in ScopeBalance
  BY EmptyBalanceType DEF BalanceIn, Book
<1>3. ASSUME NEW key \in ScopeKey
      PROVE  Accumulate(BalanceIn(b, key), contribution_of(debit.usage, debit.cost)) \in ScopeBalance
  BY <1>1, <1>2, AccumulateType
<1>4. QED BY <1>3 DEF record, Book

(* Judging a window with a prospective debit is judging it once the debit is    *)
(* recorded (core.py BalanceBook._verdict_for).                                 *)
LEMMA RecordThenJudge ==
    ASSUME NEW ceiling \in BudgetCeiling, NEW balance \in ScopeBalance,
           NEW delta \in DebitContribution
    PROVE  verdict_over(ceiling, balance, delta)
           = verdict_over(ceiling, Accumulate(balance, delta), NOTHING)
<1>1. /\ balance.tokens_spent \in Nat /\ delta.tokens \in Nat
      /\ balance.unpriced_debit_count \in Nat
      /\ balance.untotalled_debit_count \in Nat
      /\ balance.unmetered_debit_count \in Nat
      /\ Count(delta.unpriced) \in Nat
      /\ Count(delta.untotalled) \in Nat
      /\ Count(delta.unmetered) \in Nat
  BY DEF ScopeBalance, DebitContribution, Count
<1>2. MoneyWith(ceiling, balance, delta) = MoneyWith(ceiling, Accumulate(balance, delta), NOTHING)
  <2>1. CASE ceiling.money = NONE
    BY <2>1 DEF MoneyWith
  <2>2. CASE ceiling.money # NONE
    <3>1. ceiling.money.currency \in Currencies
      BY <2>2 DEF BudgetCeiling
    <3>2. QED BY <2>2, <3>1 DEF MoneyWith, Accumulate, NOTHING
  <2>3. QED BY <2>1, <2>2
<1> DEFINE after == Accumulate(balance, delta)
<1>3. /\ after.tokens_spent + NOTHING.tokens = balance.tokens_spent + delta.tokens
      /\ after.unpriced_debit_count + Count(NOTHING.unpriced)
            = balance.unpriced_debit_count + Count(delta.unpriced)
      /\ after.untotalled_debit_count + Count(NOTHING.untotalled)
            = balance.untotalled_debit_count + Count(delta.untotalled)
      /\ after.unmetered_debit_count + Count(NOTHING.unmetered)
            = balance.unmetered_debit_count + Count(delta.unmetered)
  <2>1. /\ NOTHING.tokens = 0
        /\ Count(NOTHING.unpriced) = 0
        /\ Count(NOTHING.untotalled) = 0
        /\ Count(NOTHING.unmetered) = 0
    BY DEF Count, NOTHING
  <2> HIDE DEF after
  <2>2. /\ after.tokens_spent = balance.tokens_spent + delta.tokens
        /\ after.unpriced_debit_count = balance.unpriced_debit_count + Count(delta.unpriced)
        /\ after.untotalled_debit_count = balance.untotalled_debit_count + Count(delta.untotalled)
        /\ after.unmetered_debit_count = balance.unmetered_debit_count + Count(delta.unmetered)
    BY DEF after, Accumulate
  <2>3. QED BY <1>1, <2>1, <2>2
<1> HIDE DEF after
<1>4. QED BY <1>2, <1>3 DEF verdict_over, after

(* The pre-flight answer is the verdict of the debit, for any book.             *)
LEMMA ProspectiveIsRecorded ==
    ASSUME NEW b \in Book, NEW debit \in ResolvedDebit, NEW ceilings \in Seq(BudgetCeiling)
    PROVE  prospective_verdicts(ceilings, b, debit.run_id, debit.occurred_at,
                                debit.usage, debit.cost, debit.tags)
           = verdicts(ceilings, record(b, debit), debit.run_id, debit.occurred_at)
<1> DEFINE delta == contribution_of(debit.usage, debit.cost)
           key(i) == window_for(ceilings[i], debit.run_id, debit.occurred_at)
<1>1. debit.usage # NONE
  <2>1. debit.usage \in TokenUsage
    BY DEF ResolvedDebit
  <2>2. QED BY <2>1, NoneIsNoUsage
<1>2. delta \in DebitContribution
  BY ContributionType DEF ResolvedDebit
<1>3. ASSUME NEW i \in DOMAIN ceilings
      PROVE  verdict_over(ceilings[i], BalanceIn(b, key(i)),
                          IF key(i) \in WindowsOf(debit) THEN delta ELSE NOTHING)
             = verdict_over(ceilings[i], BalanceIn(record(b, debit), key(i)), NOTHING)
  <2>1. ceilings[i] \in BudgetCeiling
    OBVIOUS
  <2>2. key(i) \in ScopeKey
    BY <2>1 DEF window_for, ScopeKey, BudgetCeiling, CeilingScope, ResolvedDebit
  <2>3. BalanceIn(b, key(i)) \in ScopeBalance
    BY <2>2, EmptyBalanceType DEF BalanceIn, Book
  <2> HIDE DEF delta, key
  <2>4. CASE key(i) \in WindowsOf(debit)
    <3>1. record(b, debit)[key(i)] = Accumulate(BalanceIn(b, key(i)), delta)
      BY <2>2, <2>4 DEF record, delta
    <3>2. Accumulate(BalanceIn(b, key(i)), delta) # NONE
      BY <1>2, <2>3, AccumulateType, NoneIsNoBalance
    <3>3. BalanceIn(record(b, debit), key(i)) = Accumulate(BalanceIn(b, key(i)), delta)
      BY <3>1, <3>2 DEF BalanceIn
    <3>4. QED BY <1>2, <2>1, <2>3, <2>4, <3>3, RecordThenJudge
  <2>5. CASE key(i) \notin WindowsOf(debit)
    BY <2>2, <2>5 DEF record, BalanceIn
  <2>6. QED BY <2>4, <2>5
<1>4. QED BY <1>1, <1>3 DEF prospective_verdicts, verdicts, WindowsOf

(* Two instants give a ceiling one window, a day ceiling when they are of one   *)
(* UTC day, and at either its window is one the spend lands in or is not        *)
(* (core.py window_for, windows_touched).                                       *)
LEMMA WindowOfTheInstant ==
    ASSUME NEW ceiling \in BudgetCeiling, NEW run_id, NEW tags, NEW t, NEW at
    PROVE  /\ window_for(ceiling, run_id, t) \in windows_touched(run_id, t, tags)
                <=> window_for(ceiling, run_id, at) \in windows_touched(run_id, at, tags)
           /\ (ceiling.scope = "per_day" => utc_day_key(t) = utc_day_key(at))
                => window_for(ceiling, run_id, t) = window_for(ceiling, run_id, at)
<1>1. ceiling.scope \in {"per_run", "per_day", "per_tag"}
  BY DEF BudgetCeiling, CeilingScope
<1>2. CASE ceiling.scope = "per_run"
  BY <1>2 DEF window_for, windows_touched
<1>3. CASE ceiling.scope = "per_day"
  BY <1>3 DEF window_for, windows_touched
<1>4. CASE ceiling.scope = "per_tag"
  <2>1. /\ window_for(ceiling, run_id, t) = <<"per_tag", ceiling.tag>>
        /\ window_for(ceiling, run_id, at) = <<"per_tag", ceiling.tag>>
    BY <1>4 DEF window_for
  <2>2. \A u : <<"per_tag", ceiling.tag>> \in windows_touched(run_id, u, tags)
                <=> ceiling.tag \in tags
    BY DEF windows_touched
  <2>3. QED BY <2>1, <2>2
<1>5. QED BY <1>1, <1>2, <1>3, <1>4

-----------------------------------------------------------------------------
(* The invariant *)

Recorded == [debit : ResolvedDebit,
             unpriced : BOOLEAN,
             report : UNION {[positions -> CeilingVerdict] : positions \in SUBSET Nat}]

\* The money caps in an entry's report over windows its debit touched.
SeesSpend(entry) ==
    LET debit == entry.debit
    IN  \A i \in DOMAIN entry.report :
            LET ceiling == entry.report[i].ceiling
            IN  /\ debit.cost # NONE
                /\ ceiling.money # NONE
                /\ window_for(ceiling, debit.run_id, debit.occurred_at) \in WindowsOf(debit)
                => ceiling.money.currency = debit.cost.currency

LedgerInv ==
    /\ book \in Book
    /\ runs \subseteq Runs
    /\ entries \in Seq(Recorded)
    /\ \A e \in DOMAIN entries : SeesSpend(entries[e])

(* The verdicts over a book are verdicts, each on the ceiling at its position   *)
(* (core.py BalanceBook.verdicts).                                              *)
LEMMA VerdictsType ==
    ASSUME NEW b \in Book, NEW ceilings \in Seq(BudgetCeiling),
           NEW run_id \in Runs, NEW at \in Instants
    PROVE  /\ verdicts(ceilings, b, run_id, at) \in [DOMAIN ceilings -> CeilingVerdict]
           /\ \A i \in DOMAIN ceilings :
                verdicts(ceilings, b, run_id, at)[i].ceiling = ceilings[i]
<1>1. NOTHING \in DebitContribution
  BY DEF NOTHING, DebitContribution
<1>2. ASSUME NEW i \in DOMAIN ceilings
      PROVE  /\ verdict_over(ceilings[i], BalanceIn(b, window_for(ceilings[i], run_id, at)),
                             NOTHING) \in CeilingVerdict
             /\ verdict_over(ceilings[i], BalanceIn(b, window_for(ceilings[i], run_id, at)),
                             NOTHING).ceiling = ceilings[i]
  <2>1. ceilings[i] \in BudgetCeiling
    OBVIOUS
  <2>2. window_for(ceilings[i], run_id, at) \in ScopeKey
    BY <2>1 DEF window_for, ScopeKey, BudgetCeiling, CeilingScope
  <2>3. BalanceIn(b, window_for(ceilings[i], run_id, at)) \in ScopeBalance
    BY <2>2, EmptyBalanceType DEF BalanceIn, Book
  <2>4. QED
    <3>1. \A c, balance, delta : verdict_over(c, balance, delta).ceiling = c
      BY DEF verdict_over
    <3>2. QED BY <1>1, <2>1, <2>3, <3>1, VerdictType
<1>3. QED BY <1>2 DEF verdicts

(* The entry of a debit the currency check let through (core.py record_debit).  *)
LEMMA NewEntryIsSound ==
    ASSUME NEW b \in Book, NEW ceilings \in Seq(BudgetCeiling), NEW debit \in ResolvedDebit,
           currency_compatible(ceilings, debit.cost, debit.run_id, debit.occurred_at, debit.tags)
    PROVE  LET entry == NewEntry(debit, verdicts(ceilings, b, debit.run_id, debit.occurred_at))
           IN  entry \in Recorded /\ SeesSpend(entry)
<1> DEFINE vs == verdicts(ceilings, b, debit.run_id, debit.occurred_at)
           entry == NewEntry(debit, vs)
<1>1. debit.run_id \in Runs /\ debit.occurred_at \in Instants
  BY DEF ResolvedDebit
<1>2. /\ vs \in [DOMAIN ceilings -> CeilingVerdict]
      /\ \A i \in DOMAIN ceilings : vs[i].ceiling = ceilings[i]
  BY <1>1, VerdictsType
<1>3. DOMAIN ceilings \subseteq Nat
  OBVIOUS
<1> HIDE DEF vs
<1>4. /\ DOMAIN entry.report \subseteq DOMAIN ceilings
      /\ entry.report \in [DOMAIN entry.report -> CeilingVerdict]
      /\ \A i \in DOMAIN entry.report : entry.report[i].ceiling = ceilings[i]
      /\ entry.debit = debit
      /\ entry = [debit |-> debit, unpriced |-> is_unpriced(debit.cost),
                  report |-> entry.report]
  BY <1>2 DEF NewEntry, report, answered
<1>5. is_unpriced(debit.cost) \in BOOLEAN
  BY DEF is_unpriced, Totalled
<1> HIDE DEF entry
<1>6. entry \in Recorded
  <2>1. entry.report \in UNION {[positions -> CeilingVerdict] : positions \in SUBSET Nat}
    BY <1>3, <1>4
  <2>2. QED BY <1>4, <1>5, <2>1 DEF Recorded
<1>7. SeesSpend(entry)
  BY <1>4 DEF SeesSpend, currency_compatible, WindowsOf
<1>8. QED BY <1>6, <1>7 DEF entry, vs

LEMMA LedgerInit == Init => LedgerInv
<1> SUFFICES ASSUME Init PROVE LedgerInv
  OBVIOUS
<1>1. book \in Book
  BY DEF Init, EmptyBook, Book
<1>2. QED BY <1>1 DEF Init, LedgerInv

LEMMA LedgerStep == LedgerInv /\ [Next]_vars => LedgerInv'
<1> SUFFICES ASSUME LedgerInv, [Next]_vars PROVE LedgerInv'
  OBVIOUS
<1>1. ASSUME NEW run_id \in Runs, DeclareRun(run_id) PROVE LedgerInv'
  BY <1>1 DEF DeclareRun, LedgerInv
<1>2. ASSUME NEW d \in Debits, NEW now \in Instants, NEW ceilings \in CeilingSets,
             RecordDebit(resolved_debit(d, now), ceilings)
      PROVE  LedgerInv'
  <2>1. PICK debit : debit = resolved_debit(d, now)
    OBVIOUS
  <2>2. debit \in ResolvedDebit /\ ceilings \in Seq(BudgetCeiling)
    BY <2>1, LedgerAssumption, ResolvedDebitType
  <2>3. RecordDebit(debit, ceilings)
    BY <1>2, <2>1
  <2>4. book' \in Book
    BY <2>2, <2>3, RecordType DEF RecordDebit, LedgerInv
  <2>5. runs' \subseteq Runs
    BY <2>2, <2>3 DEF RecordDebit, LedgerInv, ResolvedDebit
  <2>6. PICK entry : entry = NewEntry(debit, verdicts(ceilings, book', debit.run_id,
                                                      debit.occurred_at))
    OBVIOUS
  <2>7. entry \in Recorded /\ SeesSpend(entry)
    BY <2>2, <2>3, <2>4, <2>6, NewEntryIsSound DEF RecordDebit
  <2>8. entries' = Append(entries, entry)
    BY <2>3, <2>6 DEF RecordDebit
  <2>9. entries' \in Seq(Recorded)
    BY <2>7, <2>8 DEF LedgerInv
  <2>10. \A e \in DOMAIN entries' : SeesSpend(entries'[e])
    <3>1. ASSUME NEW e \in DOMAIN entries'
          PROVE  entries'[e] = entry \/ (e \in DOMAIN entries /\ entries'[e] = entries[e])
      BY <2>7, <2>8 DEF LedgerInv
    <3>2. QED BY <2>7, <3>1 DEF LedgerInv
  <2>11. QED BY <2>4, <2>5, <2>9, <2>10 DEF LedgerInv, SeesSpend
<1>3. CASE UNCHANGED vars
  BY <1>3 DEF vars, LedgerInv, SeesSpend
<1>4. QED BY <1>1, <1>2, <1>3 DEF Next

(* What the invariant says of the entries is what the type invariant says.       *)
LEMMA InvImpliesTypeOK == LedgerInv => TypeOK
<1>1. ASSUME NEW entry \in Recorded PROVE EntryOK(entry)
  <2>1. PICK positions \in SUBSET Nat : entry.report \in [positions -> CeilingVerdict]
    BY DEF Recorded
  <2>2. QED BY <2>1 DEF Recorded, EntryOK
<1>2. QED BY <1>1 DEF LedgerInv, TypeOK

-----------------------------------------------------------------------------
(* Theorems *)

(* Every reachable book, run set and entry is one the constructors accept      *)
(* (core.py _ScopeBalance, types.py LedgerEntry).                              *)
THEOREM TypeCorrect == Spec => []TypeOK
<1>1. QED BY InvImpliesTypeOK, LedgerInit, LedgerStep, PTL DEF Spec

(* What would_exceed says now is what a debit made now is recorded with, in     *)
(* every reachable state and for every debit, instant and ceiling sequence: the *)
(* same refusal, the same verdicts, but for a day ceiling when the debit is     *)
(* dated to another day (core.py would_exceed).                                 *)
THEOREM PreflightIsFaithful == Spec => []PreflightForetellsDebit
<1>1. LedgerInv => PreflightForetellsDebit
  <2> SUFFICES ASSUME book \in Book, NEW d \in Debits, NEW now \in Instants,
                      NEW ceilings \in CeilingSets
               PROVE  LET debit == resolved_debit(d, now)
                          told == would_exceed(ceilings, d.run_id, d.usage, d.cost, d.tags, now)
                          recorded == verdicts(ceilings, record(book, debit), debit.run_id,
                                               debit.occurred_at)
                          allowed(t) == currency_compatible(ceilings, d.cost, d.run_id, t, d.tags)
                          SameDay == utc_day_key(now) = utc_day_key(debit.occurred_at)
                      IN  /\ allowed(now) <=> allowed(debit.occurred_at)
                          /\ \A i \in DOMAIN ceilings :
                                /\ allowed(now)
                                /\ ceilings[i].scope = "per_day" => SameDay
                                => told[i] = recorded[i]
    BY DEF LedgerInv, PreflightForetellsDebit
  <2>1. PICK debit \in ResolvedDebit : debit = resolved_debit(d, now)
    BY LedgerAssumption, ResolvedDebitType
  <2>2. /\ debit.run_id = d.run_id /\ debit.usage = d.usage
        /\ debit.cost = d.cost /\ debit.tags = d.tags
    BY <2>1, LedgerAssumption DEF resolved_debit, Debit
  <2>3. ceilings \in Seq(BudgetCeiling)
    BY LedgerAssumption
  <2>4. currency_compatible(ceilings, d.cost, d.run_id, now, d.tags)
        <=> currency_compatible(ceilings, d.cost, d.run_id, debit.occurred_at, d.tags)
    <3>1. \A i \in DOMAIN ceilings :
            window_for(ceilings[i], d.run_id, now) \in windows_touched(d.run_id, now, d.tags)
            <=> window_for(ceilings[i], d.run_id, debit.occurred_at)
                    \in windows_touched(d.run_id, debit.occurred_at, d.tags)
      BY <2>3, WindowOfTheInstant
    <3>2. QED BY <3>1 DEF currency_compatible
  <2>5. ASSUME NEW i \in DOMAIN ceilings,
               ceilings[i].scope = "per_day" => utc_day_key(now) = utc_day_key(debit.occurred_at)
        PROVE  prospective_verdicts(ceilings, book, d.run_id, now, d.usage, d.cost, d.tags)[i]
               = verdicts(ceilings, record(book, debit), debit.run_id, debit.occurred_at)[i]
    <3>1. /\ window_for(ceilings[i], d.run_id, now) \in windows_touched(d.run_id, now, d.tags)
             <=> window_for(ceilings[i], d.run_id, debit.occurred_at)
                    \in windows_touched(d.run_id, debit.occurred_at, d.tags)
          /\ window_for(ceilings[i], d.run_id, now)
             = window_for(ceilings[i], d.run_id, debit.occurred_at)
      BY <2>3, <2>5, WindowOfTheInstant
    <3>2. d.usage # NONE
      BY <2>2, NoneIsNoUsage DEF ResolvedDebit
    <3>3. prospective_verdicts(ceilings, book, d.run_id, now, d.usage, d.cost, d.tags)[i]
          = prospective_verdicts(ceilings, book, d.run_id, debit.occurred_at, d.usage, d.cost,
                                 d.tags)[i]
      BY <3>1, <3>2 DEF prospective_verdicts
    <3>4. QED BY <2>2, <2>3, <3>3, ProspectiveIsRecorded
  <2>6. QED BY <2>1, <2>2, <2>4, <2>5 DEF would_exceed
<1>2. QED BY <1>1, LedgerInit, LedgerStep, PTL DEF Spec

-----------------------------------------------------------------------------
(* The balances and the entries *)

HistoryInv ==
    /\ LedgerInv
    /\ Sound(entries)
    /\ AddsUp(book, entries)

LEMMA HistoryInit == Init => HistoryInv
BY LedgerInit, AddsUpInit DEF Init, HistoryInv, Sound

LEMMA HistoryStep == HistoryInv /\ [Next]_vars => HistoryInv'
<1> SUFFICES ASSUME HistoryInv, [Next]_vars PROVE HistoryInv'
  OBVIOUS
<1>1. LedgerInv /\ LedgerInv'
  BY LedgerStep DEF HistoryInv
<1>2. ASSUME NEW run_id \in Runs, DeclareRun(run_id) PROVE HistoryInv'
  BY <1>1, <1>2 DEF DeclareRun, HistoryInv
<1>3. ASSUME NEW d \in Debits, NEW now \in Instants, NEW ceilings \in CeilingSets,
             RecordDebit(resolved_debit(d, now), ceilings)
      PROVE  HistoryInv'
  <2>1. PICK debit \in ResolvedDebit : debit = resolved_debit(d, now)
    BY LedgerAssumption, ResolvedDebitType
  <2>2. PICK entry : entry = NewEntry(debit, verdicts(ceilings, book', debit.run_id,
                                                      debit.occurred_at))
    OBVIOUS
  <2>3. /\ book' = record(book, debit)
        /\ entries' = Append(entries, entry)
        /\ entries \in Seq(Recorded) /\ entries' \in Seq(Recorded)
    BY <1>1, <1>3, <2>1, <2>2 DEF RecordDebit, LedgerInv
  <2>4. entry.debit = debit /\ entry.unpriced = is_unpriced(debit.cost)
    BY <2>2 DEF NewEntry
  <2>5. entry \in Recorded
    <3>1. Len(entries) + 1 \in DOMAIN entries' /\ entries'[Len(entries) + 1] = entry
      BY <2>3
    <3>2. QED BY <2>3, <3>1
  <2>6. Sound(Append(entries, entry))
    <3>1. ASSUME NEW e \in DOMAIN Append(entries, entry)
          PROVE  \/ Append(entries, entry)[e] = entry
                 \/ e \in DOMAIN entries /\ Append(entries, entry)[e] = entries[e]
      BY <2>3, <2>5
    <3>2. QED BY <2>1, <2>4, <3>1 DEF HistoryInv, Sound
  <2>7. AddsUp(record(book, entry.debit), Append(entries, entry))
    BY <2>3, <2>5, <2>6, AddsUpStep DEF HistoryInv
  <2>8. QED BY <1>1, <2>3, <2>4, <2>6, <2>7 DEF HistoryInv
<1>4. CASE UNCHANGED vars
  BY <1>1, <1>4 DEF vars, HistoryInv
<1>5. QED BY <1>2, <1>3, <1>4 DEF Next

(* The running balances never drift from the entries (spec.md contract 1).      *)
THEOREM BalancesNeverDrift == Spec => []BookIsEntries
<1>1. HistoryInv => BookIsEntries
  BY DEF HistoryInv, BookIsEntries
<1>2. QED BY <1>1, HistoryInit, HistoryStep, PTL DEF Spec

(* What a strict ceiling that is not exceeded says of its window.               *)
LEMMA StrictUnder ==
    ASSUME NEW ceiling \in BudgetCeiling, NEW balance \in ScopeBalance,
           ceiling.partial_pricing = "strict",
           ~verdict_over(ceiling, balance, NOTHING).exceeded
    PROVE  /\ ceiling.money.currency \in Currencies
           /\ balance.untotalled_debit_count = 0
           /\ NoneAsZero(balance.nanos_by_currency[ceiling.money.currency]) <= ceiling.money.nanos
<1>1. ceiling.money \in [currency : Currencies, nanos : Nat] /\ ceiling.money # NONE
  BY DEF BudgetCeiling
<1>2. /\ ~OverMoney(ceiling, MoneyWith(ceiling, balance, NOTHING))
      /\ ~StrictlyUnknown(ceiling, balance.untotalled_debit_count + Count(NOTHING.untotalled))
  BY DEF verdict_over
<1>3. balance.untotalled_debit_count \in Nat /\ Count(NOTHING.untotalled) = 0
  BY DEF ScopeBalance, Count, NOTHING
<1>4. balance.untotalled_debit_count = 0
  BY <1>1, <1>2, <1>3 DEF StrictlyUnknown
<1>5. MoneyWith(ceiling, balance, NOTHING) = balance.nanos_by_currency[ceiling.money.currency]
  BY <1>1 DEF MoneyWith, NOTHING
<1>6. balance.nanos_by_currency[ceiling.money.currency] \in Nat \cup {NONE}
  BY <1>1 DEF ScopeBalance
<1>7. QED BY <1>1, <1>2, <1>4, <1>5, <1>6 DEF OverMoney, NoneAsZero

(* A strict ceiling that reports "not exceeded" vouches for a complete sum      *)
(* (types.py PartialPricing.STRICT).                                            *)
THEOREM StrictVouches == Spec => []StrictUnderIsComplete
<1>1. HistoryInv => StrictUnderIsComplete
  <2> SUFFICES ASSUME HistoryInv, NEW ceilings \in CeilingSets, NEW run_id \in Runs,
                      NEW at \in Instants, NEW i \in DOMAIN ceilings,
                      ceilings[i].partial_pricing = "strict",
                      ~verdicts(ceilings, book, run_id, at)[i].exceeded
               PROVE  LET key == window_for(ceilings[i], run_id, at)
                      IN  /\ UntotalledIn(entries, key) = {}
                          /\ SumFunctionOnSet(NanosOf(entries),
                                              PricedIn(entries, key, ceilings[i].money.currency))
                                <= ceilings[i].money.nanos
    BY DEF StrictUnderIsComplete
  <2>1. PICK ceiling \in BudgetCeiling : ceiling = ceilings[i]
    BY LedgerAssumption
  <2>2. PICK key \in ScopeKey : key = window_for(ceiling, run_id, at)
    BY DEF window_for, ScopeKey, BudgetCeiling, CeilingScope
  <2>3. PICK balance \in ScopeBalance : balance = ReferenceBalance(entries, key)
    BY ReferenceType DEF HistoryInv, LedgerInv
  <2>4. balance = BalanceIn(book, key)
    BY <2>3, BalanceIsReference DEF HistoryInv, LedgerInv
  <2>5. ~verdict_over(ceiling, balance, NOTHING).exceeded
    BY <2>1, <2>2, <2>4 DEF verdicts
  <2>6. /\ ceiling.money.currency \in Currencies
        /\ balance.untotalled_debit_count = 0
        /\ NoneAsZero(balance.nanos_by_currency[ceiling.money.currency]) <= ceiling.money.nanos
    BY <2>1, <2>5, StrictUnder
  <2>7. UntotalledIn(entries, key) = {}
    <3>1. Cardinality(UntotalledIn(entries, key)) = 0
      BY <2>3, <2>6 DEF ReferenceBalance
    <3>2. IsFiniteSet(UntotalledIn(entries, key))
      <4>1. IsFiniteSet(DOMAIN entries)
        BY EntriesAreCounted DEF HistoryInv, LedgerInv
      <4>2. UntotalledIn(entries, key) \in SUBSET (DOMAIN entries)
        BY DEF UntotalledIn, Touching
      <4>3. QED BY <4>1, <4>2, FS_Subset
    <3>3. QED BY <3>1, <3>2, FS_EmptySet
  <2>8. SumFunctionOnSet(NanosOf(entries), PricedIn(entries, key, ceiling.money.currency))
            = NoneAsZero(balance.nanos_by_currency[ceiling.money.currency])
    BY <2>3, <2>6, ReferenceMoney DEF HistoryInv, LedgerInv
  <2>9. QED BY <2>1, <2>2, <2>6, <2>7, <2>8
<1>2. QED BY <1>1, HistoryInit, HistoryStep, PTL DEF Spec

-----------------------------------------------------------------------------
(* The verdicts and the entries *)

(* The debits of the last one's run, UTC day or tag are those that landed in    *)
(* the window the ceiling reads for it (core.py window_for, windows_touched).   *)
LEMMA LandedIsTouching ==
    ASSUME NEW E, NEW h \in Seq(E), Sound(h), h # <<>>, NEW ceiling \in BudgetCeiling
    PROVE  LET last == h[Len(h)].debit
           IN  /\ LandedWithLast(h, ceiling)
                    = Touching(h, window_for(ceiling, last.run_id, last.occurred_at))
               /\ \A j \in LandedWithLast(h, ceiling) :
                    window_for(ceiling, h[j].debit.run_id, h[j].debit.occurred_at)
                        \in WindowsOf(h[j].debit)
<1> DEFINE last == h[Len(h)].debit
           key == window_for(ceiling, last.run_id, last.occurred_at)
           own(j) == window_for(ceiling, h[j].debit.run_id, h[j].debit.occurred_at)
           LandsIn(j) == \/ ceiling.scope = "per_run" /\ h[j].debit.run_id = last.run_id
                         \/ /\ ceiling.scope = "per_day"
                            /\ utc_day_key(h[j].debit.occurred_at) = utc_day_key(last.occurred_at)
                         \/ ceiling.scope = "per_tag" /\ ceiling.tag \in h[j].debit.tags
<1>1. ceiling.scope \in {"per_run", "per_day", "per_tag"}
  BY DEF BudgetCeiling, CeilingScope
<1>2. ASSUME NEW j \in DOMAIN h
      PROVE  /\ LandsIn(j) <=> key \in WindowsOf(h[j].debit)
             /\ LandsIn(j) => own(j) \in WindowsOf(h[j].debit)
  <2>1. PICK debit : debit = h[j].debit
    OBVIOUS
  <2>2. PICK final : final = last
    OBVIOUS
  <2> HIDE DEF last
  <2>3. CASE ceiling.scope = "per_run"
    BY <2>1, <2>2, <2>3 DEF window_for, WindowsOf, windows_touched
  <2>4. CASE ceiling.scope = "per_day"
    BY <2>1, <2>2, <2>4 DEF window_for, WindowsOf, windows_touched
  <2>5. CASE ceiling.scope = "per_tag"
    BY <2>1, <2>2, <2>5 DEF window_for, WindowsOf, windows_touched
  <2>6. QED BY <1>1, <2>3, <2>4, <2>5
<1>3. LandedWithLast(h, ceiling) = {j \in DOMAIN h : LandsIn(j)}
  BY DEF LandedWithLast
<1> HIDE DEF LandsIn, key, own, last
<1>4. LandedWithLast(h, ceiling) = Touching(h, key)
  BY <1>2, <1>3 DEF Touching
<1>5. \A j \in LandedWithLast(h, ceiling) : own(j) \in WindowsOf(h[j].debit)
  BY <1>2, <1>3
<1>6. QED BY <1>4, <1>5 DEF key, own, last

(* A verdict over the window of a book that adds up tells the history (core.py  *)
(* BalanceBook._verdict_for).                                                   *)
LEMMA VerdictTells ==
    ASSUME NEW E, NEW h \in Seq(E), Sound(h), h # <<>>, NEW b, AddsUp(b, h),
           NEW ceiling \in BudgetCeiling
    PROVE  LET last == h[Len(h)].debit
               key  == window_for(ceiling, last.run_id, last.occurred_at)
           IN  Tells(verdict_over(ceiling, BalanceIn(b, key), NOTHING), h)
<1>1. PICK last \in ResolvedDebit : last = h[Len(h)].debit
  BY DEF Sound
<1>2. PICK key \in ScopeKey : key = window_for(ceiling, last.run_id, last.occurred_at)
  BY DEF window_for, ScopeKey, BudgetCeiling, CeilingScope, ResolvedDebit
<1>3. PICK balance \in ScopeBalance : balance = ReferenceBalance(h, key)
  BY ReferenceType
<1>4. BalanceIn(b, key) = balance
  BY <1>3, BalanceIsReference
<1>5. PICK verdict : verdict = verdict_over(ceiling, balance, NOTHING)
  OBVIOUS
<1> DEFINE landed == LandedWithLast(h, ceiling)
           priced == {j \in landed :
                        LET cost == h[j].debit.cost
                        IN  /\ cost # NONE
                            /\ cost.currency = ceiling.money.currency
                            /\ cost.components # AllUnreported}
           incomplete == {j \in landed : LET cost == h[j].debit.cost
                                         IN  cost # NONE /\ ~Totalled(cost)}
           tokens == SumFunctionOnSet(TokensOf(h), landed)
           nanos == SumFunctionOnSet(NanosOf(h), priced)
<1>6. landed = Touching(h, key)
  BY <1>1, <1>2, LandedIsTouching
<1>7. incomplete = UntotalledIn(h, key)
  BY <1>6 DEF UntotalledIn
<1>8. priced = PricedIn(h, key, ceiling.money.currency)
  <2>1. ASSUME NEW j \in landed, h[j].debit.cost # NONE
        PROVE  h[j].debit.cost.components # AllUnreported
               <=> \E class \in TokenClasses : h[j].debit.cost.components[class] # UNSUPPORTED
    <3>1. h[j].debit.cost.components \in [TokenClasses -> Nat \cup {UNSUPPORTED}]
      BY <1>6, <2>1 DEF Touching, Sound, ResolvedDebit, CostEstimate
    <3>2. QED BY <3>1 DEF AllUnreported
  <2> HIDE DEF landed
  <2>2. QED BY <1>6, <2>1 DEF PricedIn
<1> HIDE DEF landed, priced, incomplete
<1>9. tokens = balance.tokens_spent
  BY <1>3, <1>6 DEF ReferenceBalance
<1>10. Cardinality(incomplete) = balance.untotalled_debit_count
  BY <1>3, <1>7 DEF ReferenceBalance
<1>11. incomplete # {} <=> balance.untotalled_debit_count > 0
  <2>1. IsFiniteSet(incomplete)
    <3>1. IsFiniteSet(DOMAIN h) /\ incomplete \in SUBSET (DOMAIN h)
      BY <1>7, EntriesAreCounted DEF UntotalledIn, Touching
    <3>2. QED BY <3>1, FS_Subset
  <2>2. Cardinality(incomplete) \in Nat /\ (Cardinality(incomplete) = 0 <=> incomplete = {})
    BY <2>1, FS_CardinalityType, FS_EmptySet
  <2>3. QED BY <1>10, <2>2
<1>12. ASSUME ceiling.money # NONE
       PROVE  /\ nanos \in Nat
              /\ balance.nanos_by_currency[ceiling.money.currency]
                    = IF priced = {} THEN NONE ELSE nanos
              /\ priced = {} => nanos = 0
  <2>1. ceiling.money.currency \in Currencies
    BY <1>12 DEF BudgetCeiling
  <2>2. QED BY <1>3, <1>8, <2>1, ReferenceMoney, SumEmpty
<1> HIDE DEF tokens, nanos
<1>13. /\ verdict.ceiling = ceiling
       /\ verdict.tokens_spent = tokens
       /\ verdict.untotalled_debit_count = Cardinality(incomplete)
  BY <1>5, <1>9, <1>10 DEF verdict_over, NOTHING, Count, ScopeBalance
<1>14. verdict.money_spent = IF ceiling.money = NONE \/ priced = {} THEN NONE ELSE nanos
  BY <1>5, <1>12 DEF verdict_over, MoneyWith, NOTHING
<1>15. verdict.exceeded <=>
            \/ ceiling.tokens # NONE /\ tokens > ceiling.tokens
            \/ ceiling.money # NONE /\ nanos > ceiling.money.nanos
            \/ ceiling.partial_pricing = "strict" /\ incomplete # {}
  <2>1. verdict.exceeded <=>
            \/ OverTokens(ceiling, balance.tokens_spent + NOTHING.tokens)
            \/ OverMoney(ceiling, verdict.money_spent)
            \/ StrictlyUnknown(ceiling, balance.untotalled_debit_count + Count(NOTHING.untotalled))
    BY <1>5 DEF verdict_over
  <2>2. /\ balance.tokens_spent + NOTHING.tokens = tokens
        /\ balance.untotalled_debit_count + Count(NOTHING.untotalled)
            = balance.untotalled_debit_count
    BY <1>9 DEF NOTHING, Count, ScopeBalance
  <2>3. OverTokens(ceiling, tokens) <=> ceiling.tokens # NONE /\ tokens > ceiling.tokens
    BY DEF OverTokens
  <2>4. StrictlyUnknown(ceiling, balance.untotalled_debit_count)
            <=> ceiling.partial_pricing = "strict" /\ incomplete # {}
    BY <1>11 DEF StrictlyUnknown, BudgetCeiling
  <2>5. OverMoney(ceiling, verdict.money_spent)
            <=> ceiling.money # NONE /\ nanos > ceiling.money.nanos
    <3>1. CASE ceiling.money = NONE
      BY <3>1 DEF OverMoney
    <3>2. CASE ceiling.money # NONE
      <4>1. ceiling.money.nanos \in Nat
        BY <3>2 DEF BudgetCeiling
      <4>2. nanos # NONE /\ nanos \in Nat
        BY <1>12, <3>2, NoneIsNoNumber
      <4>3. QED BY <1>12, <1>14, <3>2, <4>1, <4>2 DEF OverMoney
    <3>3. QED BY <3>1, <3>2
  <2>6. QED BY <2>1, <2>2, <2>3, <2>4, <2>5
<1>16. QED
  BY <1>1, <1>2, <1>4, <1>5, <1>13, <1>14, <1>15
  DEF Tells, landed, priced, incomplete, tokens, nanos

TellsInv ==
    /\ HistoryInv
    /\ VerdictsTellHistory

LEMMA TellsInit == Init => TellsInv
BY HistoryInit DEF Init, TellsInv, VerdictsTellHistory

LEMMA TellsStep == TellsInv /\ [Next]_vars => TellsInv'
<1> SUFFICES ASSUME TellsInv, [Next]_vars PROVE TellsInv'
  OBVIOUS
<1>1. HistoryInv /\ HistoryInv'
  BY HistoryStep DEF TellsInv
<1>2. ASSUME NEW run_id \in Runs, DeclareRun(run_id) PROVE TellsInv'
  BY <1>1, <1>2 DEF DeclareRun, TellsInv, VerdictsTellHistory
<1>3. ASSUME NEW d \in Debits, NEW now \in Instants, NEW ceilings \in CeilingSets,
             RecordDebit(resolved_debit(d, now), ceilings)
      PROVE  TellsInv'
  <2>1. PICK debit \in ResolvedDebit : debit = resolved_debit(d, now)
    BY LedgerAssumption, ResolvedDebitType
  <2>2. PICK entry : entry = NewEntry(debit, verdicts(ceilings, book', debit.run_id,
                                                      debit.occurred_at))
    OBVIOUS
  <2>3. /\ entries' = Append(entries, entry)
        /\ entries \in Seq(Recorded) /\ entries' \in Seq(Recorded)
        /\ Sound(entries') /\ AddsUp(book', entries')
    BY <1>1, <1>3, <2>1, <2>2 DEF RecordDebit, HistoryInv, LedgerInv
  <2>4. /\ entry.debit = debit
        /\ \A i \in DOMAIN entry.report :
            /\ i \in DOMAIN ceilings
            /\ entry.report[i] = verdict_over(ceilings[i],
                                    BalanceIn(book', window_for(ceilings[i], debit.run_id,
                                                                debit.occurred_at)), NOTHING)
    BY <2>2 DEF NewEntry, report, answered, verdicts
  <2>5. PICK h \in Seq(Recorded) : h = entries'
    BY <2>3
  <2>6. Len(h) = Len(entries) + 1 /\ h # <<>> /\ h[Len(h)] = entry
    BY <2>3, <2>5
  <2>7. ASSUME NEW i \in DOMAIN entry.report PROVE Tells(entry.report[i], h)
    <3>1. ceilings[i] \in BudgetCeiling
      BY <2>4, <2>7, LedgerAssumption
    <3>2. QED BY <2>3, <2>4, <2>5, <2>6, <3>1, VerdictTells
  <2>8. ASSUME NEW e \in DOMAIN h, NEW i \in DOMAIN h[e].report
        PROVE  Tells(h[e].report[i], SubSeq(h, 1, e))
    <3>1. CASE e = Len(h)
      <4>1. SubSeq(h, 1, Len(h)) = h
        OBVIOUS
      <4>2. QED BY <2>6, <2>7, <2>8, <3>1, <4>1
    <3>2. CASE e # Len(h)
      <4>1. e \in DOMAIN entries
        BY <2>3, <2>5, <3>2
      <4>2. h[e] = entries[e]
        BY <2>3, <2>5, <4>1
      <4>3. SubSeq(h, 1, e) = SubSeq(entries, 1, e)
        BY <2>3, <2>5, <4>1
      <4>4. QED BY <2>8, <4>1, <4>2, <4>3 DEF TellsInv, VerdictsTellHistory
    <3>3. QED BY <3>1, <3>2
  <2>9. VerdictsTellHistory'
    BY <2>5, <2>8 DEF VerdictsTellHistory
  <2>10. QED BY <1>1, <2>9 DEF TellsInv
<1>4. CASE UNCHANGED vars
  BY <1>1, <1>4 DEF vars, TellsInv, VerdictsTellHistory
<1>5. QED BY <1>2, <1>3, <1>4 DEF Next

(* The verdicts an entry carries are those of the history it ends (types.py     *)
(* CeilingVerdict): the amounts recomputed from the debits recorded so far, and *)
(* exceeded strictly over a cap.                                                *)
THEOREM VerdictsAreOfTheHistory == Spec => []VerdictsTellHistory
<1>1. TellsInv => VerdictsTellHistory
  BY DEF TellsInv
<1>2. QED BY <1>1, TellsInit, TellsStep, PTL DEF Spec

(* A money cap in force for every debit its window holds omits none of their    *)
(* money (core.py require_currency_compatible).                                 *)
THEOREM CapsSeeSpend == Spec => []CapInForceSeesAllSpend
<1>1. TellsInv => CapInForceSeesAllSpend
  <2> SUFFICES ASSUME TellsInv, NEW e \in DOMAIN entries, NEW i \in DOMAIN entries[e].report,
                      entries[e].report[i].ceiling.money # NONE,
                      LandedWithLast(SubSeq(entries, 1, e), entries[e].report[i].ceiling)
                        = {j \in LandedWithLast(SubSeq(entries, 1, e),
                                                entries[e].report[i].ceiling) :
                            \E k \in DOMAIN SubSeq(entries, 1, e)[j].report :
                                SubSeq(entries, 1, e)[j].report[k].ceiling
                                = entries[e].report[i].ceiling}
               PROVE  NoneAsZero(entries[e].report[i].money_spent)
                      = SumFunctionOnSet(NanosOf(SubSeq(entries, 1, e)),
                                         LandedWithLast(SubSeq(entries, 1, e),
                                                        entries[e].report[i].ceiling))
    BY DEF CapInForceSeesAllSpend
  <2>a. PICK h : h = SubSeq(entries, 1, e)
    OBVIOUS
  <2>b. PICK ceiling : ceiling = entries[e].report[i].ceiling /\ ceiling.money # NONE
    OBVIOUS
  <2>c. \A j \in LandedWithLast(h, ceiling) :
            \E k \in DOMAIN h[j].report : h[j].report[k].ceiling = ceiling
    BY <2>a, <2>b
  <2>d. SUFFICES NoneAsZero(entries[e].report[i].money_spent)
                 = SumFunctionOnSet(NanosOf(h), LandedWithLast(h, ceiling))
    BY <2>a, <2>b
  <2>1. entries \in Seq(Recorded) /\ Sound(entries)
    BY DEF TellsInv, HistoryInv, LedgerInv
  <2>2. /\ h \in Seq(Recorded) /\ Sound(h) /\ h # <<>>
        /\ \A j \in DOMAIN h : j \in DOMAIN entries /\ h[j] = entries[j]
    BY <2>1, <2>a, SoundPrefix
  <2>3. ceiling \in BudgetCeiling
    <3>1. entries[e] \in Recorded
      BY <2>1
    <3>2. PICK positions \in SUBSET Nat : entries[e].report \in [positions -> CeilingVerdict]
      BY <3>1 DEF Recorded
    <3>3. entries[e].report[i] \in CeilingVerdict
      BY <3>2
    <3>4. QED BY <2>b, <3>3 DEF CeilingVerdict
  <2>4. PICK landed \in SUBSET (DOMAIN h) : landed = LandedWithLast(h, ceiling)
    BY DEF LandedWithLast
  <2>5. PICK priced \in SUBSET landed :
            priced = {j \in landed : LET cost == h[j].debit.cost
                                     IN  /\ cost # NONE
                                         /\ cost.currency = ceiling.money.currency
                                         /\ cost.components # AllUnreported}
    OBVIOUS
  <2>6. ASSUME NEW j \in landed \ priced PROVE NanosOf(h)[j] = 0
    <3>1. CASE h[j].debit.cost = NONE
      BY <2>4, <3>1 DEF NanosOf
    <3>2. CASE h[j].debit.cost # NONE
      <4>1. PICK k \in DOMAIN h[j].report : h[j].report[k].ceiling = ceiling
        BY <2>4, <2>c
      <4>2. window_for(ceiling, h[j].debit.run_id, h[j].debit.occurred_at)
                \in WindowsOf(h[j].debit)
        BY <2>2, <2>3, <2>4, LandedIsTouching
      <4>3. SeesSpend(h[j])
        BY <2>2, <2>4 DEF TellsInv, HistoryInv, LedgerInv
      <4>4. ceiling.money.currency = h[j].debit.cost.currency
        BY <2>b, <3>2, <4>1, <4>2, <4>3 DEF SeesSpend
      <4>5. h[j].debit.cost.components = AllUnreported
        BY <2>5, <2>6, <3>2, <4>4
      <4>6. \A class \in TokenClasses : OrZero(h[j].debit.cost.components[class]) = 0
        BY <4>5 DEF OrZero, AllUnreported
      <4>7. SumOfReported(h[j].debit.cost.components) = 0
        <5>1. {"input", "output", "cache_write", "cache_read"} \subseteq TokenClasses
          BY DEF TokenClasses
        <5>2. QED BY <4>6, <5>1 DEF SumOfReported
      <4>8. NanosOf(h)[j] = contribution_of(h[j].debit.usage, h[j].debit.cost).nanos
        BY <2>2, <2>4, EntryContributes
      <4>9. QED BY <3>2, <4>7, <4>8 DEF contribution_of
    <3>3. QED BY <3>1, <3>2
  <2>7. IsFiniteSet(landed) /\ \A j \in landed : NanosOf(h)[j] \in Nat
    BY <2>2, <2>4, EntriesAreCounted, FS_Subset
  <2>8. SumFunctionOnSet(NanosOf(h), landed) = SumFunctionOnSet(NanosOf(h), priced)
    BY <2>5, <2>6, <2>7, SumLeavesOut
  <2>9. entries[e].report[i].money_spent
            = IF priced = {} THEN NONE ELSE SumFunctionOnSet(NanosOf(h), priced)
    <3>1. Tells(entries[e].report[i], h)
      BY <2>a DEF TellsInv, VerdictsTellHistory
    <3>2. QED BY <2>4, <2>5, <2>b, <3>1 DEF Tells
  <2>10. QED
    <3>1. CASE priced = {}
      BY <2>4, <2>8, <2>9, <3>1, SumEmpty DEF NoneAsZero
    <3>2. CASE priced # {}
      <4>1. SumFunctionOnSet(NanosOf(h), landed) \in Nat
        BY <2>7, SumType
      <4>2. SumFunctionOnSet(NanosOf(h), landed) # NONE
        BY <4>1, NoneIsNoNumber
      <4>3. QED BY <2>4, <2>8, <2>9, <3>2, <4>2 DEF NoneAsZero
    <3>3. QED BY <3>1, <3>2
<1>2. QED BY <1>1, TellsInit, TellsStep, PTL DEF Spec

=============================================================================
