----------------------------- MODULE BalanceBook -----------------------------
(***************************************************************************)
(* The evaluation engine of LoadLedger (core.py and the value types of      *)
(* types.py): what one debit adds to the budget windows it touches, and     *)
(* the verdict a ceiling gives over a window.  InMemoryLedger and SqlLedger *)
(* both evaluate through it, so it is a module of operators, without        *)
(* variables.                                                               *)
(*                                                                          *)
(* A book maps every window to its balance, or to NONE for a window that    *)
(* nothing has landed in: the code keeps no balance there, and reading one  *)
(* must not create it.                                                      *)
(***************************************************************************)
EXTENDS Integers, Sequences

CONSTANTS Runs,          \* run identifiers
          Tags,          \* cost-centre tags
          Currencies,    \* currency codes
          Instants,      \* the instants the clock and callers name, in ticks
          TicksPerDay,   \* ticks in one UTC day
          NONE,          \* Python's None
          UNSUPPORTED    \* baseaicore.UNSUPPORTED: "not reported"

ASSUME DataAssumption ==
    /\ Instants \subseteq Nat
    /\ TicksPerDay \in Nat \ {0}
    /\ NONE \notin Instants \cup Currencies \cup Tags \cup Nat
    /\ UNSUPPORTED \notin Nat

-----------------------------------------------------------------------------
(* Values that cross the API *)

TokenClasses == {"input", "output", "cache_write", "cache_read"}

\* A count per token class; a cost component per token class.
TokenUsage == [TokenClasses -> Nat \cup {UNSUPPORTED}]
ASSUME NoneIsNoUsage == NONE \notin TokenUsage

AllUnreported == [class \in TokenClasses |-> UNSUPPORTED]

CostEstimate ==
    [currency : Currencies, components : [TokenClasses -> Nat \cup {UNSUPPORTED}]]

\* CostEstimate.total is supported exactly when every component is.
Totalled(cost) == \A class \in TokenClasses : cost.components[class] # UNSUPPORTED

CeilingScope == {"per_run", "per_day", "per_tag"}
PartialPricing == {"floor", "strict"}

\* The ceilings BudgetCeiling's validation accepts.
BudgetCeiling ==
    {c \in [scope : CeilingScope,
            money : [currency : Currencies, nanos : Nat] \cup {NONE},
            tokens : Nat \cup {NONE},
            tag : Tags \cup {NONE},
            partial_pricing : PartialPricing] :
        /\ c.money # NONE \/ c.tokens # NONE
        /\ (c.scope = "per_tag") <=> (c.tag # NONE)
        /\ c.partial_pricing = "strict" => c.money # NONE}

Debit == [run_id : Runs,
          usage : TokenUsage,
          cost : CostEstimate \cup {NONE},
          tags : SUBSET Tags,
          occurred_at : Instants \cup {NONE}]

ResolvedDebit == [run_id : Runs,
                  usage : TokenUsage,
                  cost : CostEstimate \cup {NONE},
                  tags : SUBSET Tags,
                  occurred_at : Instants]

resolved_debit(debit, now) ==
    IF debit.occurred_at # NONE THEN debit ELSE [debit EXCEPT !.occurred_at = now]

is_unpriced(cost) == cost = NONE \/ ~Totalled(cost)

-----------------------------------------------------------------------------
(* Windows *)

utc_day_key(at) == at \div TicksPerDay

ScopeKey == ({"per_run"} \X Runs)
            \cup ({"per_day"} \X {utc_day_key(at) : at \in Instants})
            \cup ({"per_tag"} \X Tags)

\* The windows a debit is written to, whatever ceilings are configured.
windows_touched(run_id, at, tags) ==
    {<<"per_run", run_id>>, <<"per_day", utc_day_key(at)>>}
    \cup {<<"per_tag", tag>> : tag \in tags}

WindowsOf(debit) == windows_touched(debit.run_id, debit.occurred_at, debit.tags)

\* The window one ceiling reads.
window_for(ceiling, run_id, at) ==
    CASE ceiling.scope = "per_run" -> <<"per_run", run_id>>
      [] ceiling.scope = "per_day" -> <<"per_day", utc_day_key(at)>>
      [] ceiling.scope = "per_tag" -> <<"per_tag", ceiling.tag>>

-----------------------------------------------------------------------------
(* What one debit adds to a balance *)

\* Mutant: UNSUPPORTED summed as a sentinel of -1.
OrZeroSentinel(n) == IF n = UNSUPPORTED THEN -1 ELSE n

OrZero(n) == IF n = UNSUPPORTED THEN 0 ELSE n

SumOfReported(f) ==
    OrZero(f["input"]) + OrZero(f["output"]) + OrZero(f["cache_write"]) + OrZero(f["cache_read"])

DebitContribution ==
    [tokens : Nat, currency : Currencies \cup {NONE}, nanos : Nat, priced : BOOLEAN,
     unpriced : BOOLEAN, untotalled : BOOLEAN, unmetered : BOOLEAN]

NOTHING == [tokens |-> 0, currency |-> NONE, nanos |-> 0, priced |-> FALSE,
            unpriced |-> FALSE, untotalled |-> FALSE, unmetered |-> FALSE]

contribution_of(usage, cost) ==
    [tokens     |-> SumOfReported(usage),
     currency   |-> IF cost = NONE THEN NONE ELSE cost.currency,
     nanos      |-> IF cost = NONE THEN 0 ELSE SumOfReported(cost.components),
     priced     |-> /\ cost # NONE
                    /\ \E class \in TokenClasses : cost.components[class] # UNSUPPORTED,
     unpriced   |-> cost = NONE \/ ~Totalled(cost),
     untotalled |-> cost # NONE /\ ~Totalled(cost),
     unmetered  |-> \E class \in TokenClasses : usage[class] = UNSUPPORTED]

-----------------------------------------------------------------------------
(* Balances.  A currency mapped to NONE has had nothing priced in it, which *)
(* reads differently from zero.                                             *)

ScopeBalance ==
    [tokens_spent : Nat,
     nanos_by_currency : [Currencies -> Nat \cup {NONE}],
     unpriced_debit_count : Nat,
     untotalled_debit_count : Nat,
     unmetered_debit_count : Nat]

ASSUME NoneIsNoBalance == NONE \notin ScopeBalance

EMPTY_BALANCE ==
    [tokens_spent |-> 0,
     nanos_by_currency |-> [currency \in Currencies |-> NONE],
     unpriced_debit_count |-> 0,
     untotalled_debit_count |-> 0,
     unmetered_debit_count |-> 0]

Book == [ScopeKey -> ScopeBalance \cup {NONE}]
EmptyBook == [key \in ScopeKey |-> NONE]

BalanceIn(book, key) == IF book[key] = NONE THEN EMPTY_BALANCE ELSE book[key]

NoneAsZero(n) == IF n = NONE THEN 0 ELSE n
Count(flag) == IF flag THEN 1 ELSE 0

\* Mutant: an estimate that priced nothing creates its currency.
AccumulateUnpriced(balance, delta) ==
    [tokens_spent |-> balance.tokens_spent + delta.tokens,
     nanos_by_currency |->
        [currency \in Currencies |->
            IF delta.currency = currency
            THEN NoneAsZero(balance.nanos_by_currency[currency]) + delta.nanos
            ELSE balance.nanos_by_currency[currency]],
     unpriced_debit_count |-> balance.unpriced_debit_count + Count(delta.unpriced),
     untotalled_debit_count |-> balance.untotalled_debit_count + Count(delta.untotalled),
     unmetered_debit_count |-> balance.unmetered_debit_count + Count(delta.unmetered)]

Accumulate(balance, delta) ==
    [tokens_spent |-> balance.tokens_spent + delta.tokens,
     nanos_by_currency |->
        [currency \in Currencies |->
            IF delta.priced /\ delta.currency = currency
            THEN NoneAsZero(balance.nanos_by_currency[currency]) + delta.nanos
            ELSE balance.nanos_by_currency[currency]],
     unpriced_debit_count |-> balance.unpriced_debit_count + Count(delta.unpriced),
     untotalled_debit_count |-> balance.untotalled_debit_count + Count(delta.untotalled),
     unmetered_debit_count |-> balance.unmetered_debit_count + Count(delta.unmetered)]

\* Mutant: the balance is replaced instead of advanced.
record_replacing(book, debit) ==
    [key \in ScopeKey |->
        IF key \in WindowsOf(debit)
        THEN Accumulate(EMPTY_BALANCE, contribution_of(debit.usage, debit.cost))
        ELSE book[key]]

record(book, debit) ==
    [key \in ScopeKey |->
        IF key \in WindowsOf(debit)
        THEN Accumulate(BalanceIn(book, key), contribution_of(debit.usage, debit.cost))
        ELSE book[key]]

-----------------------------------------------------------------------------
(* Verdicts *)

\* Mutant: only the run's own ceilings are checked.
currency_compatible_per_run(ceilings, cost, run_id, at, tags) ==
    cost # NONE =>
        \A i \in DOMAIN ceilings :
            ceilings[i].money # NONE /\ ceilings[i].scope = "per_run"
            => ceilings[i].money.currency = cost.currency

\* No money ceiling over a window the debit touches is in another currency.
currency_compatible(ceilings, cost, run_id, at, tags) ==
    cost # NONE =>
        \A i \in DOMAIN ceilings :
            /\ ceilings[i].money # NONE
            /\ window_for(ceilings[i], run_id, at) \in windows_touched(run_id, at, tags)
            => ceilings[i].money.currency = cost.currency

CeilingVerdict ==
    [ceiling : BudgetCeiling, exceeded : BOOLEAN,
     money_spent : Nat \cup {NONE}, money_remaining : Int \cup {NONE},
     tokens_spent : Nat, tokens_remaining : Int \cup {NONE},
     unpriced_debit_count : Nat, untotalled_debit_count : Nat, unmetered_debit_count : Nat]

MoneyWith(ceiling, balance, delta) ==
    IF ceiling.money = NONE THEN NONE
    ELSE LET nanos == balance.nanos_by_currency[ceiling.money.currency]
         IN  IF delta.priced /\ delta.currency = ceiling.money.currency
             THEN NoneAsZero(nanos) + delta.nanos
             ELSE nanos

\* Mutant: spending exactly the cap counts as exceeding it.
OverMoneyAtCap(ceiling, spent) ==
    ceiling.money # NONE /\ spent # NONE /\ spent >= ceiling.money.nanos

OverMoney(ceiling, spent) ==
    ceiling.money # NONE /\ spent # NONE /\ spent > ceiling.money.nanos

OverTokens(ceiling, spent) == ceiling.tokens # NONE /\ spent > ceiling.tokens

\* Mutant: a strict ceiling forgives the first estimate that does not total.
StrictlyUnknownButOnce(ceiling, untotalled) ==
    ceiling.money # NONE /\ ceiling.partial_pricing = "strict" /\ untotalled > 1

\* A strict ceiling is exceeded while an estimate in its window does not total.
StrictlyUnknown(ceiling, untotalled) ==
    ceiling.money # NONE /\ ceiling.partial_pricing = "strict" /\ untotalled > 0

verdict_over(ceiling, balance, delta) ==
    LET spent      == MoneyWith(ceiling, balance, delta)
        tokens     == balance.tokens_spent + delta.tokens
        untotalled == balance.untotalled_debit_count + Count(delta.untotalled)
    IN  [ceiling |-> ceiling,
         exceeded |-> \/ OverTokens(ceiling, tokens)
                      \/ OverMoney(ceiling, spent)
                      \/ StrictlyUnknown(ceiling, untotalled),
         money_spent |-> spent,
         money_remaining |-> IF ceiling.money = NONE THEN NONE
                             ELSE ceiling.money.nanos - NoneAsZero(spent),
         tokens_spent |-> tokens,
         tokens_remaining |-> IF ceiling.tokens = NONE THEN NONE ELSE ceiling.tokens - tokens,
         unpriced_debit_count |-> balance.unpriced_debit_count + Count(delta.unpriced),
         untotalled_debit_count |-> untotalled,
         unmetered_debit_count |-> balance.unmetered_debit_count + Count(delta.unmetered)]

\* One verdict per ceiling, as the balances stand.
verdicts(ceilings, book, run_id, at) ==
    [i \in DOMAIN ceilings |->
        verdict_over(ceilings[i], BalanceIn(book, window_for(ceilings[i], run_id, at)), NOTHING)]

\* Mutant: a call that states no cost, or no usage, is taken to ask about nothing.
prospective_verdicts_if_both(ceilings, book, run_id, at, usage, cost, tags) ==
    IF usage = NONE \/ cost = NONE THEN verdicts(ceilings, book, run_id, at)
    ELSE [i \in DOMAIN ceilings |->
            LET key == window_for(ceilings[i], run_id, at)
            IN  verdict_over(ceilings[i], BalanceIn(book, key),
                             IF key \in windows_touched(run_id, at, tags)
                             THEN contribution_of(usage, cost) ELSE NOTHING)]

\* Mutant: the prospective spend is left out.
prospective_verdicts_as_is(ceilings, book, run_id, at, usage, cost, tags) ==
    verdicts(ceilings, book, run_id, at)

\* The same with a debit not yet recorded; usage or cost may be NONE, but a call
\* with both NONE asks about nothing and is answered by "verdicts".
prospective_verdicts(ceilings, book, run_id, at, usage, cost, tags) ==
    IF usage = NONE /\ cost = NONE THEN verdicts(ceilings, book, run_id, at)
    ELSE LET delta == contribution_of(IF usage = NONE THEN AllUnreported ELSE usage, cost)
         IN  [i \in DOMAIN ceilings |->
                LET key == window_for(ceilings[i], run_id, at)
                IN  verdict_over(ceilings[i], BalanceIn(book, key),
                                 IF key \in windows_touched(run_id, at, tags)
                                 THEN delta ELSE NOTHING)]

\* The positions of vs that hold a verdict over a window the debit touched, or all.
answered(vs, debit, every) ==
    {i \in DOMAIN vs :
        \/ every
        \/ window_for(vs[i].ceiling, debit.run_id, debit.occurred_at) \in WindowsOf(debit)}

\* What an entry is held to: its verdicts at those positions.
report(vs, debit, every) == [i \in answered(vs, debit, every) |-> vs[i]]

=============================================================================
