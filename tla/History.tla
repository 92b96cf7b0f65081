------------------------------- MODULE History -------------------------------
(***************************************************************************)
(* What the balances ought to be: every window recomputed from a history of *)
(* entries, oldest first, without the running sums of BalanceBook.  The     *)
(* ledgers are held to these definitions; an entry is any record with the   *)
(* debit it was made for and the flag it was stored with.                   *)
(***************************************************************************)
EXTENDS BalanceBook, FiniteSets, Functions

Touching(history, key) == {i \in DOMAIN history : key \in WindowsOf(history[i].debit)}

\* A count per token class, the unreported ones left out of the sum.
Reported(f) ==
    SumFunctionOnSet([class \in TokenClasses |->
                        IF f[class] = UNSUPPORTED THEN 0 ELSE f[class]], TokenClasses)

TokensOf(history) == [i \in DOMAIN history |-> Reported(history[i].debit.usage)]

NanosOf(history) ==
    [i \in DOMAIN history |->
        LET cost == history[i].debit.cost
        IN  IF cost = NONE THEN 0 ELSE Reported(cost.components)]

\* The debits that landed in a window and priced something in a currency, those without
\* a complete price, those whose estimate does not total, those not fully metered.
PricedIn(history, key, currency) ==
    {i \in Touching(history, key) :
        LET cost == history[i].debit.cost
        IN  /\ cost # NONE
            /\ cost.currency = currency
            /\ \E class \in TokenClasses : cost.components[class] # UNSUPPORTED}

UnpricedIn(history, key) == {i \in Touching(history, key) : history[i].unpriced}

UntotalledIn(history, key) ==
    {i \in Touching(history, key) :
        LET cost == history[i].debit.cost IN cost # NONE /\ ~Totalled(cost)}

UnmeteredIn(history, key) ==
    {i \in Touching(history, key) :
        \E class \in TokenClasses : history[i].debit.usage[class] = UNSUPPORTED}

ReferenceBalance(history, key) ==
    [tokens_spent |-> SumFunctionOnSet(TokensOf(history), Touching(history, key)),
     nanos_by_currency |->
        [currency \in Currencies |->
            LET priced == PricedIn(history, key, currency)
            IN  IF priced = {} THEN NONE ELSE SumFunctionOnSet(NanosOf(history), priced)],
     unpriced_debit_count |-> Cardinality(UnpricedIn(history, key)),
     untotalled_debit_count |-> Cardinality(UntotalledIn(history, key)),
     unmetered_debit_count |-> Cardinality(UnmeteredIn(history, key))]

\* A window exists exactly when a debit landed in it.
AddsUp(book, history) ==
    \A key \in ScopeKey :
        book[key] = IF Touching(history, key) = {} THEN NONE
                    ELSE ReferenceBalance(history, key)

\* The books after the first entries of a history, one debit at a time.
BookAfter(history) ==
    LET after[k \in 0..Len(history)] ==
            IF k = 0 THEN EmptyBook ELSE record(after[k - 1], history[k].debit)
    IN  after

=============================================================================
