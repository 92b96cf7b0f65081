------------------------------- MODULE MCLedger -------------------------------
(***************************************************************************)
(* A small instance of Ledger: two runs, two days, one tag, two currencies, *)
(* and debits that are fully priced, partly priced, unpriced, in another    *)
(* currency, and back-dated.                                                *)
(***************************************************************************)
EXTENDS Ledger, TLC

CONSTANTS r1, r2, t1, USD, EUR, MaxEntries

MCRuns == {r1, r2}
MCTags == {t1}
MCCurrencies == {USD, EUR}
MCInstants == {0, 1}
MCLengths == 0..(MaxEntries - 1)

Classes(in, out, write, read) ==
    "input" :> in @@ "output" :> out @@ "cache_write" :> write @@ "cache_read" :> read

Metered == Classes(1, 1, 0, 0)
Unmetered == Classes(1, UNSUPPORTED, UNSUPPORTED, UNSUPPORTED)
Cost(currency, components) == [currency |-> currency, components |-> components]

ADebit(run_id, usage, cost, tags, at) ==
    [run_id |-> run_id, usage |-> usage, cost |-> cost, tags |-> tags, occurred_at |-> at]

MCDebits ==
    {ADebit(r1, Metered, Cost(USD, Classes(1, 1, 0, 0)), {t1}, NONE),
     ADebit(r1, Unmetered, Cost(USD, Classes(1, 2, UNSUPPORTED, UNSUPPORTED)), {t1}, 0),
     ADebit(r2, Metered, NONE, {}, NONE),
     ADebit(r2, Unmetered, Cost(EUR, AllUnreported), {t1}, 1),
     ADebit(r1, Metered, Cost(EUR, Classes(0, 0, 0, 0)), {}, 1)}

Ceiling(scope, money, tokens, tag, partial) ==
    [scope |-> scope, money |-> money, tokens |-> tokens, tag |-> tag,
     partial_pricing |-> partial]
Dollars(n) == [currency |-> USD, nanos |-> n]

MCCeilingSets ==
    {<<>>,
     <<Ceiling("per_run", Dollars(3), 4, NONE, "floor"),
       Ceiling("per_tag", Dollars(4), NONE, t1, "strict")>>,
     <<Ceiling("per_day", [currency |-> EUR, nanos |-> 0], NONE, NONE, "strict"),
       Ceiling("per_day", NONE, 3, NONE, "floor")>>}

=============================================================================
