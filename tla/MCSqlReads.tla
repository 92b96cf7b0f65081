------------------------------ MODULE MCSqlReads ------------------------------
(***************************************************************************)
(* A small instance of SqlReads: one reader against three debits of one run *)
(* and day, fully priced, priced in part and unpriced.                      *)
(***************************************************************************)
EXTENDS SqlReads, TLC

CONSTANTS rd, r1, r2, t1, USD, MaxEntries

MCReaders == {rd}
MCRuns == {r1, r2}
MCTags == {t1}
MCCurrencies == {USD}
MCInstants == {0}
MCLengths == 0..(MaxEntries - 1)

Classes(in, out, write, read) ==
    "input" :> in @@ "output" :> out @@ "cache_write" :> write @@ "cache_read" :> read
Cost(components) == [currency |-> USD, components |-> components]
ADebit(run_id, usage, cost, tags) ==
    [run_id |-> run_id, usage |-> usage, cost |-> cost, tags |-> tags, occurred_at |-> 0]

Metered == Classes(1, 0, 0, 0)
Unmetered == Classes(1, UNSUPPORTED, UNSUPPORTED, 0)
FullPrice == Cost(Classes(2, 0, 0, 0))
PartPrice == Cost(Classes(1, UNSUPPORTED, UNSUPPORTED, 0))

MCDebits ==
    {ADebit(r1, Metered, FullPrice, {t1}),
     ADebit(r1, Unmetered, PartPrice, {t1}),
     ADebit(r1, Metered, NONE, {})}

MCProspects ==
    {[usage |-> Metered, cost |-> FullPrice, tags |-> {t1}],
     [usage |-> NONE, cost |-> PartPrice, tags |-> {}]}

Ceiling(scope, money, tokens, tag, partial) ==
    [scope |-> scope, money |-> money, tokens |-> tokens, tag |-> tag,
     partial_pricing |-> partial]
Dollars(n) == [currency |-> USD, nanos |-> n]

MCCeilingSets ==
    {<<Ceiling("per_run", Dollars(3), NONE, NONE, "strict"),
       Ceiling("per_tag", Dollars(2), 2, t1, "floor")>>,
     <<Ceiling("per_day", NONE, 2, NONE, "floor"),
       Ceiling("per_tag", Dollars(3), NONE, t1, "strict")>>}

=============================================================================
