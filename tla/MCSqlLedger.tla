----------------------------- MODULE MCSqlLedger -----------------------------
(***************************************************************************)
(* A small instance of SqlLedger: two sessions, two runs, two days, two     *)
(* tags; debits that share windows in different sets, one of them priced in *)
(* part, and ceilings over windows only one of them touches.                *)
(***************************************************************************)
EXTENDS SqlLedger, TLC

CONSTANTS s1, s2, r1, r2, t1, t2, USD, MaxEntries

MCSessions == {s1, s2}
MCRuns == {r1, r2}
MCDeclared == {r1}
MCTags == {t1, t2}
MCCurrencies == {USD}
MCInstants == {0, 1}
MCEntryIds == 1..MaxEntries

\* sorted() over (scope, window_key): "per_day" < "per_run" < "per_tag".
MCWindowOrder ==
    <<"per_day", 0>> :> 1 @@ <<"per_day", 1>> :> 2
    @@ <<"per_run", r1>> :> 3 @@ <<"per_run", r2>> :> 4
    @@ <<"per_tag", t1>> :> 5 @@ <<"per_tag", t2>> :> 6

Classes(in, out, write, read) ==
    "input" :> in @@ "output" :> out @@ "cache_write" :> write @@ "cache_read" :> read
Cost(components) == [currency |-> USD, components |-> components]

ADebit(run_id, usage, cost, tags, at) ==
    [run_id |-> run_id, usage |-> usage, cost |-> cost, tags |-> tags, occurred_at |-> at]

Priced(run_id, tags, at) ==
    ADebit(run_id, Classes(1, 0, 0, 0), Cost(Classes(1, 0, 0, 0)), tags, at)
PartlyPriced(run_id, tags, at) ==
    ADebit(run_id, Classes(1, UNSUPPORTED, UNSUPPORTED, 0), Cost(Classes(2, 0, UNSUPPORTED, 0)), tags, at)
Unpriced(run_id, tags, at) == ADebit(run_id, Classes(1, 0, 0, 0), NONE, tags, at)

\* Debits of one UTC day queue on its per_day row; only debits of different days
\* overlap further, so the instance mixes two days.
MCDebits == {Priced(r1, {t1, t2}, 0), PartlyPriced(r2, {t1}, 1), Unpriced(r1, {}, NONE)}
\* Two debits that share no window; a ceiling of the second reads a tag of the first.
MCTwoDebits == {Priced(r1, {t1}, 0), Unpriced(r2, {}, 1)}

Ceiling(scope, money, tokens, tag, partial) ==
    [scope |-> scope, money |-> money, tokens |-> tokens, tag |-> tag,
     partial_pricing |-> partial]
Dollars(n) == [currency |-> USD, nanos |-> n]

MCCeilingSets ==
    {<<Ceiling("per_run", Dollars(2), NONE, NONE, "strict"),
       Ceiling("per_tag", Dollars(1), 1, t1, "floor")>>}

SessionSymmetry == Permutations(Sessions)

=============================================================================
