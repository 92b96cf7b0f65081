---------------------------- MODULE MCEntryReads ----------------------------
(***************************************************************************)
(* A small instance of EntryReads: a day of two ticks and offsets of a tick,*)
(* debits dated in three offsets or by the clock, and filters that combine  *)
(* run, tag and bound.  Two ids may be drawn in a tick, one in the last.   *)
(***************************************************************************)
EXTENDS EntryReads, TLC

CONSTANTS w1, w2, p1, r1, r2, t1, USD, MaxEntries

MCRuns == {r1, r2}
MCTags == {t1}
MCCurrencies == {USD}
MCInstants == {0, 1, 2}
MCOffsets == {-1, 0, 1}
MCUlids == (0 :> {0, 1}) @@ (1 :> {2, 3}) @@ (2 :> {4})
MCEntryNumbers == 1..MaxEntries

Classes(in, out, write, read) ==
    "input" :> in @@ "output" :> out @@ "cache_write" :> write @@ "cache_read" :> read
At(wall, offset) == [wall |-> wall, offset |-> offset]

ADebit(run_id, usage, cost, tags, at) ==
    [run_id |-> run_id, usage |-> usage, cost |-> cost, tags |-> tags, occurred_at |-> at]

Priced == [currency |-> USD, components |-> Classes(1, 0, 0, 0)]

MCDebits ==
    {ADebit(r1, Classes(1, 0, UNSUPPORTED, 0), Priced, {t1}, At(1, -1)),
     ADebit(r2, Classes(1, 1, 0, 0), NONE, {t1}, At(1, 1)),
     ADebit(r1, Classes(0, 0, 0, 0), Priced, {}, NONE)}

Ceiling(scope, money, tokens, tag, partial) ==
    [scope |-> scope, money |-> money, tokens |-> tokens, tag |-> tag,
     partial_pricing |-> partial]

MCVerdicts ==
    {<<verdict_over(Ceiling("per_run", [currency |-> USD, nanos |-> 0], NONE, NONE, "strict"),
                    EMPTY_BALANCE, contribution_of(Classes(1, 0, 0, 0), Priced)),
       verdict_over(Ceiling("per_tag", NONE, 0, t1, "floor"), EMPTY_BALANCE, NOTHING)>>}

MCFilters ==
    [run_id : {NONE, r1}, tag : {NONE, t1}, since : {NONE, At(1, -1), At(1, 1)}]

WriterSymmetry == Permutations(Writers)

=============================================================================
