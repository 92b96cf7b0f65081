-------------------------- MODULE MCHostTransaction --------------------------
(***************************************************************************)
(* Two hosts, each joining one or two debits to its transaction: debits of  *)
(* one day over a run already declared, which queue on the day's row, and   *)
(* debits of another day or of a new run, which do not.                     *)
(***************************************************************************)
EXTENDS HostTransaction, TLC

CONSTANTS s1, s2, r1, r2, t1, USD, MaxEntries

MCRuns == {r1, r2}
MCTags == {t1}
MCCurrencies == {USD}
MCInstants == {0, 1}
MCEntryIds == 1..MaxEntries
NoRunKnown == {}
MCKnownRuns == {r1}

MCWindowOrder ==
    <<"per_day", 0>> :> 1 @@ <<"per_day", 1>> :> 2
    @@ <<"per_run", r1>> :> 3 @@ <<"per_run", r2>> :> 4 @@ <<"per_tag", t1>> :> 5

Classes(in, out, write, read) ==
    "input" :> in @@ "output" :> out @@ "cache_write" :> write @@ "cache_read" :> read

ADebit(run_id, usage, tags, at) ==
    [run_id |-> run_id, usage |-> usage,
     cost |-> [currency |-> USD, components |-> Classes(1, 0, 0, 0)],
     tags |-> tags, occurred_at |-> at]

Priced(run_id, tags, at) == ADebit(run_id, Classes(1, 0, 0, 0), tags, at)
Unmetered(run_id, tags, at) == ADebit(run_id, Classes(0, UNSUPPORTED, 0, 0), tags, at)

MCDebits == {Priced(r1, {t1}, 0), Priced(r1, {}, 1), Unmetered(r2, {t1}, 0)}

MCCeilingSets ==
    {<<[scope |-> "per_run", money |-> [currency |-> USD, nanos |-> 1], tokens |-> NONE,
        tag |-> NONE, partial_pricing |-> "floor"],
       [scope |-> "per_tag", money |-> NONE, tokens |-> 1, tag |-> t1,
        partial_pricing |-> "floor"]>>}

=============================================================================
