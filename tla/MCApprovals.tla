----------------------------- MODULE MCApprovals -----------------------------
(***************************************************************************)
(* A small instance of Approvals: three callers, with a gate or without,    *)
(* two days, debits that fill a cap in two or three steps, one without a    *)
(* price and one with an estimate that does not total, and commits whose    *)
(* outcome is lost.                                                         *)
(***************************************************************************)
EXTENDS Approvals, TLC

CONSTANTS r1, r2, t1, c1, c2, c3, USD, MaxEntries, MaxLost

MCRuns == {r1, r2}
MCTags == {t1}
MCCurrencies == {USD}
MCInstants == {0, 1}
MCLengths == 0..(MaxEntries - 1)
MCLosses == 1..MaxLost
CallerSymmetry == Permutations(Callers)

Classes(in, out, write, read) ==
    "input" :> in @@ "output" :> out @@ "cache_write" :> write @@ "cache_read" :> read

ADebit(run_id, usage, components, tags) ==
    [run_id |-> run_id, usage |-> usage,
     cost |-> [currency |-> USD, components |-> components],
     tags |-> tags, occurred_at |-> NONE]

Small(run_id) == ADebit(run_id, Classes(1, 0, 0, 0), Classes(1, 0, 0, 0), {t1})
Large(run_id) == ADebit(run_id, Classes(1, 1, 0, 0), Classes(1, 1, 0, 0), {})
InPart(run_id) == ADebit(run_id, Classes(1, 0, 0, 0), Classes(1, UNSUPPORTED, 0, 0), {t1})
Unpriced(run_id) == [Small(run_id) EXCEPT !.cost = NONE, !.tags = {}]

MCDebits == {Small(r1), Small(r2), Large(r1), InPart(r2), Unpriced(r1)}

Ceiling(scope, money, tokens, tag, partial) ==
    [scope |-> scope, money |-> money, tokens |-> tokens, tag |-> tag,
     partial_pricing |-> partial]
Dollars(n) == [currency |-> USD, nanos |-> n]

MCCeilings ==
    <<Ceiling("per_run", NONE, 3, NONE, "floor"),
      Ceiling("per_day", Dollars(3), NONE, NONE, "floor"),
      Ceiling("per_tag", Dollars(1), NONE, t1, "strict")>>

MCCeilingSets == {MCCeilings}

=============================================================================
