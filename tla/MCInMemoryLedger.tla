-------------------------- MODULE MCInMemoryLedger --------------------------
(***************************************************************************)
(* A small instance of InMemoryLedger: two threads, three debits (priced    *)
(* and tagged, priced in part, and in a currency the ceiling refuses), and  *)
(* ceilings over the run and over a tag only one debit carries.             *)
(***************************************************************************)
EXTENDS InMemoryLedger, TLC

CONSTANTS th1, th2, r1, r2, t1, USD, EUR, MaxCalls

MCThreads == {th1, th2}
MCRuns == {r1, r2}
MCTags == {t1}
MCCurrencies == {USD, EUR}
MCInstants == {0, 1}
MCCallNumbers == 1..MaxCalls

Classes(in, out, write, read) ==
    "input" :> in @@ "output" :> out @@ "cache_write" :> write @@ "cache_read" :> read
Cost(currency, components) == [currency |-> currency, components |-> components]
ADebit(run_id, usage, cost, tags, at) ==
    [run_id |-> run_id, usage |-> usage, cost |-> cost, tags |-> tags, occurred_at |-> at]

MCDebits ==
    {ADebit(r1, Classes(1, 0, 0, 0), Cost(USD, Classes(1, 0, 0, 0)), {t1}, NONE),
     ADebit(r1, Classes(1, UNSUPPORTED, UNSUPPORTED, 0), Cost(USD, Classes(2, 0, UNSUPPORTED, 0)), {}, 0),
     ADebit(r2, Classes(1, 0, 0, 0), Cost(EUR, Classes(1, 0, 0, 0)), {t1}, 1)}

Ceiling(scope, money, tokens, tag, partial) ==
    [scope |-> scope, money |-> money, tokens |-> tokens, tag |-> tag,
     partial_pricing |-> partial]

MCCeilings ==
    <<Ceiling("per_day", NONE, 2, NONE, "floor"),
      Ceiling("per_tag", [currency |-> USD, nanos |-> 1], NONE, t1, "strict")>>

MCReads ==
    {[op |-> "would_exceed", run_id |-> r1, usage |-> NONE,
      cost |-> Cost(USD, Classes(1, 0, 0, 0)), tags |-> {t1}],
     [op |-> "remaining", run_id |-> r2],
     [op |-> "position"],
     [op |-> "balances", key |-> <<"per_run", r1>>],
     [op |-> "entries", run_id |-> r1, tag |-> NONE, since |-> NONE],
     [op |-> "entries", run_id |-> NONE, tag |-> t1, since |-> 1]}

\* A bound: once a debit has raised, no thread holds an answer or reads for one.  Reads
\* change nothing, so every book and list of entries is reached all the same.
ReadsStop == raised => \A t \in Threads : answer[t] = NONE

ThreadSymmetry == Permutations(Threads)

=============================================================================
