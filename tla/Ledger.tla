-------------------------------- MODULE Ledger --------------------------------
(***************************************************************************)
(* What a ledger promises (the Ledger protocol of core.py, spec.md section  *)
(* 11): every operation is one atomic step.  A debit moves the balance of   *)
(* every window it touches, makes its run known and appends one entry that  *)
(* carries the verdicts, or it is refused and changes nothing.              *)
(*                                                                          *)
(* InMemoryLedger and SqlLedger are shown to implement this module.         *)
(***************************************************************************)
EXTENDS History

CONSTANTS Debits,         \* the debits callers make
          CeilingSets,    \* the ceiling sequences a ledger is built with
          ReportsEvery,   \* TRUE: an entry's verdicts are exact for every ceiling;
                          \* FALSE: only for the ceilings over windows the debit touched
          HistoryLengths  \* lengths of history a debit may extend (Nat, or a bound for TLC)

ASSUME LedgerAssumption ==
    /\ Debits \subseteq Debit
    /\ CeilingSets \subseteq Seq(BudgetCeiling)
    /\ ReportsEvery \in BOOLEAN
    /\ HistoryLengths \subseteq Nat

VARIABLES book,     \* the balance of every window
          runs,     \* the runs the ledger knows
          entries   \* the recorded entries, oldest first

vars == <<book, runs, entries>>

-----------------------------------------------------------------------------
NewEntry(debit, vs) ==
    [debit |-> debit, unpriced |-> is_unpriced(debit.cost),
     report |-> report(vs, debit, ReportsEvery)]

Init ==
    /\ book = EmptyBook
    /\ runs = {}
    /\ entries = <<>>

DeclareRun(run_id) ==
    /\ runs' = runs \cup {run_id}
    /\ UNCHANGED <<book, entries>>

\* A debit the currency check refuses takes no step at all.
RecordDebit(debit, ceilings) ==
    /\ Len(entries) \in HistoryLengths
    /\ currency_compatible(ceilings, debit.cost, debit.run_id, debit.occurred_at, debit.tags)
    /\ book' = record(book, debit)
    /\ runs' = runs \cup {debit.run_id}
    /\ entries' = Append(entries,
                         NewEntry(debit, verdicts(ceilings, book', debit.run_id,
                                                  debit.occurred_at)))

\* What a caller is told before it spends: the verdicts with the spend added, in the
\* windows of the instant the clock reads; an instant of the caller's has no say.
would_exceed(ceilings, run_id, usage, cost, tags, now) ==
    prospective_verdicts(ceilings, book, run_id, now, usage, cost, tags)

Next ==
    \/ \E run_id \in Runs : DeclareRun(run_id)
    \/ \E d \in Debits, now \in Instants, ceilings \in CeilingSets :
            RecordDebit(resolved_debit(d, now), ceilings)

Spec == Init /\ [][Next]_vars

-----------------------------------------------------------------------------
(* Properties *)

EntryOK(entry) ==
    /\ entry.debit \in ResolvedDebit
    /\ entry.unpriced \in BOOLEAN
    /\ DOMAIN entry.report \subseteq Nat
    /\ \A i \in DOMAIN entry.report : entry.report[i] \in CeilingVerdict

(* Type invariant of the abstract ledger (core.py _ScopeBalance, types.py      *)
(* LedgerEntry): every stored value is one the constructors accept.            *)
TypeOK ==
    /\ book \in Book
    /\ runs \subseteq Runs
    /\ \A i \in DOMAIN entries : EntryOK(entries[i])

(* The running balances never drift from the entries (spec.md contract 1):     *)
(* tokens, money per currency and the three honesty counts of every window     *)
(* are what the recorded entries add up to, a currency is present exactly      *)
(* when something was priced in it, and a window exists exactly when a debit   *)
(* landed in it, so a read or a ceiling has created none.                      *)
BookIsEntries == AddsUp(book, entries)

(* What would_exceed says now foretells a debit made now, whatever instant the *)
(* debit states (core.py would_exceed "recorded now", memory.py 162): the      *)
(* currency refusal agrees, and so does every verdict but those of the day     *)
(* ceilings when the debit is dated to another UTC day, also for ceilings over *)
(* windows the debit does not touch.                                           *)
PreflightForetellsDebit ==
    \A d \in Debits, now \in Instants, ceilings \in CeilingSets :
        LET debit      == resolved_debit(d, now)
            told       == would_exceed(ceilings, d.run_id, d.usage, d.cost, d.tags, now)
            recorded   == verdicts(ceilings, record(book, debit), debit.run_id,
                                   debit.occurred_at)
            allowed(t) == currency_compatible(ceilings, d.cost, d.run_id, t, d.tags)
            SameDay    == utc_day_key(now) = utc_day_key(debit.occurred_at)
        IN  /\ allowed(now) <=> allowed(debit.occurred_at)
            /\ \A i \in DOMAIN ceilings :
                    /\ allowed(now)
                    /\ ceilings[i].scope = "per_day" => SameDay
                    => told[i] = recorded[i]

(* A strict ceiling that reports "not exceeded" vouches for a complete sum     *)
(* (types.py PartialPricing.STRICT, "the cap is never crossed" by an unknown): *)
(* every estimate that landed in its window totalled, and what those in its    *)
(* currency add up to is within the cap.                                       *)
StrictUnderIsComplete ==
    \A ceilings \in CeilingSets, run_id \in Runs, at \in Instants :
        \A i \in DOMAIN ceilings :
            LET ceiling == ceilings[i]
                key     == window_for(ceiling, run_id, at)
            IN  /\ ceiling.partial_pricing = "strict"
                /\ ~verdicts(ceilings, book, run_id, at)[i].exceeded
                => /\ UntotalledIn(entries, key) = {}
                   /\ SumFunctionOnSet(NanosOf(entries),
                                       PricedIn(entries, key, ceiling.money.currency))
                        <= ceiling.money.nanos

\* The entries of a history that are of one run, of one UTC day or under one tag with the
\* last, whichever the ceiling caps.
LandedWithLast(history, ceiling) ==
    LET last == history[Len(history)].debit
    IN  {j \in DOMAIN history :
            LET debit == history[j].debit
            IN  \/ ceiling.scope = "per_run" /\ debit.run_id = last.run_id
                \/ /\ ceiling.scope = "per_day"
                   /\ utc_day_key(debit.occurred_at) = utc_day_key(last.occurred_at)
                \/ ceiling.scope = "per_tag" /\ ceiling.tag \in debit.tags}

\* The numbers of a verdict, recomputed from a history.
Tells(verdict, history) ==
    LET ceiling    == verdict.ceiling
        landed     == LandedWithLast(history, ceiling)
        priced     == {j \in landed :
                        LET cost == history[j].debit.cost
                        IN  /\ cost # NONE
                            /\ cost.currency = ceiling.money.currency
                            /\ cost.components # AllUnreported}
        incomplete == {j \in landed : LET cost == history[j].debit.cost
                                      IN  cost # NONE /\ ~Totalled(cost)}
        tokens     == SumFunctionOnSet(TokensOf(history), landed)
        nanos      == SumFunctionOnSet(NanosOf(history), priced)
    IN  /\ verdict.tokens_spent = tokens
        /\ verdict.money_spent = IF ceiling.money = NONE \/ priced = {} THEN NONE ELSE nanos
        /\ verdict.untotalled_debit_count = Cardinality(incomplete)
        /\ verdict.exceeded <=>
                \/ ceiling.tokens # NONE /\ tokens > ceiling.tokens
                \/ ceiling.money # NONE /\ nanos > ceiling.money.nanos
                \/ ceiling.partial_pricing = "strict" /\ incomplete # {}

(* The verdicts an entry carries are those of the history it ends (types.py    *)
(* CeilingVerdict, LedgerEntry.verdicts): the tokens, the money, the count of  *)
(* estimates that do not total and "exceeded", strictly over a cap or strict   *)
(* and incomplete, are recomputed from the debits recorded up to this one,     *)
(* back-dated ones included, that share its run, its UTC day or the tag.       *)
VerdictsTellHistory ==
    \A e \in DOMAIN entries : \A i \in DOMAIN entries[e].report :
        Tells(entries[e].report[i], SubSeq(entries, 1, e))

(* A money cap that has been in force for every debit its window holds omits   *)
(* none of their money (core.py require_currency_compatible): the amount its   *)
(* verdict states is what all of them priced, in whatever currency, because    *)
(* none could be recorded in another one.                                      *)
CapInForceSeesAllSpend ==
    \A e \in DOMAIN entries : \A i \in DOMAIN entries[e].report :
        LET history == SubSeq(entries, 1, e)
            verdict == entries[e].report[i]
            landed  == LandedWithLast(history, verdict.ceiling)
            inForce == {j \in landed :
                            \E k \in DOMAIN history[j].report :
                                history[j].report[k].ceiling = verdict.ceiling}
        IN  verdict.ceiling.money # NONE /\ landed = inForce
            => NoneAsZero(verdict.money_spent) = SumFunctionOnSet(NanosOf(history), landed)

=============================================================================
