------------------------------ MODULE Approvals ------------------------------
(***************************************************************************)
(* Callers that ask before they spend (sql.py class docstring, "what this   *)
(* does not promise"): each asks would_exceed, goes ahead when no ceiling   *)
(* says "exceeded", and debits once the call is made, possibly on a later   *)
(* day.  Callers may share a gate that serialises their approvals.          *)
(*                                                                          *)
(* The ledger is module Ledger.  A caller spends what it asked about and    *)
(* leaves occurred_at to the ledger's clock, which never goes back.  One    *)
(* that loses the outcome of a commit retries: a debit carries no key by    *)
(* which the ledger could tell the retry from another debit.                *)
(***************************************************************************)
EXTENDS Ledger, FiniteSetsExt

CONSTANTS Callers,      \* callers that ask and then debit
          Ceilings,     \* the ceilings they ask about
          Losses        \* how many commit outcomes may get lost

ASSUME ApprovalsAssumption ==
    /\ \A d \in Debits : d.occurred_at = NONE
    /\ Ceilings \in CeilingSets
    /\ Losses \subseteq Nat
    /\ IsFiniteSet(Callers) /\ Callers # {}
    /\ NONE \notin Callers
    /\ NONE \notin Debits

VARIABLES serialised,   \* TRUE: an approval is held to the end of its debit (never changes)
          now,          \* the clock
          plan,         \* the debit each caller has been approved for, or NONE
          gate,         \* the caller that holds the gate, or NONE
          lost          \* how many commit outcomes got lost

approval_vars == <<vars, serialised, now, plan, gate, lost>>

-----------------------------------------------------------------------------
ApprovalsInit ==
    /\ Init
    /\ serialised \in BOOLEAN
    /\ now \in Instants
    /\ plan = [c \in Callers |-> NONE]
    /\ gate = NONE
    /\ lost = 0

Tick ==
    /\ \E t \in Instants : t > now /\ now' = t
    /\ UNCHANGED <<vars, serialised, plan, gate, lost>>

Declare ==
    /\ \E run_id \in Runs : DeclareRun(run_id)
    /\ UNCHANGED <<serialised, now, plan, gate, lost>>

\* would_exceed: UnknownRun, CurrencyMismatch, or the verdicts with the debit added.
WouldFit(d) ==
    /\ d.run_id \in runs
    /\ currency_compatible(Ceilings, d.cost, d.run_id, now, d.tags)
    /\ \A i \in DOMAIN Ceilings :
            ~prospective_verdicts(Ceilings, book, d.run_id, now,
                                  d.usage, d.cost, d.tags)[i].exceeded

\* A caller that is refused changes nothing and takes no step.
Approve(c) ==
    /\ plan[c] = NONE
    /\ serialised => gate = NONE
    /\ gate' = IF serialised THEN c ELSE NONE
    /\ \E d \in Debits : WouldFit(d) /\ plan' = [plan EXCEPT ![c] = d]
    /\ UNCHANGED <<vars, serialised, now, lost>>

Finish(c) ==
    /\ plan' = [plan EXCEPT ![c] = NONE]
    /\ gate' = NONE

Spend(c) ==
    /\ plan[c] # NONE
    /\ RecordDebit(resolved_debit(plan[c], now), Ceilings)
    /\ Finish(c)
    /\ UNCHANGED <<serialised, now, lost>>

\* The commit succeeds and its caller does not learn it: it will debit again.
SpendUnnoticed(c) ==
    /\ plan[c] # NONE
    /\ lost + 1 \in Losses
    /\ RecordDebit(resolved_debit(plan[c], now), Ceilings)
    /\ lost' = lost + 1
    /\ UNCHANGED <<serialised, now, plan, gate>>

\* The call fails, or its caller dies, before it is debited.
Abandon(c) ==
    /\ plan[c] # NONE
    /\ Finish(c)
    /\ UNCHANGED <<vars, serialised, now, lost>>

ApprovalsNext ==
    \/ Tick
    \/ Declare
    \/ \E c \in Callers : Approve(c) \/ Spend(c) \/ SpendUnnoticed(c) \/ Abandon(c)

ApprovalsSpec == ApprovalsInit /\ [][ApprovalsNext]_approval_vars

-----------------------------------------------------------------------------
(* Properties *)

(* A caller that must not cross a cap serialises its approvals (sql.py class   *)
(* docstring): then no ceiling is ever exceeded in any run, day or tag, also   *)
(* when midnight falls between the approval and the debit and it lands in a    *)
(* day that nobody asked about.                                                *)
CapsHold ==
    serialised /\ lost = 0 =>
        \A run_id \in Runs, at \in Instants :
            \A i \in DOMAIN Ceilings : ~verdicts(Ceilings, book, run_id, at)[i].exceeded

\* Debits that may land without the approval of another having seen them.
Unseen == (IF serialised THEN 0 ELSE Cardinality(Callers) - 1) + lost

\* No debit adds more than some amount, as no column holds more.
TokensOfDebits == {SumOfReported(d.usage) : d \in Debits}
NanosOfDebits == {contribution_of(d.usage, d.cost).nanos : d \in Debits}
ASSUME AmountsAreBounded == IsFiniteSet(TokensOfDebits) /\ IsFiniteSet(NanosOfDebits)

MostTokens == Max({0} \cup TokensOfDebits)
MostNanos == Max({0} \cup NanosOfDebits)

(* Without a gate a cap is crossed by at most the debits in flight (sql.py     *)
(* class docstring, "by at most the concurrent in-flight debits"), one for     *)
(* each other caller, and by one more for each retry of a commit that had      *)
(* succeeded, in tokens and money; and a strict ceiling needs no gate to keep   *)
(* estimates that do not total out of its window ("uses STRICT for the pricing *)
(* half of the same problem").                                                 *)
OvershootBounded ==
    \A run_id \in Runs, at \in Instants :
        \A i \in DOMAIN Ceilings :
            LET ceiling == Ceilings[i]
                balance == BalanceIn(book, window_for(ceiling, run_id, at))
            IN  /\ ceiling.tokens # NONE =>
                        balance.tokens_spent <= ceiling.tokens + Unseen * MostTokens
                /\ ceiling.money # NONE =>
                        NoneAsZero(balance.nanos_by_currency[ceiling.money.currency])
                            <= ceiling.money.nanos + Unseen * MostNanos
                /\ ceiling.partial_pricing = "strict" =>
                        balance.untotalled_debit_count = 0

=============================================================================
