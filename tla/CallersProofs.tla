---------------------------- MODULE CallersProofs ----------------------------
(***************************************************************************)
(* Theorems about those who use the ledger without its locks: the readers   *)
(* of SqlReads and the callers of Approvals, for any number of them and any *)
(* debits, ceilings and lengths of day.                                     *)
(*                                                                          *)
(* About readers the argument is that a ledger only grows: spend never goes *)
(* down, so what "exceeded" says of a book, it says of every later one.     *)
(* About callers it is what their gate, or the number of them in flight,    *)
(* leaves between an approval and its debit.                                *)
(***************************************************************************)
EXTENDS SqlReads, Approvals, LedgerProofs

-----------------------------------------------------------------------------
(* Growing balances and books *)

MoneyLeq(m, n) == m # NONE => n # NONE /\ m <= n

BalanceLeq(a, b) ==
    /\ a.tokens_spent <= b.tokens_spent
    /\ a.untotalled_debit_count <= b.untotalled_debit_count
    /\ \A currency \in Currencies :
            MoneyLeq(a.nanos_by_currency[currency], b.nanos_by_currency[currency])

BookLeq(a, b) == \A key \in ScopeKey : BalanceLeq(BalanceIn(a, key), BalanceIn(b, key))

(* What a book holds for a window is a balance.                                 *)
LEMMA BalanceInType ==
    ASSUME NEW b \in Book, NEW key \in ScopeKey
    PROVE  BalanceIn(b, key) \in ScopeBalance
BY EmptyBalanceType DEF BalanceIn, Book

(* Balances of a type are ordered.                                              *)
LEMMA BalanceLeqOrder ==
    /\ \A a \in ScopeBalance : BalanceLeq(a, a)
    /\ \A a, b, c \in ScopeBalance : BalanceLeq(a, b) /\ BalanceLeq(b, c) => BalanceLeq(a, c)
<1>1. \A m, n, k \in Nat \cup {NONE} :
        /\ MoneyLeq(m, m)
        /\ MoneyLeq(m, n) /\ MoneyLeq(n, k) => MoneyLeq(m, k)
  BY NoneIsNoNumber DEF MoneyLeq
<1>2. \A a \in ScopeBalance, currency \in Currencies :
        a.nanos_by_currency[currency] \in Nat \cup {NONE}
  BY DEF ScopeBalance
<1>3. \A a \in ScopeBalance : a.tokens_spent \in Nat /\ a.untotalled_debit_count \in Nat
  BY DEF ScopeBalance
<1>4. ASSUME NEW a \in ScopeBalance PROVE BalanceLeq(a, a)
  <2>1. ASSUME NEW currency \in Currencies
        PROVE  MoneyLeq(a.nanos_by_currency[currency], a.nanos_by_currency[currency])
    BY <1>1, <1>2
  <2>2. QED BY <1>3, <2>1 DEF BalanceLeq
<1>5. ASSUME NEW a \in ScopeBalance, NEW b \in ScopeBalance, NEW c \in ScopeBalance,
             BalanceLeq(a, b), BalanceLeq(b, c)
      PROVE  BalanceLeq(a, c)
  <2>1. a.tokens_spent <= c.tokens_spent /\ a.untotalled_debit_count <= c.untotalled_debit_count
    BY <1>3, <1>5 DEF BalanceLeq
  <2>2. ASSUME NEW currency \in Currencies
        PROVE  MoneyLeq(a.nanos_by_currency[currency], c.nanos_by_currency[currency])
    BY <1>1, <1>2, <1>5 DEF BalanceLeq
  <2>3. QED BY <2>1, <2>2 DEF BalanceLeq
<1>6. QED BY <1>4, <1>5

(* Accumulating a contribution never takes anything away (core.py record).      *)
LEMMA AccumulateGrows ==
    ASSUME NEW b \in ScopeBalance, NEW delta \in DebitContribution
    PROVE  BalanceLeq(b, Accumulate(b, delta))
<1>1. /\ b.tokens_spent \in Nat /\ delta.tokens \in Nat /\ delta.nanos \in Nat
      /\ b.untotalled_debit_count \in Nat
      /\ Count(delta.untotalled) \in Nat
      /\ \A currency \in Currencies : b.nanos_by_currency[currency] \in Nat \cup {NONE}
  BY DEF ScopeBalance, DebitContribution, Count
<1>2. ASSUME NEW currency \in Currencies
      PROVE  MoneyLeq(b.nanos_by_currency[currency],
                      Accumulate(b, delta).nanos_by_currency[currency])
  <2>1. Accumulate(b, delta).nanos_by_currency[currency]
        = IF delta.priced /\ delta.currency = currency
          THEN NoneAsZero(b.nanos_by_currency[currency]) + delta.nanos
          ELSE b.nanos_by_currency[currency]
    BY DEF Accumulate
  <2>2. QED BY <1>1, <2>1, NoneIsNoNumber DEF MoneyLeq, NoneAsZero
<1>3. /\ b.tokens_spent <= Accumulate(b, delta).tokens_spent
      /\ b.untotalled_debit_count <= Accumulate(b, delta).untotalled_debit_count
  BY <1>1 DEF Accumulate
<1>4. QED BY <1>2, <1>3 DEF BalanceLeq

(* A debit makes no window smaller.                                             *)
LEMMA RecordGrows ==
    ASSUME NEW b \in Book, NEW debit \in ResolvedDebit
    PROVE  BookLeq(b, record(b, debit))
<1> DEFINE delta == contribution_of(debit.usage, debit.cost)
<1>1. delta \in DebitContribution
  BY ContributionType DEF ResolvedDebit
<1> HIDE DEF delta
<1>2. ASSUME NEW key \in ScopeKey
      PROVE  BalanceLeq(BalanceIn(b, key), BalanceIn(record(b, debit), key))
  <2>1. BalanceIn(b, key) \in ScopeBalance
    BY BalanceInType
  <2>2. CASE key \in WindowsOf(debit)
    <3>1. record(b, debit)[key] = Accumulate(BalanceIn(b, key), delta)
      BY <2>2 DEF record, delta
    <3>2. Accumulate(BalanceIn(b, key), delta) # NONE
      BY <1>1, <2>1, AccumulateType, NoneIsNoBalance
    <3>3. BalanceIn(record(b, debit), key) = Accumulate(BalanceIn(b, key), delta)
      BY <3>1, <3>2 DEF BalanceIn
    <3>4. QED BY <1>1, <2>1, <3>3, AccumulateGrows
  <2>3. CASE key \notin WindowsOf(debit)
    <3>1. BalanceIn(record(b, debit), key) = BalanceIn(b, key)
      BY <2>3 DEF record, BalanceIn
    <3>2. QED BY <2>1, <3>1, BalanceLeqOrder
  <2>4. QED BY <2>2, <2>3
<1>3. QED BY <1>2 DEF BookLeq

(* Books are ordered as their balances are.                                     *)
LEMMA BookLeqOrder ==
    /\ \A a \in Book : BookLeq(a, a)
    /\ \A a, b, c \in Book : BookLeq(a, b) /\ BookLeq(b, c) => BookLeq(a, c)
BY BalanceInType, BalanceLeqOrder DEF BookLeq

(* A verdict over more spend is exceeded if one over less is (core.py           *)
(* _verdict_for).                                                               *)
LEMMA ExceededGrows ==
    ASSUME NEW ceiling \in BudgetCeiling, NEW a \in ScopeBalance, NEW b \in ScopeBalance,
           NEW delta \in DebitContribution, BalanceLeq(a, b),
           verdict_over(ceiling, a, delta).exceeded
    PROVE  verdict_over(ceiling, b, delta).exceeded
<1> DEFINE tokens(x) == x.tokens_spent + delta.tokens
           money(x) == MoneyWith(ceiling, x, delta)
           untotalled(x) == x.untotalled_debit_count + Count(delta.untotalled)
<1>1. \A x : verdict_over(ceiling, x, delta).exceeded
            = \/ OverTokens(ceiling, tokens(x))
              \/ OverMoney(ceiling, money(x))
              \/ StrictlyUnknown(ceiling, untotalled(x))
  BY DEF verdict_over
<1>2. /\ tokens(a) \in Nat /\ tokens(b) \in Nat /\ tokens(a) <= tokens(b)
      /\ untotalled(a) \in Nat /\ untotalled(b) \in Nat /\ untotalled(a) <= untotalled(b)
  BY DEF ScopeBalance, DebitContribution, Count, BalanceLeq
<1>3. /\ MoneyLeq(money(a), money(b))
      /\ money(a) \in Nat \cup {NONE} /\ money(b) \in Nat \cup {NONE}
  <2>1. CASE ceiling.money = NONE
    BY <2>1 DEF MoneyWith, MoneyLeq
  <2>2. CASE ceiling.money # NONE
    <3>1. ceiling.money.currency \in Currencies
      BY <2>2 DEF BudgetCeiling
    <3> DEFINE m == a.nanos_by_currency[ceiling.money.currency]
               n == b.nanos_by_currency[ceiling.money.currency]
    <3>2. m \in Nat \cup {NONE} /\ n \in Nat \cup {NONE} /\ MoneyLeq(m, n) /\ delta.nanos \in Nat
      BY <3>1 DEF ScopeBalance, DebitContribution, BalanceLeq
    <3>3. /\ money(a) = IF delta.priced /\ delta.currency = ceiling.money.currency
                        THEN NoneAsZero(m) + delta.nanos ELSE m
          /\ money(b) = IF delta.priced /\ delta.currency = ceiling.money.currency
                        THEN NoneAsZero(n) + delta.nanos ELSE n
      BY <2>2 DEF MoneyWith
    <3> HIDE DEF m, n, money
    <3>4. QED BY <3>2, <3>3, NoneIsNoNumber DEF MoneyLeq, NoneAsZero
  <2>3. QED BY <2>1, <2>2
<1> HIDE DEF tokens, money, untotalled
<1>4. CASE OverTokens(ceiling, tokens(a))
  <2>1. OverTokens(ceiling, tokens(b))
    BY <1>2, <1>4 DEF OverTokens, BudgetCeiling
  <2>2. QED BY <1>1, <2>1
<1>5. CASE OverMoney(ceiling, money(a))
  <2>1. ceiling.money # NONE /\ ceiling.money.nanos \in Nat
    BY <1>5 DEF OverMoney, BudgetCeiling
  <2>2. OverMoney(ceiling, money(b))
    BY <1>3, <1>5, <2>1, NoneIsNoNumber DEF OverMoney, MoneyLeq
  <2>3. QED BY <1>1, <2>2
<1>6. CASE StrictlyUnknown(ceiling, untotalled(a))
  <2>1. StrictlyUnknown(ceiling, untotalled(b))
    BY <1>2, <1>6 DEF StrictlyUnknown
  <2>2. QED BY <1>1, <2>1
<1>7. QED BY <1>1, <1>4, <1>5, <1>6

-----------------------------------------------------------------------------
(* What a read answers *)

(* A read answers one verdict per ceiling, over one balance each (core.py       *)
(* verdicts, prospective_verdicts, verdicts_without_run).                       *)
LEMMA AnswerShape ==
    ASSUME NEW q \in Queries, q.op # "balances"
    PROVE  /\ \A b : DOMAIN Answer(q, b) = DOMAIN q.ceilings
           /\ \A i \in DOMAIN q.ceilings :
                /\ q.ceilings[i] \in BudgetCeiling
                /\ window_for(q.ceilings[i], q.run_id, q.at) \in ScopeKey \cap KeysRead(q)
                /\ \E delta \in DebitContribution : \A b :
                        Answer(q, b)[i]
                        = verdict_over(q.ceilings[i],
                                       BalanceIn(b, window_for(q.ceilings[i], q.run_id, q.at)),
                                       delta)
<1>1. /\ q.ceilings \in CeilingSets /\ q.at \in Instants
      /\ q.asked \in Prospects \cup {NothingAsked}
      /\ q.run_id \in Runs \/ NoRunScope(q.ceilings)
  BY DEF Queries
<1>2. q.ceilings \in Seq(BudgetCeiling)
  BY <1>1, LedgerAssumption
<1>3. q.asked.usage \in TokenUsage \cup {NONE} /\ q.asked.cost \in CostEstimate \cup {NONE}
  BY <1>1, ReadsAssumption DEF NothingAsked
<1> DEFINE asked == contribution_of(IF q.asked.usage = NONE THEN AllUnreported ELSE q.asked.usage,
                                    q.asked.cost)
           nothing == q.asked.usage = NONE /\ q.asked.cost = NONE
           key(i) == window_for(q.ceilings[i], q.run_id, q.at)
           landing(i) == key(i) \in windows_touched(q.run_id, q.at, q.asked.tags)
<1>4. asked \in DebitContribution
  <2>1. AllUnreported \in TokenUsage
    BY DEF AllUnreported, TokenUsage
  <2>2. QED BY <1>3, <2>1, ContributionType
<1>5. NOTHING \in DebitContribution
  BY DEF NOTHING, DebitContribution
<1> HIDE DEF asked
<1>6. \A b : Answer(q, b)
            = [i \in DOMAIN q.ceilings |->
                verdict_over(q.ceilings[i], BalanceIn(b, key(i)),
                             IF ~nothing /\ landing(i) THEN asked ELSE NOTHING)]
  <2>1. CASE nothing
    BY <2>1 DEF Answer, prospective_verdicts, verdicts
  <2>2. CASE ~nothing
    BY <2>2 DEF Answer, prospective_verdicts, asked
  <2>3. QED BY <2>1, <2>2
<1>7. ASSUME NEW i \in DOMAIN q.ceilings
      PROVE  /\ q.ceilings[i] \in BudgetCeiling
             /\ key(i) \in ScopeKey \cap KeysRead(q)
  <2>1. PICK ceiling \in BudgetCeiling : ceiling = q.ceilings[i]
    BY <1>2
  <2>2. key(i) \in KeysRead(q)
    BY DEF KeysRead
  <2>3. ceiling.scope = "per_run" => q.run_id \in Runs
    BY <1>1, <2>1 DEF NoRunScope
  <2>4. window_for(ceiling, q.run_id, q.at) \in ScopeKey
    BY <1>1, <2>3 DEF window_for, ScopeKey, BudgetCeiling, CeilingScope
  <2>5. QED BY <2>1, <2>2, <2>4
<1>8. ASSUME NEW i \in DOMAIN q.ceilings
      PROVE  \E delta \in DebitContribution : \A b :
                Answer(q, b)[i] = verdict_over(q.ceilings[i], BalanceIn(b, key(i)), delta)
  <2> DEFINE delta == IF ~nothing /\ landing(i) THEN asked ELSE NOTHING
  <2>1. delta \in DebitContribution
    BY <1>4, <1>5
  <2>2. \A b : Answer(q, b)[i] = verdict_over(q.ceilings[i], BalanceIn(b, key(i)), delta)
    BY <1>6
  <2> HIDE DEF delta
  <2>3. QED BY <2>1, <2>2
<1> HIDE DEF key
<1>9. \A b : DOMAIN Answer(q, b) = DOMAIN q.ceilings
  BY <1>6
<1>10. QED BY <1>7, <1>8, <1>9 DEF key

(* A ceiling exceeded over one book is exceeded over every larger one.          *)
LEMMA AnswerGrows ==
    ASSUME NEW q \in Queries, q.op # "balances", NEW i \in DOMAIN q.ceilings,
           NEW a \in Book, NEW b \in Book, BookLeq(a, b), Answer(q, a)[i].exceeded
    PROVE  Answer(q, b)[i].exceeded
<1> DEFINE key == window_for(q.ceilings[i], q.run_id, q.at)
<1>1. q.ceilings[i] \in BudgetCeiling /\ key \in ScopeKey
  BY AnswerShape
<1>2. PICK delta \in DebitContribution :
          \A c : Answer(q, c)[i] = verdict_over(q.ceilings[i], BalanceIn(c, key), delta)
  BY AnswerShape
<1> HIDE DEF key
<1>3. /\ BalanceIn(a, key) \in ScopeBalance /\ BalanceIn(b, key) \in ScopeBalance
      /\ BalanceLeq(BalanceIn(a, key), BalanceIn(b, key))
  BY <1>1, BalanceInType DEF BookLeq
<1>4. QED BY <1>1, <1>2, <1>3, ExceededGrows

\* The balance seeded for a window from money of book f and counts of book b.
Mixed(f, b, key) ==
    IF b[key] = NONE THEN EMPTY_BALANCE
    ELSE [b[key] EXCEPT !.nanos_by_currency = MoneyIn(f, key)]

LEMMA MixedType ==
    ASSUME NEW f \in Book, NEW b \in Book, NEW key \in ScopeKey
    PROVE  Mixed(f, b, key) \in ScopeBalance
<1>1. MoneyIn(f, key) \in [Currencies -> Nat \cup {NONE}]
  BY BalanceInType DEF MoneyIn, ScopeBalance
<1>2. b[key] # NONE => b[key] \in ScopeBalance
  BY DEF Book
<1>3. QED BY <1>1, <1>2, EmptyBalanceType DEF Mixed, ScopeBalance

(* Rows read in two steps seed a balance between those of the two steps         *)
(* (sql.py _seed_from_rows).                                                    *)
LEMMA MixedIsBetween ==
    ASSUME NEW f \in Book, NEW b \in Book, NEW key \in ScopeKey, BookLeq(f, b)
    PROVE  /\ Mixed(f, b, key) \in ScopeBalance
           /\ BalanceLeq(BalanceIn(f, key), Mixed(f, b, key))
           /\ BalanceLeq(Mixed(f, b, key), BalanceIn(b, key))
<1>1. /\ BalanceIn(f, key) \in ScopeBalance /\ BalanceIn(b, key) \in ScopeBalance
      /\ BalanceLeq(BalanceIn(f, key), BalanceIn(b, key))
  BY BalanceInType DEF BookLeq
<1>2. CASE b[key] = NONE
  <2>1. Mixed(f, b, key) = BalanceIn(b, key)
    BY <1>2 DEF Mixed, BalanceIn
  <2>2. QED BY <1>1, <2>1, BalanceLeqOrder
<1>3. CASE b[key] # NONE
  <2>1. PICK early \in ScopeBalance, late \in ScopeBalance :
            early = BalanceIn(f, key) /\ late = BalanceIn(b, key)
    BY <1>1
  <2>2. late = b[key] /\ BalanceLeq(early, late)
    BY <1>1, <1>3, <2>1 DEF BalanceIn
  <2>3. Mixed(f, b, key) = [late EXCEPT !.nanos_by_currency = early.nanos_by_currency]
    BY <1>3, <2>1, <2>2 DEF Mixed, MoneyIn
  <2> DEFINE mixed == [late EXCEPT !.nanos_by_currency = early.nanos_by_currency]
  <2>4. /\ mixed \in ScopeBalance
        /\ mixed.tokens_spent = late.tokens_spent
        /\ mixed.untotalled_debit_count = late.untotalled_debit_count
        /\ mixed.nanos_by_currency = early.nanos_by_currency
    BY DEF ScopeBalance
  <2> HIDE DEF mixed
  <2>5. BalanceLeq(early, early) /\ BalanceLeq(late, late)
    BY BalanceLeqOrder
  <2>6. BalanceLeq(early, mixed)
    BY <2>2, <2>4, <2>5 DEF BalanceLeq
  <2>7. BalanceLeq(mixed, late)
    BY <2>2, <2>4, <2>5 DEF BalanceLeq
  <2>8. QED BY <2>1, <2>3, <2>4, <2>6, <2>7 DEF mixed
<1>4. QED BY <1>2, <1>3

-----------------------------------------------------------------------------
(* The invariant *)

\* What answer a says of book f, at the first SELECT, and of book b, now.
Judged(q, a, f, b) ==
    IF q.op = "balances" THEN a \in ScopeBalance
    ELSE /\ DOMAIN a = DOMAIN q.ceilings
         /\ \A i \in DOMAIN q.ceilings :
                /\ a[i] \in CeilingVerdict
                /\ Answer(q, f)[i].exceeded => a[i].exceeded
                /\ a[i].exceeded => Answer(q, b)[i].exceeded

\* A reader at pc with query q, money rows m, answer a, first book f; b is the book now.
ReaderInv(pc, q, m, a, f, b) ==
    /\ pc # "idle" => q \in Queries
    /\ pc \in {"read_balances", "answered"} => f \in Book /\ BookLeq(f, b)
    /\ pc = "read_balances" => m = [key \in KeysRead(q) |-> MoneyIn(f, key)]
    /\ pc = "answered" => Judged(q, a, f, b)

ReadInv ==
    /\ LedgerInv
    /\ DOMAIN read_pc = Readers /\ DOMAIN query = Readers /\ DOMAIN money_rows = Readers
    /\ DOMAIN answer = Readers /\ DOMAIN first_book = Readers
    /\ \A r \in Readers :
            ReaderInv(read_pc[r], query[r], money_rows[r], answer[r], first_book[r], book)

(* Spend that is committed after an answer leaves the answer right.             *)
LEMMA JudgedStays ==
    ASSUME NEW q \in Queries, NEW a, NEW f \in Book, NEW b \in Book, NEW later \in Book,
           BookLeq(b, later), Judged(q, a, f, b)
    PROVE  Judged(q, a, f, later)
<1>1. CASE q.op = "balances"
  BY <1>1 DEF Judged
<1>2. CASE q.op # "balances"
  <2>1. ASSUME NEW i \in DOMAIN q.ceilings, a[i].exceeded
        PROVE  Answer(q, later)[i].exceeded
    <3>1. Answer(q, b)[i].exceeded
      BY <1>2, <2>1 DEF Judged
    <3>2. QED BY <1>2, <3>1, AnswerGrows
  <2>2. QED BY <1>2, <2>1 DEF Judged
<1>3. QED BY <1>1, <1>2

(* What _seed_from_rows seeds is answered rightly.                              *)
LEMMA SeededJudged ==
    ASSUME NEW q \in Queries, NEW f \in Book, NEW b \in Book, BookLeq(f, b), NEW seeded,
           \A key \in ScopeKey \cap KeysRead(q) : BalanceIn(seeded, key) = Mixed(f, b, key)
    PROVE  Judged(q, Answer(q, seeded), f, b)
<1>1. CASE q.op = "balances"
  <2>1. q.key \in ScopeKey \cap KeysRead(q)
    BY <1>1 DEF Queries, KeysRead
  <2>2. QED BY <1>1, <2>1, MixedIsBetween DEF Judged, Answer
<1>2. CASE q.op # "balances"
  <2>1. ASSUME NEW i \in DOMAIN q.ceilings
        PROVE  /\ Answer(q, seeded)[i] \in CeilingVerdict
               /\ Answer(q, f)[i].exceeded => Answer(q, seeded)[i].exceeded
               /\ Answer(q, seeded)[i].exceeded => Answer(q, b)[i].exceeded
    <3> DEFINE key == window_for(q.ceilings[i], q.run_id, q.at)
    <3>1. q.ceilings[i] \in BudgetCeiling /\ key \in ScopeKey \cap KeysRead(q)
      BY <1>2, AnswerShape
    <3>2. PICK delta \in DebitContribution :
              \A c : Answer(q, c)[i] = verdict_over(q.ceilings[i], BalanceIn(c, key), delta)
      BY <1>2, AnswerShape
    <3> HIDE DEF key
    <3>3. Answer(q, seeded)[i] = verdict_over(q.ceilings[i], Mixed(f, b, key), delta)
      BY <3>1, <3>2
    <3>4. /\ Mixed(f, b, key) \in ScopeBalance
          /\ BalanceLeq(BalanceIn(f, key), Mixed(f, b, key))
          /\ BalanceLeq(Mixed(f, b, key), BalanceIn(b, key))
          /\ BalanceIn(f, key) \in ScopeBalance /\ BalanceIn(b, key) \in ScopeBalance
      BY <3>1, MixedIsBetween, BalanceInType
    <3>5. Answer(q, seeded)[i] \in CeilingVerdict
      BY <3>1, <3>3, <3>4, VerdictType
    <3>6. Answer(q, f)[i].exceeded => Answer(q, seeded)[i].exceeded
      BY <3>1, <3>2, <3>3, <3>4, ExceededGrows
    <3>7. Answer(q, seeded)[i].exceeded => Answer(q, b)[i].exceeded
      BY <3>1, <3>2, <3>3, <3>4, ExceededGrows
    <3>8. QED BY <3>5, <3>6, <3>7
  <2>2. DOMAIN Answer(q, seeded) = DOMAIN q.ceilings
    BY <1>2, AnswerShape
  <2>3. QED BY <1>2, <2>1, <2>2 DEF Judged
<1>3. QED BY <1>1, <1>2

(* What the two SELECTs seed (sql.py _seed_from_rows): the money of the first,  *)
(* the rest of the second.                                                      *)
LEMMA SeededIsMixed ==
    ASSUME ReadInv, NEW r \in Readers, read_pc[r] = "read_balances",
           NEW key \in ScopeKey \cap KeysRead(query[r])
    PROVE  BalanceIn(SeededRows(r), key) = Mixed(first_book[r], book, key)
<1>1. PICK q \in Queries, f \in Book, b \in Book :
          q = query[r] /\ f = first_book[r] /\ b = book /\ BookLeq(f, b)
  BY DEF ReadInv, ReaderInv, LedgerInv
<1>2. money_rows[r] = [k \in KeysRead(q) |-> MoneyIn(f, k)]
  BY <1>1 DEF ReadInv, ReaderInv
<1>3. SeededRows(r)[key] = IF b[key] = NONE THEN NONE
                           ELSE [b[key] EXCEPT !.nanos_by_currency = MoneyIn(f, key)]
  BY <1>1, <1>2 DEF SeededRows
<1>4. CASE b[key] = NONE
  BY <1>1, <1>3, <1>4 DEF BalanceIn, Mixed
<1>5. CASE b[key] # NONE
  <2>1. SeededRows(r)[key] = Mixed(f, b, key)
    BY <1>3, <1>5 DEF Mixed
  <2>2. Mixed(f, b, key) # NONE
    BY <1>1, MixedIsBetween, NoneIsNoBalance
  <2>3. QED BY <1>1, <2>1, <2>2 DEF BalanceIn
<1>6. QED BY <1>4, <1>5

-----------------------------------------------------------------------------
(* The steps *)

LEMMA ReadInitInv == ReadInit => ReadInv
BY LedgerInit DEF ReadInit, ReadInv, ReaderInv

(* No step of a writer makes the book smaller.                                  *)
LEMMA BookGrows ==
    ASSUME LedgerInv, Next
    PROVE  book \in Book /\ book' \in Book /\ BookLeq(book, book')
<1>1. book \in Book /\ book' \in Book
  BY LedgerStep DEF LedgerInv
<1>2. ASSUME NEW run_id \in Runs, DeclareRun(run_id) PROVE BookLeq(book, book')
  BY <1>1, <1>2, BookLeqOrder DEF DeclareRun
<1>3. ASSUME NEW d \in Debits, NEW at \in Instants, NEW ceilings \in CeilingSets,
             RecordDebit(resolved_debit(d, at), ceilings)
      PROVE  BookLeq(book, book')
  <2>1. PICK debit \in ResolvedDebit : debit = resolved_debit(d, at)
    BY ResolvedDebitType, LedgerAssumption
  <2>2. book' = record(book, debit)
    BY <1>3, <2>1 DEF RecordDebit
  <2>3. QED BY <1>1, <2>2, RecordGrows
<1>4. QED BY <1>1, <1>2, <1>3 DEF Next

LEMMA ReadStepInv == ReadInv /\ [ReadNext]_read_vars => ReadInv'
<1> SUFFICES ASSUME ReadInv, [ReadNext]_read_vars PROVE ReadInv'
  OBVIOUS
<1>1. CASE Next /\ UNCHANGED readers
  <2>1. LedgerInv'
    BY <1>1, LedgerStep DEF ReadInv
  <2>2. book \in Book /\ book' \in Book /\ BookLeq(book, book')
    BY <1>1, BookGrows DEF ReadInv
  <2>3. UNCHANGED <<read_pc, query, money_rows, answer, first_book>>
    BY <1>1 DEF readers
  <2>4. ASSUME NEW r \in Readers
        PROVE  ReaderInv(read_pc[r], query[r], money_rows[r], answer[r], first_book[r], book')
    <3>1. ReaderInv(read_pc[r], query[r], money_rows[r], answer[r], first_book[r], book)
      BY DEF ReadInv
    <3>2. read_pc[r] \in {"read_balances", "answered"} => BookLeq(first_book[r], book')
      BY <2>2, <3>1, BookLeqOrder DEF ReaderInv
    <3>3. read_pc[r] = "answered" => Judged(query[r], answer[r], first_book[r], book')
      BY <2>2, <3>1, JudgedStays DEF ReaderInv
    <3>4. QED BY <3>1, <3>2, <3>3 DEF ReaderInv
  <2>5. QED BY <2>1, <2>3, <2>4 DEF ReadInv
<1>2. ASSUME NEW r \in Readers, UNCHANGED vars,
             DOMAIN read_pc' = Readers, DOMAIN query' = Readers, DOMAIN money_rows' = Readers,
             DOMAIN answer' = Readers, DOMAIN first_book' = Readers,
             \A o \in Readers \ {r} :
                /\ read_pc'[o] = read_pc[o] /\ query'[o] = query[o]
                /\ money_rows'[o] = money_rows[o] /\ answer'[o] = answer[o]
                /\ first_book'[o] = first_book[o],
             ReaderInv(read_pc'[r], query'[r], money_rows'[r], answer'[r], first_book'[r], book)
      PROVE  ReadInv'
  <2>1. LedgerInv' /\ book' = book
    BY <1>2, LedgerStep DEF ReadInv, vars
  <2>2. ASSUME NEW o \in Readers
        PROVE  ReaderInv(read_pc'[o], query'[o], money_rows'[o], answer'[o], first_book'[o], book)
    <3>1. CASE o = r
      BY <1>2, <3>1
    <3>2. CASE o # r
      BY <1>2, <3>2 DEF ReadInv
    <3>3. QED BY <3>1, <3>2
  <2>3. QED BY <1>2, <2>1, <2>2 DEF ReadInv
<1>3. ASSUME NEW r \in Readers, BeginRead(r) PROVE ReadInv'
  <2>1. ReaderInv(read_pc'[r], query'[r], money_rows'[r], answer'[r], first_book'[r], book)
    BY <1>3 DEF BeginRead, ReadInv, ReaderInv
  <2>2. QED BY <1>2, <1>3, <2>1 DEF BeginRead, ReadInv
<1>4. ASSUME NEW r \in Readers, RequireKnown(r) PROVE ReadInv'
  <2>1. ReaderInv(read_pc'[r], query'[r], money_rows'[r], answer'[r], first_book'[r], book)
    BY <1>4 DEF RequireKnown, ReadInv, ReaderInv
  <2>2. QED BY <1>2, <1>4, <2>1 DEF RequireKnown, ReadInv
<1>5. ASSUME NEW r \in Readers, ReadMoney(r) PROVE ReadInv'
  <2>1. ReaderInv(read_pc'[r], query'[r], money_rows'[r], answer'[r], first_book'[r], book)
    <3>1. book \in Book /\ BookLeq(book, book)
      BY BookLeqOrder DEF ReadInv, LedgerInv
    <3>2. /\ read_pc'[r] = "read_balances" /\ query'[r] = query[r] /\ first_book'[r] = book
          /\ money_rows'[r] = [key \in KeysRead(query[r]) |-> MoneyIn(book, key)]
          /\ query[r] \in Queries
      BY <1>5 DEF ReadMoney, ReadInv, ReaderInv
    <3>3. QED BY <3>1, <3>2 DEF ReaderInv
  <2>2. QED BY <1>2, <1>5, <2>1 DEF ReadMoney, ReadInv
<1>6. ASSUME NEW r \in Readers, ReadBalances(r) PROVE ReadInv'
  <2>1. /\ read_pc[r] = "read_balances" /\ read_pc'[r] = "answered"
        /\ query'[r] = query[r] /\ first_book'[r] = first_book[r]
        /\ answer'[r] = Answer(query[r], SeededRows(r))
    BY <1>6 DEF ReadBalances, ReadInv
  <2>2. PICK q \in Queries, f \in Book, b \in Book :
            q = query[r] /\ f = first_book[r] /\ b = book /\ BookLeq(f, b)
    BY <2>1 DEF ReadInv, ReaderInv, LedgerInv
  <2>4. \A key \in ScopeKey \cap KeysRead(q) : BalanceIn(SeededRows(r), key) = Mixed(f, b, key)
    BY <2>1, <2>2, SeededIsMixed
  <2>5. Judged(q, Answer(q, SeededRows(r)), f, b)
    BY <2>2, <2>4, SeededJudged
  <2>6. ReaderInv(read_pc'[r], query'[r], money_rows'[r], answer'[r], first_book'[r], book)
    BY <2>1, <2>2, <2>5 DEF ReaderInv
  <2>7. QED BY <1>2, <1>6, <2>6 DEF ReadBalances, ReadInv
<1>7. ASSUME NEW r \in Readers, EndRead(r) PROVE ReadInv'
  <2>1. ReaderInv(read_pc'[r], query'[r], money_rows'[r], answer'[r], first_book'[r], book)
    BY <1>7 DEF EndRead, ReadInv, ReaderInv
  <2>2. QED BY <1>2, <1>7, <2>1 DEF EndRead, ReadInv
<1>8. CASE UNCHANGED read_vars
  <2>1. UNCHANGED <<vars, book, read_pc, query, money_rows, answer, first_book>>
    BY <1>8 DEF read_vars, readers, vars
  <2>2. LedgerInv'
    BY <2>1, LedgerStep DEF ReadInv
  <2>3. QED BY <2>1, <2>2 DEF ReadInv
<1>9. QED BY <1>1, <1>3, <1>4, <1>5, <1>6, <1>7, <1>8 DEF ReadNext, ReadStep

-----------------------------------------------------------------------------
(* Answers of the reads are well-formed (sql.py would_exceed, remaining,        *)
(* position, balances), whatever commits between their SELECTs.                 *)
THEOREM ReadsTypeCorrect == ReadSpec => []ReadTypeOK
<1>1. ReadInv => ReadTypeOK
  <2> SUFFICES ASSUME ReadInv PROVE ReadTypeOK
    OBVIOUS
  <2>1. TypeOK
    BY InvImpliesTypeOK DEF ReadInv
  <2>2. ASSUME NEW r \in Readers
        PROVE  /\ read_pc[r] # "idle" => query[r] \in Queries
               /\ Verdicts(r) => \A i \in DOMAIN answer[r] : answer[r][i] \in CeilingVerdict
               /\ Answered(r) /\ ~Verdicts(r) => answer[r] \in ScopeBalance
    BY DEF ReadInv, ReaderInv, Judged, Verdicts, Answered
  <2>3. QED BY <2>1, <2>2 DEF ReadTypeOK
<1>2. QED BY <1>1, ReadInitInv, ReadStepInv, PTL DEF ReadSpec

(* Debits that commit while a read is between its two SELECTs never turn a      *)
(* verdict around (sql.py _seed_from_rows), for any readers, debits, ceilings   *)
(* and prospects: a ceiling exceeded when the read began is answered            *)
(* "exceeded", and one answered "exceeded" is exceeded from then on.            *)
THEOREM AnswersAreBracketed == ReadSpec => []AnswerIsBracketed
<1>1. ReadInv => AnswerIsBracketed
  BY DEF ReadInv, ReaderInv, Judged, AnswerIsBracketed, Verdicts, Answered
<1>2. QED BY <1>1, ReadInitInv, ReadStepInv, PTL DEF ReadSpec

-----------------------------------------------------------------------------
(* The answers and the history *)

(* What is priced, and what does not total, in a prefix of a history.           *)
LEMMA PrefixSets ==
    ASSUME NEW E, NEW h \in Seq(E), NEW k \in 0..Len(h), NEW key, NEW currency
    PROVE  /\ PricedIn(SubSeq(h, 1, k), key, currency) = {e \in PricedIn(h, key, currency) : e <= k}
           /\ UntotalledIn(SubSeq(h, 1, k), key) = {e \in UntotalledIn(h, key) : e <= k}
           /\ Touching(SubSeq(h, 1, k), key) = {e \in Touching(h, key) : e <= k}
<1>1. PICK g : g = SubSeq(h, 1, k)
  OBVIOUS
<1>2. DOMAIN g = {e \in DOMAIN h : e <= k} /\ \A e \in DOMAIN g : g[e] = h[e]
  BY <1>1
<1>3. Touching(g, key) = {e \in Touching(h, key) : e <= k}
  BY <1>2 DEF Touching
<1>4. PricedIn(g, key, currency) = {e \in PricedIn(h, key, currency) : e <= k}
  <2>1. \A e \in Touching(g, key) : e \in DOMAIN g
    BY DEF Touching
  <2>2. QED BY <1>2, <1>3, <2>1 DEF PricedIn
<1>5. UntotalledIn(g, key) = {e \in UntotalledIn(h, key) : e <= k}
  <2>1. \A e \in Touching(g, key) : e \in DOMAIN g
    BY DEF Touching
  <2>2. QED BY <1>2, <1>3, <2>1 DEF UntotalledIn
<1>6. QED BY <1>1, <1>3, <1>4, <1>5

\* The book of the first k entries.
BookAt(history, k) == ReferenceBook(SubSeq(history, 1, k))

(* The two SELECTs of a read found the books of two prefixes of the history,    *)
(* the second no shorter than the first.                                        *)
ReadsPrefixes(pc, q, a, f, history) ==
    pc \in {"read_balances", "answered"} =>
        \E k \in 0..Len(history) :
            /\ f = BookAt(history, k)
            /\ pc = "answered" =>
                \E j \in k..Len(history) : \E seeded :
                    /\ a = Answer(q, seeded)
                    /\ \A key \in ScopeKey \cap KeysRead(q) :
                            BalanceIn(seeded, key) = Mixed(f, BookAt(history, j), key)

PrefixInv ==
    /\ ReadInv
    /\ HistoryInv
    /\ \A r \in Readers :
            ReadsPrefixes(read_pc[r], query[r], answer[r], first_book[r], entries)

(* The book is that of the whole history. *)
LEMMA BookNow ==
    ASSUME HistoryInv
    PROVE  /\ entries \in Seq(Recorded) /\ Len(entries) \in Nat
           /\ book = BookAt(entries, Len(entries))
<1>1. entries \in Seq(Recorded) /\ book \in Book /\ AddsUp(book, entries)
  BY DEF HistoryInv, LedgerInv
<1>2. SubSeq(entries, 1, Len(entries)) = entries
  BY <1>1
<1>3. book = ReferenceBook(entries)
  BY <1>1, AddsUpIsReference
<1>4. Len(entries) \in Nat
  BY <1>1
<1>5. book = ReferenceBook(SubSeq(entries, 1, Len(entries)))
  BY <1>2, <1>3
<1>6. QED BY <1>1, <1>4, <1>5 DEF BookAt

(* Entries are only ever added, so prefixes stay prefixes.                      *)
LEMMA PrefixesStay ==
    ASSUME HistoryInv, HistoryInv', Next, NEW pc, NEW q, NEW a, NEW f,
           ReadsPrefixes(pc, q, a, f, entries)
    PROVE  ReadsPrefixes(pc, q, a, f, entries')
<1>1. /\ entries \in Seq(Recorded) /\ entries' \in Seq(Recorded)
      /\ entries' = entries \/ \E new : entries' = Append(entries, new)
  BY DEF HistoryInv, LedgerInv, Next, DeclareRun, RecordDebit
<1>2. ASSUME NEW new, entries' = Append(entries, new)
      PROVE  ReadsPrefixes(pc, q, a, f, entries')
  <2>1. new \in Recorded
    <3>1. Len(entries) + 1 \in DOMAIN entries' /\ entries'[Len(entries) + 1] = new
      BY <1>1, <1>2
    <3>2. QED BY <1>1, <3>1
  <2>2. \A k \in 0..Len(entries) : BookAt(entries', k) = BookAt(entries, k)
    <3>1. \A k \in 0..Len(entries) : SubSeq(entries', 1, k) = SubSeq(entries, 1, k)
      BY <1>1, <1>2, <2>1
    <3>2. QED BY <3>1 DEF BookAt
  <2>3. Len(entries) \in Nat /\ Len(entries') = Len(entries) + 1
    BY <1>1, <1>2, <2>1
  <2>4. QED BY <2>2, <2>3 DEF ReadsPrefixes
<1>3. QED BY <1>1, <1>2

LEMMA PrefixInit == ReadInit => PrefixInv
BY ReadInitInv, HistoryInit DEF ReadInit, PrefixInv, ReadsPrefixes

LEMMA PrefixStep == PrefixInv /\ [ReadNext]_read_vars => PrefixInv'
<1> SUFFICES ASSUME PrefixInv, [ReadNext]_read_vars PROVE PrefixInv'
  OBVIOUS
<1>1. ReadInv /\ ReadInv'
  BY ReadStepInv DEF PrefixInv
<1>2. HistoryInv /\ HistoryInv'
  BY HistoryStep DEF PrefixInv, ReadNext, ReadStep, BeginRead, RequireKnown, ReadMoney,
                     ReadBalances, EndRead, read_vars
<1>3. CASE Next /\ UNCHANGED readers
  <2>1. ASSUME NEW r \in Readers
        PROVE  ReadsPrefixes(read_pc[r], query[r], answer[r], first_book[r], entries')
    BY <1>2, <1>3, PrefixesStay DEF PrefixInv
  <2>2. QED BY <1>1, <1>2, <1>3, <2>1 DEF PrefixInv, readers
<1>4. ASSUME NEW r \in Readers, UNCHANGED vars,
             \A o \in Readers \ {r} :
                /\ read_pc'[o] = read_pc[o] /\ query'[o] = query[o]
                /\ answer'[o] = answer[o] /\ first_book'[o] = first_book[o],
             ReadsPrefixes(read_pc'[r], query'[r], answer'[r], first_book'[r], entries)
      PROVE  PrefixInv'
  <2>1. entries' = entries
    BY <1>4 DEF vars
  <2>2. ASSUME NEW o \in Readers
        PROVE  ReadsPrefixes(read_pc'[o], query'[o], answer'[o], first_book'[o], entries)
    <3>1. CASE o = r
      BY <1>4, <3>1
    <3>2. CASE o # r
      BY <1>4, <3>2 DEF PrefixInv
    <3>3. QED BY <3>1, <3>2
  <2>3. QED BY <1>1, <1>2, <2>1, <2>2 DEF PrefixInv
<1>5. ASSUME NEW r \in Readers, BeginRead(r) \/ RequireKnown(r) \/ EndRead(r) PROVE PrefixInv'
  <2>1. read_pc'[r] \notin {"read_balances", "answered"}
    BY <1>1, <1>5 DEF BeginRead, RequireKnown, EndRead, ReadInv
  <2>2. QED
    BY <1>1, <1>4, <1>5, <2>1 DEF BeginRead, RequireKnown, EndRead, ReadInv, ReadsPrefixes
<1>6. ASSUME NEW r \in Readers, ReadMoney(r) PROVE PrefixInv'
  <2>1. read_pc'[r] = "read_balances" /\ first_book'[r] = book
    BY <1>1, <1>6 DEF ReadMoney, ReadInv
  <2>2. ReadsPrefixes(read_pc'[r], query'[r], answer'[r], first_book'[r], entries)
    BY <1>2, <2>1, BookNow DEF ReadsPrefixes
  <2>3. QED BY <1>4, <1>6, <2>2 DEF ReadMoney
<1>7. ASSUME NEW r \in Readers, ReadBalances(r) PROVE PrefixInv'
  <2>1. /\ read_pc[r] = "read_balances"
        /\ query'[r] = query[r] /\ first_book'[r] = first_book[r]
        /\ answer'[r] = Answer(query[r], SeededRows(r))
    BY <1>1, <1>7 DEF ReadBalances, ReadInv
  <2>2. PICK k \in 0..Len(entries) : first_book[r] = BookAt(entries, k)
    BY <2>1 DEF PrefixInv, ReadsPrefixes
  <2>3. \A key \in ScopeKey \cap KeysRead(query[r]) :
            BalanceIn(SeededRows(r), key) = Mixed(first_book[r], book, key)
    BY <1>1, <2>1, SeededIsMixed
  <2>4. ReadsPrefixes(read_pc'[r], query'[r], answer'[r], first_book'[r], entries)
    BY <1>2, <2>1, <2>2, <2>3, BookNow DEF ReadsPrefixes
  <2>5. QED BY <1>4, <1>7, <2>4 DEF ReadBalances
<1>8. CASE UNCHANGED read_vars
  BY <1>1, <1>2, <1>8 DEF read_vars, readers, vars, PrefixInv
<1>9. QED BY <1>3, <1>5, <1>6, <1>7, <1>8 DEF ReadNext, ReadStep

\* PricedAfter, of any history.
PricedUpTo(history, key, currency, k) == {e \in PricedIn(history, key, currency) : e <= k}

(* Money of the first k entries with the counts of the first j >= k: if the     *)
(* counts know of no estimate that does not total, the money holds none.        *)
LEMMA CleanPrefix ==
    ASSUME NEW E, NEW h \in Seq(E), Sound(h), NEW k \in 0..Len(h), NEW j \in k..Len(h),
           NEW key \in ScopeKey, NEW currency \in Currencies,
           Mixed(BookAt(h, k), BookAt(h, j), key).untotalled_debit_count = 0
    PROVE  LET priced == PricedUpTo(h, key, currency, k)
           IN  /\ Mixed(BookAt(h, k), BookAt(h, j), key).nanos_by_currency[currency]
                    = IF priced = {} THEN NONE ELSE SumFunctionOnSet(NanosOf(h), priced)
               /\ BalanceIn(BookAt(h, k), key).nanos_by_currency[currency]
                    = IF priced = {} THEN NONE ELSE SumFunctionOnSet(NanosOf(h), priced)
               /\ \A e \in priced : Totalled(h[e].debit.cost)
<1>1. PICK early \in Seq(E), late \in Seq(E) :
          early = SubSeq(h, 1, k) /\ late = SubSeq(h, 1, j) /\ Sound(early) /\ Sound(late)
  <2>1. j \in 0..Len(h)
    OBVIOUS
  <2>2. SubSeq(h, 1, k) \in Seq(E) /\ SubSeq(h, 1, j) \in Seq(E)
    BY <2>1, SoundPrefix
  <2>3. Sound(SubSeq(h, 1, k)) /\ Sound(SubSeq(h, 1, j))
    BY <2>1, SoundPrefix
  <2>4. QED BY <2>2, <2>3
<1>2. PICK priced : /\ priced = PricedUpTo(h, key, currency, k)
                    /\ priced = PricedIn(early, key, currency)
  BY <1>1, PrefixSets DEF PricedUpTo
<1>3. /\ UntotalledIn(late, key) = {e \in UntotalledIn(h, key) : e <= j}
      /\ Touching(early, key) = {e \in Touching(h, key) : e <= k}
      /\ Touching(late, key) = {e \in Touching(h, key) : e <= j}
  BY <1>1, PrefixSets
<1>4. /\ BookAt(h, j)[key] = IF Touching(late, key) = {} THEN NONE
                              ELSE ReferenceBalance(late, key)
      /\ AddsUp(BookAt(h, k), early)
  BY <1>1 DEF BookAt, ReferenceBook, AddsUp
<1>5. ReferenceBalance(late, key) # NONE
  BY <1>1, ReferenceType, NoneIsNoBalance
<1>6. BalanceIn(BookAt(h, k), key) = ReferenceBalance(early, key)
  BY <1>1, <1>4, BalanceIsReference
<1>7. ReferenceBalance(early, key).nanos_by_currency[currency]
      = IF priced = {} THEN NONE ELSE SumFunctionOnSet(NanosOf(h), priced)
  <2>1. priced \in SUBSET (DOMAIN early)
    BY <1>2 DEF PricedIn, Touching
  <2>2. IsFiniteSet(priced)
    BY <1>1, <2>1, EntriesAreCounted, FS_Subset
  <2>3. PICK f, f2 : f = NanosOf(early) /\ f2 = NanosOf(h)
    OBVIOUS
  <2>4. \A i \in priced : f[i] \in Nat
    BY <1>1, <2>1, <2>3, EntriesAreCounted
  <2>5. \A i \in priced : f2[i] = f[i]
    <3>1. \A i \in DOMAIN early : i \in DOMAIN h /\ early[i] = h[i]
      BY <1>1
    <3>2. QED BY <2>1, <2>3, <3>1 DEF NanosOf
  <2>6. SumFunctionOnSet(f2, priced) = SumFunctionOnSet(f, priced)
    BY <2>2, <2>4, <2>5, SumCong
  <2>7. ReferenceBalance(early, key).nanos_by_currency[currency]
        = IF priced = {} THEN NONE ELSE SumFunctionOnSet(f, priced)
    BY <1>1, <1>2, <2>3, ReferenceMoney
  <2>8. QED BY <2>3, <2>6, <2>7
<1>8. Touching(early, key) \subseteq Touching(late, key) /\ priced \subseteq Touching(early, key)
  <2>1. priced \subseteq Touching(early, key)
    BY <1>2 DEF PricedIn
  <2>2. \A e \in Touching(h, key) : e \in Nat
    BY DEF Touching
  <2>3. QED BY <1>3, <2>1, <2>2
<1>9. CASE Touching(late, key) = {}
  <2>1. Mixed(BookAt(h, k), BookAt(h, j), key) = EMPTY_BALANCE
    BY <1>4, <1>9 DEF Mixed
  <2>2. priced = {}
    BY <1>8, <1>9
  <2>3. EMPTY_BALANCE.nanos_by_currency[currency] = NONE
    BY DEF EMPTY_BALANCE
  <2>4. QED BY <1>2, <1>6, <1>7, <2>1, <2>2, <2>3
<1>10. CASE Touching(late, key) # {}
  <2>1. PICK balance \in ScopeBalance :
            balance = ReferenceBalance(late, key) /\ BookAt(h, j)[key] = balance
    BY <1>1, <1>4, <1>10, ReferenceType
  <2>2. PICK money : money = MoneyIn(BookAt(h, k), key)
    OBVIOUS
  <2>3. Mixed(BookAt(h, k), BookAt(h, j), key) = [balance EXCEPT !.nanos_by_currency = money]
    BY <1>5, <2>1, <2>2 DEF Mixed
  <2>4. /\ [balance EXCEPT !.nanos_by_currency = money].nanos_by_currency = money
        /\ [balance EXCEPT !.nanos_by_currency = money].untotalled_debit_count
            = balance.untotalled_debit_count
    BY DEF ScopeBalance
  <2>5. Cardinality(UntotalledIn(late, key)) = 0
    BY <2>1, <2>3, <2>4 DEF ReferenceBalance
  <2>6. UntotalledIn(late, key) = {}
    <3>1. UntotalledIn(late, key) \in SUBSET (DOMAIN late)
      BY DEF UntotalledIn, Touching
    <3>2. IsFiniteSet(UntotalledIn(late, key))
      BY <1>1, <3>1, EntriesAreCounted, FS_Subset
    <3>3. QED BY <2>5, <3>2, FS_EmptySet
  <2>7. ASSUME NEW e \in priced PROVE Totalled(h[e].debit.cost)
    <3>1. e \in Touching(h, key) /\ h[e].debit.cost # NONE /\ e \in Nat /\ e <= k
      BY <1>2 DEF PricedUpTo, PricedIn, Touching
    <3>2. e <= j
      BY <3>1
    <3>3. e \notin UntotalledIn(h, key)
      BY <1>3, <2>6, <3>2
    <3>4. QED BY <3>1, <3>3 DEF UntotalledIn
  <2>8. money[currency] = IF priced = {} THEN NONE ELSE SumFunctionOnSet(NanosOf(h), priced)
    BY <1>6, <1>7, <2>2 DEF MoneyIn
  <2>9. QED BY <1>2, <1>6, <1>7, <2>3, <2>4, <2>7, <2>8
<1>11. QED BY <1>9, <1>10

(* A read that reports no untotalled estimate reports a sum that holds none,    *)
(* whatever commits between the two SELECTs that read it (sql.py                *)
(* _seed_from_rows reads money before the counts), balances and verdicts alike. *)
THEOREM CleanReads == ReadSpec => []CleanCountMeansCleanSum
<1>1. PrefixInv => CleanCountMeansCleanSum
  <2> SUFFICES ASSUME PrefixInv, NEW r \in Readers, NEW currency \in Currencies
               PROVE
        /\ Answered(r) /\ ~Verdicts(r)
           /\ answer[r].untotalled_debit_count = 0
           => \E k \in 0..Len(entries) :
                LET priced == PricedAfter(query[r].key, currency, k)
                IN  /\ answer[r].nanos_by_currency[currency]
                        = IF priced = {} THEN NONE ELSE SumFunctionOnSet(NanosOf(entries), priced)
                    /\ \A e \in priced : Totalled(entries[e].debit.cost)
        /\ Verdicts(r) =>
            \A i \in DOMAIN answer[r] :
                LET ceiling == query[r].ceilings[i]
                    key     == window_for(ceiling, query[r].run_id, query[r].at)
                IN  /\ ceiling.money # NONE
                    /\ ceiling.money.currency = currency
                    /\ answer[r][i].untotalled_debit_count = 0
                    => \E k \in 0..Len(entries) :
                        /\ answer[r][i].money_spent
                            = Answer(query[r], BookAfter(entries)[k])[i].money_spent
                        /\ \A e \in PricedAfter(key, currency, k) :
                                Totalled(entries[e].debit.cost)
    BY DEF CleanCountMeansCleanSum
  <2>1. SUFFICES ASSUME Answered(r) PROVE
        /\ ~Verdicts(r)
           /\ answer[r].untotalled_debit_count = 0
           => \E k \in 0..Len(entries) :
                LET priced == PricedAfter(query[r].key, currency, k)
                IN  /\ answer[r].nanos_by_currency[currency]
                        = IF priced = {} THEN NONE ELSE SumFunctionOnSet(NanosOf(entries), priced)
                    /\ \A e \in priced : Totalled(entries[e].debit.cost)
        /\ Verdicts(r) =>
            \A i \in DOMAIN answer[r] :
                LET ceiling == query[r].ceilings[i]
                    key     == window_for(ceiling, query[r].run_id, query[r].at)
                IN  /\ ceiling.money # NONE
                    /\ ceiling.money.currency = currency
                    /\ answer[r][i].untotalled_debit_count = 0
                    => \E k \in 0..Len(entries) :
                        /\ answer[r][i].money_spent
                            = Answer(query[r], BookAfter(entries)[k])[i].money_spent
                        /\ \A e \in PricedAfter(key, currency, k) :
                                Totalled(entries[e].debit.cost)
    BY DEF Verdicts
  <2>2. PICK q \in Queries : q = query[r]
    BY <2>1 DEF PrefixInv, ReadInv, ReaderInv, Answered
  <2>3. entries \in Seq(Recorded) /\ Sound(entries)
    BY DEF PrefixInv, HistoryInv, LedgerInv
  <2>4. PICK k \in 0..Len(entries) : \E j \in k..Len(entries) : \E seeded :
            /\ answer[r] = Answer(q, seeded)
            /\ \A key \in ScopeKey \cap KeysRead(q) :
                    BalanceIn(seeded, key) = Mixed(BookAt(entries, k), BookAt(entries, j), key)
    BY <2>1, <2>2 DEF PrefixInv, ReadsPrefixes, Answered
  <2>5. PICK j \in k..Len(entries) : \E seeded :
            /\ answer[r] = Answer(q, seeded)
            /\ \A key \in ScopeKey \cap KeysRead(q) :
                    BalanceIn(seeded, key) = Mixed(BookAt(entries, k), BookAt(entries, j), key)
    BY <2>4
  <2>6. PICK seeded :
            /\ answer[r] = Answer(q, seeded)
            /\ \A key \in ScopeKey \cap KeysRead(q) :
                    BalanceIn(seeded, key) = Mixed(BookAt(entries, k), BookAt(entries, j), key)
    BY <2>5
  <2>7. \A key : PricedAfter(key, currency, k) = PricedUpTo(entries, key, currency, k)
    BY DEF PricedAfter, PricedUpTo
  <2>8. CASE q.op = "balances"
    <3>1. PICK key \in ScopeKey : key = q.key /\ key \in KeysRead(q)
      BY <2>8 DEF Queries, KeysRead
    <3>2. answer[r] = Mixed(BookAt(entries, k), BookAt(entries, j), key)
      BY <2>6, <2>8, <3>1 DEF Answer
    <3>3. ~Verdicts(r)
      BY <2>2, <2>8 DEF Verdicts
    <3>4. QED BY <2>2, <2>3, <2>7, <3>1, <3>2, <3>3, CleanPrefix
  <2>9. CASE q.op # "balances"
    <3>1. ASSUME NEW i \in DOMAIN answer[r],
                 q.ceilings[i].money # NONE, q.ceilings[i].money.currency = currency,
                 answer[r][i].untotalled_debit_count = 0
          PROVE  /\ answer[r][i].money_spent = Answer(q, BookAfter(entries)[k])[i].money_spent
                 /\ \A e \in PricedAfter(window_for(q.ceilings[i], q.run_id, q.at), currency, k) :
                        Totalled(entries[e].debit.cost)
      <4>1. i \in DOMAIN q.ceilings
        BY <2>6, <2>9, <3>1, AnswerShape
      <4>2. PICK ceiling \in BudgetCeiling, key \in ScopeKey \cap KeysRead(q) :
                ceiling = q.ceilings[i] /\ key = window_for(q.ceilings[i], q.run_id, q.at)
        BY <2>9, <4>1, AnswerShape
      <4>3. PICK delta \in DebitContribution :
                \A c : Answer(q, c)[i] = verdict_over(q.ceilings[i], BalanceIn(c, key), delta)
        BY <2>9, <4>1, <4>2, AnswerShape
      <4>4. PICK mixed \in ScopeBalance, early \in ScopeBalance :
                /\ mixed = Mixed(BookAt(entries, k), BookAt(entries, j), key)
                /\ early = BalanceIn(BookAt(entries, k), key)
        <5>1. BookAt(entries, k) \in Book /\ BookAt(entries, j) \in Book
          <6>1. j \in 0..Len(entries)
            OBVIOUS
          <6>2. \A n \in 0..Len(entries) : BookAt(entries, n) \in Book
            BY <2>3, SoundPrefix, ReferenceType DEF BookAt, ReferenceBook, Book
          <6>3. QED BY <6>1, <6>2
        <5>2. Mixed(BookAt(entries, k), BookAt(entries, j), key) \in ScopeBalance
          BY <5>1, MixedType
        <5>3. QED BY <5>1, <5>2, BalanceInType
      <4>5. answer[r][i] = verdict_over(ceiling, mixed, delta)
        BY <2>6, <4>2, <4>3, <4>4
      <4>6. mixed.untotalled_debit_count = 0
        <5>1. mixed.untotalled_debit_count + Count(delta.untotalled) = 0
          BY <3>1, <4>5 DEF verdict_over
        <5>2. mixed.untotalled_debit_count \in Nat /\ Count(delta.untotalled) \in Nat
          BY DEF ScopeBalance, DebitContribution, Count
        <5>3. QED BY <5>1, <5>2
      <4>7. /\ mixed.nanos_by_currency[currency] = early.nanos_by_currency[currency]
            /\ \A e \in PricedAfter(key, currency, k) : Totalled(entries[e].debit.cost)
        BY <2>3, <2>7, <4>4, <4>6, CleanPrefix
      <4>8. MoneyWith(ceiling, mixed, delta) = MoneyWith(ceiling, early, delta)
        BY <3>1, <4>2, <4>7 DEF MoneyWith
      <4>9. Answer(q, BookAfter(entries)[k])[i] = verdict_over(ceiling, early, delta)
        <5>1. BookAfter(entries)[k] = BookAt(entries, k)
          BY <2>3, BookAfterIsReference DEF BookAt
        <5>2. QED BY <4>2, <4>3, <4>4, <5>1
      <4>10. \A x : verdict_over(ceiling, x, delta).money_spent = MoneyWith(ceiling, x, delta)
        BY DEF verdict_over
      <4>11. QED BY <4>2, <4>5, <4>7, <4>8, <4>9, <4>10
    <3>2. Verdicts(r)
      BY <2>1, <2>2, <2>9 DEF Verdicts
    <3>3. QED BY <2>2, <3>1, <3>2
  <2>10. QED BY <2>8, <2>9
<1>2. QED BY <1>1, PrefixInit, PrefixStep, PTL DEF ReadSpec

-----------------------------------------------------------------------------
(* Callers with a gate: they never cross a cap *)

\* No ceiling would be exceeded if debit d were recorded in book b at an instant.
FitsAt(b, d, at) ==
    \A i \in DOMAIN Ceilings :
        ~prospective_verdicts(Ceilings, b, d.run_id, at, d.usage, d.cost, d.tags)[i].exceeded

NoneExceeded(b) ==
    \A run_id \in Runs, at \in Instants :
        \A i \in DOMAIN Ceilings : ~verdicts(Ceilings, b, run_id, at)[i].exceeded

LaterDaysEmpty(b, today) ==
    \A at \in Instants :
        utc_day_key(at) > utc_day_key(today) => b[<<"per_day", utc_day_key(at)>>] = NONE

GateInv ==
    /\ LedgerInv
    /\ now \in Instants
    /\ plan \in [Callers -> Debits \cup {NONE}]
    /\ \A c \in Callers : plan[c] # NONE => gate = c
    /\ LaterDaysEmpty(book, now)
    /\ lost \in Nat
    /\ lost = 0 => /\ NoneExceeded(book)
                   /\ \A c \in Callers : plan[c] # NONE => FitsAt(book, plan[c], now)

-----------------------------------------------------------------------------
(* A later instant is not in an earlier day (core.py utc_day_key).              *)
LEMMA DayMonotone ==
    ASSUME NEW a \in Nat, NEW b \in Nat, a <= b
    PROVE  utc_day_key(a) \in Nat /\ utc_day_key(b) \in Nat /\ utc_day_key(a) <= utc_day_key(b)
<1>1. TicksPerDay \in Nat \ {0}
  BY DataAssumption
<1>2. utc_day_key(a) \in Nat /\ utc_day_key(b) \in Nat
  BY <1>1 DEF utc_day_key
<1>3. /\ utc_day_key(a) * TicksPerDay <= a
      /\ b < (utc_day_key(b) + 1) * TicksPerDay
  BY <1>1 DEF utc_day_key
<1>4. (utc_day_key(b) + 1) * TicksPerDay <= utc_day_key(a) * TicksPerDay
        => ~(a <= b)
  BY <1>1, <1>2, <1>3
<1>5. QED BY <1>1, <1>2, <1>3, <1>4

(* A debit that fits on top of a balance fits on top of none (core.py           *)
(* _verdict_for only grows with the balance).                                   *)
LEMMA EmptyFits ==
    ASSUME NEW ceiling \in BudgetCeiling, NEW balance \in ScopeBalance,
           NEW delta \in DebitContribution,
           ~verdict_over(ceiling, balance, delta).exceeded
    PROVE  ~verdict_over(ceiling, EMPTY_BALANCE, delta).exceeded
<1>1. /\ ~OverTokens(ceiling, balance.tokens_spent + delta.tokens)
      /\ ~OverMoney(ceiling, MoneyWith(ceiling, balance, delta))
      /\ ~StrictlyUnknown(ceiling, balance.untotalled_debit_count + Count(delta.untotalled))
  BY DEF verdict_over
<1>2. ~OverTokens(ceiling, EMPTY_BALANCE.tokens_spent + delta.tokens)
  BY <1>1 DEF OverTokens, EMPTY_BALANCE, ScopeBalance, DebitContribution, BudgetCeiling
<1>3. ~OverMoney(ceiling, MoneyWith(ceiling, EMPTY_BALANCE, delta))
  <2>1. CASE ceiling.money = NONE
    BY <2>1 DEF OverMoney
  <2>2. CASE ceiling.money # NONE
    <3>1. ceiling.money.currency \in Currencies /\ ceiling.money.nanos \in Nat
      BY <2>2 DEF BudgetCeiling
    <3>2. NoneAsZero(balance.nanos_by_currency[ceiling.money.currency]) \in Nat
      BY <3>1 DEF ScopeBalance, NoneAsZero
    <3>3. EMPTY_BALANCE.nanos_by_currency[ceiling.money.currency] = NONE
      BY <3>1 DEF EMPTY_BALANCE
    <3>4. CASE delta.priced /\ delta.currency = ceiling.money.currency
      <4>1. delta.nanos \in Nat
        BY DEF DebitContribution
      <4>2. MoneyWith(ceiling, EMPTY_BALANCE, delta) = delta.nanos
        BY <2>2, <3>3, <3>4, <4>1 DEF MoneyWith, NoneAsZero
      <4>3. MoneyWith(ceiling, balance, delta)
            = NoneAsZero(balance.nanos_by_currency[ceiling.money.currency]) + delta.nanos
        BY <2>2, <3>4 DEF MoneyWith
      <4>4. QED BY <1>1, <2>2, <3>1, <3>2, <4>1, <4>2, <4>3, NoneIsNoNumber DEF OverMoney
    <3>5. CASE ~(delta.priced /\ delta.currency = ceiling.money.currency)
      BY <2>2, <3>3, <3>5 DEF MoneyWith, OverMoney
    <3>6. QED BY <3>4, <3>5
  <2>3. QED BY <2>1, <2>2
<1>4. ~StrictlyUnknown(ceiling, EMPTY_BALANCE.untotalled_debit_count + Count(delta.untotalled))
  <2>1. Count(delta.untotalled) \in Nat /\ balance.untotalled_debit_count \in Nat
    BY DEF Count, ScopeBalance
  <2>2. EMPTY_BALANCE.untotalled_debit_count = 0
    BY DEF EMPTY_BALANCE
  <2>3. QED BY <1>1, <2>1, <2>2 DEF StrictlyUnknown
<1>5. QED BY <1>2, <1>3, <1>4 DEF verdict_over

\* The verdict a prospective debit gets from one ceiling.
ProspectIn(b, d, at, i) ==
    LET key == window_for(Ceilings[i], d.run_id, at)
    IN  verdict_over(Ceilings[i], BalanceIn(b, key),
                     IF key \in windows_touched(d.run_id, at, d.tags)
                     THEN contribution_of(d.usage, d.cost) ELSE NOTHING)

LEMMA ProspectiveByCeiling ==
    ASSUME NEW b \in Book, NEW d \in Debits, NEW at \in Instants
    PROVE  FitsAt(b, d, at) <=> \A i \in DOMAIN Ceilings : ~ProspectIn(b, d, at, i).exceeded
<1>1. d.usage # NONE
  BY LedgerAssumption, NoneIsNoUsage DEF Debit
<1>2. QED BY <1>1 DEF FitsAt, ProspectIn, prospective_verdicts

(* What fits today still fits later, in days nothing has landed in yet.         *)
LEMMA FitsLater ==
    ASSUME NEW b \in Book, NEW d \in Debits, NEW today \in Instants, NEW at \in Instants,
           today <= at, LaterDaysEmpty(b, today), FitsAt(b, d, today)
    PROVE  FitsAt(b, d, at)
<1>1. ASSUME NEW i \in DOMAIN Ceilings, ~ProspectIn(b, d, today, i).exceeded
      PROVE  ~ProspectIn(b, d, at, i).exceeded
  <2>1. PICK ceiling \in BudgetCeiling : ceiling = Ceilings[i]
    BY ApprovalsAssumption, LedgerAssumption
  <2>2. d.run_id \in Runs /\ d.usage \in TokenUsage /\ d.cost \in CostEstimate \cup {NONE}
    BY LedgerAssumption DEF Debit
  <2>3. ceiling.scope \in CeilingScope
    BY DEF BudgetCeiling
  <2>4. CASE ceiling.scope # "per_day" \/ utc_day_key(at) = utc_day_key(today)
    <3>1. window_for(ceiling, d.run_id, at) = window_for(ceiling, d.run_id, today)
      BY <2>3, <2>4 DEF window_for, CeilingScope
    <3>2. window_for(ceiling, d.run_id, at) \in windows_touched(d.run_id, at, d.tags)
          <=> window_for(ceiling, d.run_id, today) \in windows_touched(d.run_id, today, d.tags)
      BY <2>3, <2>4 DEF window_for, windows_touched, CeilingScope
    <3>3. QED BY <1>1, <2>1, <3>1, <3>2 DEF ProspectIn
  <2>5. CASE ceiling.scope = "per_day" /\ utc_day_key(at) # utc_day_key(today)
    <3>1. /\ window_for(ceiling, d.run_id, at) = <<"per_day", utc_day_key(at)>>
          /\ window_for(ceiling, d.run_id, today) = <<"per_day", utc_day_key(today)>>
      BY <2>5 DEF window_for
    <3>2. utc_day_key(at) > utc_day_key(today)
      BY <2>5, DayMonotone, DataAssumption
    <3>3. BalanceIn(b, <<"per_day", utc_day_key(at)>>) = EMPTY_BALANCE
      BY <3>2 DEF LaterDaysEmpty, BalanceIn
    <3>4. PICK delta \in DebitContribution : delta = contribution_of(d.usage, d.cost)
      BY <2>2, ContributionType
    <3>5. ProspectIn(b, d, at, i) = verdict_over(ceiling, EMPTY_BALANCE, delta)
      BY <2>1, <3>1, <3>3, <3>4 DEF ProspectIn, windows_touched
    <3>6. ProspectIn(b, d, today, i)
          = verdict_over(ceiling, BalanceIn(b, <<"per_day", utc_day_key(today)>>), delta)
      BY <2>1, <3>1, <3>4 DEF ProspectIn, windows_touched
    <3>7. BalanceIn(b, <<"per_day", utc_day_key(today)>>) \in ScopeBalance
      BY EmptyBalanceType DEF BalanceIn, Book, ScopeKey
    <3>8. QED BY <1>1, <3>5, <3>6, <3>7, EmptyFits
  <2>6. QED BY <2>4, <2>5
<1>2. QED BY <1>1, ProspectiveByCeiling

(* A debit that fits leaves no ceiling exceeded once it is recorded.            *)
LEMMA FittingDebitKeepsCaps ==
    ASSUME NEW b \in Book, NEW d \in Debits, NEW today \in Instants,
           NoneExceeded(b), FitsAt(b, d, today)
    PROVE  NoneExceeded(record(b, resolved_debit(d, today)))
<1>1. PICK debit : debit = resolved_debit(d, today)
  OBVIOUS
<1>2. /\ debit \in ResolvedDebit
      /\ debit.run_id = d.run_id /\ debit.usage = d.usage /\ debit.cost = d.cost
      /\ debit.tags = d.tags /\ debit.occurred_at = today
  BY <1>1, ApprovalsAssumption, LedgerAssumption, ResolvedDebitType DEF resolved_debit, Debit
<1>3. Ceilings \in Seq(BudgetCeiling)
  BY ApprovalsAssumption, LedgerAssumption
<1>4. prospective_verdicts(Ceilings, b, debit.run_id, debit.occurred_at,
                           debit.usage, debit.cost, debit.tags)
      = verdicts(Ceilings, record(b, debit), debit.run_id, debit.occurred_at)
  BY <1>2, <1>3, ProspectiveIsRecorded
<1>5. ASSUME NEW run_id \in Runs, NEW at \in Instants, NEW i \in DOMAIN Ceilings
      PROVE  ~verdicts(Ceilings, record(b, debit), run_id, at)[i].exceeded
  <2>1. PICK key : key = window_for(Ceilings[i], run_id, at)
    OBVIOUS
  <2>2. /\ key \in ScopeKey
        /\ Ceilings[i].scope \in CeilingScope
    <3>1. Ceilings[i] \in BudgetCeiling
      BY <1>3
    <3>2. QED BY <2>1, <3>1 DEF window_for, ScopeKey, BudgetCeiling, CeilingScope
  <2>3. CASE key \notin WindowsOf(debit)
    <3>1. BalanceIn(record(b, debit), key) = BalanceIn(b, key)
      BY <2>2, <2>3 DEF record, BalanceIn
    <3>2. verdicts(Ceilings, record(b, debit), run_id, at)[i]
          = verdicts(Ceilings, b, run_id, at)[i]
      BY <2>1, <3>1 DEF verdicts
    <3>3. QED BY <3>2 DEF NoneExceeded
  <2>4. CASE key \in WindowsOf(debit)
    <3>1. key = window_for(Ceilings[i], debit.run_id, debit.occurred_at)
      BY <2>1, <2>2, <2>4 DEF window_for, WindowsOf, windows_touched, CeilingScope
    <3>2. verdicts(Ceilings, record(b, debit), run_id, at)[i]
          = verdicts(Ceilings, record(b, debit), debit.run_id, debit.occurred_at)[i]
      BY <2>1, <3>1 DEF verdicts
    <3>3. QED BY <1>2, <1>4, <3>2 DEF FitsAt
  <2>5. QED BY <2>3, <2>4
<1>6. QED BY <1>1, <1>5 DEF NoneExceeded

-----------------------------------------------------------------------------
(* The steps *)

LEMMA GateInit == ApprovalsInit => GateInv
<1> SUFFICES ASSUME ApprovalsInit PROVE GateInv
  OBVIOUS
<1>1. LedgerInv
  BY LedgerInit DEF ApprovalsInit
<1>2. \A key \in ScopeKey : BalanceIn(book, key) = EMPTY_BALANCE
  BY DEF ApprovalsInit, Init, EmptyBook, BalanceIn
<1>3. LaterDaysEmpty(book, now)
  BY DEF ApprovalsInit, Init, EmptyBook, LaterDaysEmpty, ScopeKey
<1>4. ASSUME NEW run_id \in Runs, NEW at \in Instants, NEW i \in DOMAIN Ceilings
      PROVE  ~verdicts(Ceilings, book, run_id, at)[i].exceeded
  <2>1. PICK ceiling \in BudgetCeiling : ceiling = Ceilings[i]
    BY ApprovalsAssumption, LedgerAssumption
  <2>2. window_for(ceiling, run_id, at) \in ScopeKey
    BY DEF window_for, ScopeKey, BudgetCeiling, CeilingScope
  <2>3. ~OverTokens(ceiling, 0) /\ ~OverMoney(ceiling, NONE) /\ ~StrictlyUnknown(ceiling, 0)
    BY DEF OverTokens, OverMoney, StrictlyUnknown, BudgetCeiling
  <2>4. MoneyWith(ceiling, EMPTY_BALANCE, NOTHING) = NONE
    BY DEF MoneyWith, EMPTY_BALANCE, NOTHING, BudgetCeiling
  <2>5. /\ EMPTY_BALANCE.tokens_spent + NOTHING.tokens = 0
        /\ EMPTY_BALANCE.untotalled_debit_count + Count(NOTHING.untotalled) = 0
    BY DEF EMPTY_BALANCE, NOTHING, Count
  <2>6. ~verdict_over(ceiling, EMPTY_BALANCE, NOTHING).exceeded
    BY <2>3, <2>4, <2>5 DEF verdict_over
  <2>7. QED BY <1>2, <2>1, <2>2, <2>6 DEF verdicts
<1>5. QED BY <1>1, <1>3, <1>4 DEF ApprovalsInit, GateInv, NoneExceeded

(* Recording a debit at the clock's instant lands in no later day.              *)
LEMMA LaterDaysStayEmpty ==
    ASSUME NEW b \in Book, NEW d \in Debits, NEW today \in Instants, LaterDaysEmpty(b, today)
    PROVE  LaterDaysEmpty(record(b, resolved_debit(d, today)), today)
<1>1. PICK debit : debit = resolved_debit(d, today)
  OBVIOUS
<1>2. debit.occurred_at = today
  BY <1>1, ApprovalsAssumption, LedgerAssumption DEF resolved_debit, Debit
<1>3. ASSUME NEW at \in Instants, utc_day_key(at) > utc_day_key(today)
      PROVE  record(b, debit)[<<"per_day", utc_day_key(at)>>] = NONE
  <2>1. utc_day_key(at) # utc_day_key(today)
    BY <1>3, DayMonotone, DataAssumption
  <2>2. <<"per_day", utc_day_key(at)>> \notin WindowsOf(debit)
    BY <1>2, <2>1 DEF WindowsOf, windows_touched
  <2>3. <<"per_day", utc_day_key(at)>> \in ScopeKey
    BY DEF ScopeKey
  <2>4. QED BY <1>3, <2>2, <2>3 DEF record, LaterDaysEmpty
<1>4. QED BY <1>1, <1>3 DEF LaterDaysEmpty

(* A debit of the holder of the gate, whether it then finishes or not.          *)
LEMMA GatedDebit ==
    ASSUME GateInv, NEW c \in Callers, plan[c] # NONE,
           RecordDebit(resolved_debit(plan[c], now), Ceilings)
    PROVE  /\ LedgerInv'
           /\ LaterDaysEmpty(book', now)
           /\ lost = 0 => NoneExceeded(book')
<1>1. PICK d \in Debits, today \in Instants : d = plan[c] /\ today = now
  BY DEF GateInv
<1>2. RecordDebit(resolved_debit(d, today), Ceilings)
  BY <1>1
<1>3. Next
  BY <1>2, ApprovalsAssumption DEF Next
<1>4. LedgerInv'
  BY <1>3, LedgerStep DEF GateInv
<1>5. book \in Book /\ book' = record(book, resolved_debit(d, today))
  BY <1>2 DEF RecordDebit, GateInv, LedgerInv
<1>6. LaterDaysEmpty(book', now)
  BY <1>1, <1>5, LaterDaysStayEmpty DEF GateInv
<1>7. lost = 0 => NoneExceeded(book')
  BY <1>1, <1>5, FittingDebitKeepsCaps DEF GateInv
<1>8. QED BY <1>4, <1>6, <1>7

LEMMA GateStep == serialised /\ GateInv /\ [ApprovalsNext]_approval_vars => GateInv'
<1> SUFFICES ASSUME serialised, GateInv, [ApprovalsNext]_approval_vars PROVE GateInv'
  OBVIOUS
<1>1. CASE Tick
  <2>1. /\ now' \in Instants /\ now' > now
        /\ UNCHANGED <<book, runs, entries, plan, gate, lost>>
    BY <1>1 DEF Tick, vars
  <2>2. PICK today \in Instants, later \in Instants : today = now /\ later = now' /\ today <= later
    BY <2>1, DataAssumption DEF GateInv
  <2>3. ASSUME NEW at \in Instants, utc_day_key(at) > utc_day_key(later)
        PROVE  book[<<"per_day", utc_day_key(at)>>] = NONE
    <3>1. utc_day_key(at) \in Nat /\ utc_day_key(later) \in Nat /\ utc_day_key(today) \in Nat
          /\ utc_day_key(today) <= utc_day_key(later)
      BY <2>2, DayMonotone, DataAssumption
    <3>2. utc_day_key(at) > utc_day_key(today)
      BY <2>3, <3>1
    <3>3. QED BY <2>2, <3>2 DEF GateInv, LaterDaysEmpty
  <2>4. ASSUME NEW c \in Callers, lost = 0, plan[c] # NONE PROVE FitsAt(book, plan[c], later)
    <3>1. PICK d \in Debits : d = plan[c]
      BY <2>4 DEF GateInv
    <3>2. FitsAt(book, d, today) /\ LaterDaysEmpty(book, today) /\ book \in Book
      BY <2>2, <2>4, <3>1 DEF GateInv, LedgerInv
    <3>3. QED BY <2>2, <3>1, <3>2, FitsLater
  <2>5. LedgerInv'
    BY <2>1, LedgerStep DEF GateInv, vars
  <2>6. LaterDaysEmpty(book', now')
    BY <2>1, <2>2, <2>3 DEF LaterDaysEmpty
  <2>7. \A c \in Callers : lost' = 0 /\ plan'[c] # NONE => FitsAt(book', plan'[c], now')
    BY <2>1, <2>2, <2>4
  <2>8. lost' = 0 => NoneExceeded(book')
    BY <2>1 DEF GateInv
  <2>9. QED BY <2>1, <2>5, <2>6, <2>7, <2>8 DEF GateInv
<1>2. CASE Declare
  <2>1. PICK run_id \in Runs : DeclareRun(run_id)
    BY <1>2 DEF Declare
  <2>2. LedgerInv'
    BY <2>1, LedgerStep DEF GateInv, Next
  <2>3. UNCHANGED <<book, now, plan, gate, lost>>
    BY <1>2 DEF Declare, DeclareRun
  <2>4. QED BY <2>2, <2>3 DEF GateInv
<1>3. ASSUME NEW c \in Callers, Approve(c) PROVE GateInv'
  <2>1. PICK d \in Debits : WouldFit(d) /\ plan' = [plan EXCEPT ![c] = d]
    BY <1>3 DEF Approve
  <2>2. /\ gate = NONE /\ gate' = c
        /\ UNCHANGED <<book, runs, entries, now, lost>>
    BY <1>3 DEF Approve, vars
  <2>3. FitsAt(book, d, now)
    BY <2>1 DEF WouldFit, FitsAt
  <2>4. \A other \in Callers : plan[other] = NONE
    BY <2>2, ApprovalsAssumption DEF GateInv
  <2>5. LedgerInv'
    BY <2>2, LedgerStep DEF GateInv, vars
  <2>6. \A other \in Callers : plan'[other] # NONE => other = c /\ plan'[other] = d
    BY <2>1, <2>4 DEF GateInv
  <2>7. plan' \in [Callers -> Debits \cup {NONE}]
    BY <2>1 DEF GateInv
  <2>8. \A other \in Callers : plan'[other] # NONE => FitsAt(book', plan'[other], now')
    BY <2>2, <2>3, <2>6
  <2>9. LaterDaysEmpty(book', now') /\ (lost' = 0 => NoneExceeded(book'))
    BY <2>2 DEF GateInv
  <2>10. QED BY <2>2, <2>5, <2>6, <2>7, <2>8, <2>9 DEF GateInv
<1>4. ASSUME NEW c \in Callers, Finish(c), plan[c] # NONE, UNCHANGED <<now, lost>>,
             LedgerInv', LaterDaysEmpty(book', now), lost = 0 => NoneExceeded(book')
      PROVE  GateInv'
  <2>1. \A other \in Callers : plan'[other] = NONE
    BY <1>4 DEF Finish, GateInv
  <2>2. plan' \in [Callers -> Debits \cup {NONE}]
    BY <1>4 DEF Finish, GateInv
  <2>3. QED BY <1>4, <2>1, <2>2 DEF GateInv
<1>5. ASSUME NEW c \in Callers, Spend(c) PROVE GateInv'
  BY <1>4, <1>5, GatedDebit DEF Spend
<1>6. ASSUME NEW c \in Callers, SpendUnnoticed(c) PROVE GateInv'
  <2>1. LedgerInv' /\ LaterDaysEmpty(book', now)
    BY <1>6, GatedDebit DEF SpendUnnoticed
  <2>2. UNCHANGED <<now, plan, gate>> /\ lost' = lost + 1
    BY <1>6 DEF SpendUnnoticed
  <2>3. QED BY <2>1, <2>2 DEF GateInv
<1>7. ASSUME NEW c \in Callers, Abandon(c) PROVE GateInv'
  <2>1. LedgerInv' /\ book' = book
    BY <1>7, LedgerStep DEF Abandon, GateInv, vars
  <2>2. QED BY <1>4, <1>7, <2>1 DEF Abandon, GateInv
<1>8. CASE UNCHANGED approval_vars
  <2>1. LedgerInv'
    BY <1>8, LedgerStep DEF approval_vars, GateInv
  <2>2. UNCHANGED <<book, now, plan, gate, lost>>
    BY <1>8 DEF approval_vars, vars
  <2>3. QED BY <2>1, <2>2 DEF GateInv
<1>9. QED BY <1>1, <1>2, <1>3, <1>5, <1>6, <1>7, <1>8 DEF ApprovalsNext

(* Whether callers share a gate never changes. *)
LEMMA GateStaysShared == [ApprovalsNext]_approval_vars => serialised' = serialised
BY DEF ApprovalsNext, Tick, Declare, Approve, Spend, SpendUnnoticed, Abandon, approval_vars

(* Callers behind a gate never cross a cap in any run, day or tag, while every *)
(* caller learns how its commits ended (sql.py, "a caller that must not cross  *)
(* a cap under concurrency serializes its own approvals").                     *)
THEOREM SerialisedCallersKeepCaps == ApprovalsSpec => []CapsHold
<1> DEFINE Inv == serialised => GateInv
<1>1. ApprovalsInit => Inv
  BY GateInit
<1>2. Inv /\ [ApprovalsNext]_approval_vars => Inv'
  BY GateStep, GateStaysShared
<1>3. Inv => CapsHold
  BY DEF GateInv, CapsHold, NoneExceeded
<1>4. QED BY <1>1, <1>2, <1>3, PTL DEF ApprovalsSpec

-----------------------------------------------------------------------------
(* Overshoot.  What a window of a capped quantity holds, what one pending       *)
(* debit will add, and at most the largest debit for each other pending one     *)
(* stay within the cap and the debits nobody saw.                               *)

\* held: what the window holds; P: those with a debit pending in it, adds: what each
\* will add, none more than most.
Within(held, P, adds, most, limit) ==
    IF P = {} THEN held <= limit
    ELSE \E c \in P : held + adds[c] + (Cardinality(P) - 1) * most <= limit

(* Products of natural numbers, as far as they are needed. *)
LEMMA Products ==
    ASSUME NEW m \in Nat
    PROVE  /\ \A n \in Nat : n * m \in Nat
           /\ \A n \in Nat : (n + 1) * m = n * m + m
           /\ \A k, n \in Nat : k <= n => k * m <= n * m
           /\ 0 * m = 0
<1>1. \A n \in Nat : n * m \in Nat
  OBVIOUS
<1>2. \A n \in Nat : (n + 1) * m = n * m + m
  OBVIOUS
<1>3. ASSUME NEW k \in Nat, NEW n \in Nat, k <= n PROVE k * m <= n * m
  <2>1. PICK j \in Nat : n = k + j
    <3>1. n - k \in Nat /\ n = k + (n - k)
      BY <1>3
    <3>2. QED BY <3>1
  <2>2. n * m = k * m + j * m
    BY <2>1
  <2>3. QED BY <1>1, <2>1, <2>2
<1>4. QED BY <1>1, <1>2, <1>3

(* A nonempty finite set has a number of members less one. *)
LEMMA OneLess ==
    ASSUME NEW P, IsFiniteSet(P), NEW c \in P
    PROVE  /\ Cardinality(P) - 1 \in Nat
           /\ Cardinality(P \ {c}) = Cardinality(P) - 1
           /\ P \ {c} # {} => Cardinality(P) - 2 \in Nat
<1>1. Cardinality(P) \in Nat /\ Cardinality(P \ {c}) \in Nat
  BY FS_CardinalityType, FS_RemoveElement
<1>2. Cardinality(P \ {c}) = Cardinality(P) - 1
  BY FS_RemoveElement
<1>3. P \ {c} # {} => Cardinality(P \ {c}) # 0
  BY FS_RemoveElement, FS_EmptySet
<1>4. QED BY <1>1, <1>2, <1>3

(* A debit that is pending lands: it is held instead, and may still be pending  *)
(* when nobody learnt that it landed.                                           *)
LEMMA WithinLands ==
    ASSUME NEW held \in Nat, NEW P, IsFiniteSet(P), NEW most \in Nat, NEW limit \in Nat,
           NEW adds, \A c \in P : adds[c] \in Nat /\ adds[c] <= most,
           Within(held, P, adds, most, limit),
           NEW c \in P
    PROVE  /\ Within(held + adds[c], P \ {c}, adds, most, limit)
           /\ Within(held + adds[c], P, adds, most, limit + most)
<1>1. PICK w \in P : held + adds[w] + (Cardinality(P) - 1) * most <= limit
  BY DEF Within
<1>2. PICK n \in Nat : n = Cardinality(P) - 1 /\ Cardinality(P \ {c}) = n
  BY OneLess
<1>3. PICK all \in Nat : all = n * most
  BY Products
<1>4. adds[c] \in Nat /\ adds[w] \in Nat /\ adds[c] <= most /\ adds[w] <= most
  OBVIOUS
<1>5. held + adds[w] + all <= limit
  BY <1>1, <1>2, <1>3
<1>6. Within(held + adds[c], P, adds, most, limit + most)
  <2>1. held + adds[c] + adds[w] + all <= limit + most
    BY <1>3, <1>4, <1>5
  <2>2. QED BY <1>2, <1>3, <2>1 DEF Within
<1>7. Within(held + adds[c], P \ {c}, adds, most, limit)
  <2>1. CASE P \ {c} = {}
    <3>1. w = c
      BY <2>1
    <3>2. held + adds[c] <= limit
      BY <1>3, <1>4, <1>5, <3>1
    <3>3. QED BY <2>1, <3>2 DEF Within
  <2>2. CASE P \ {c} # {}
    <3>1. PICK v \in P \ {c} : w # c => v = w
      BY <2>2
    <3>2. PICK k \in Nat : k + 1 = n
      <4>1. PICK size \in Nat : size = Cardinality(P)
        BY FS_CardinalityType
      <4>2. Cardinality(P) - 2 \in Nat
        BY <2>2, OneLess
      <4>3. size - 2 \in Nat /\ n = size - 1
        BY <1>2, <4>1, <4>2
      <4>4. QED BY <4>3
    <3>3. PICK rest \in Nat : rest = k * most /\ all = rest + most
      BY <1>3, <3>2, Products
    <3>4. Cardinality(P \ {c}) - 1 = k
      BY <1>2, <3>2
    <3>5. adds[v] \in Nat /\ adds[v] <= most
      BY <3>1
    <3>6. held + adds[c] + adds[v] + rest <= limit
      <4>1. CASE w = c
        BY <1>3, <1>4, <1>5, <3>3, <3>5, <4>1
      <4>2. CASE w # c
        BY <1>3, <1>4, <1>5, <3>1, <3>3, <3>5, <4>2
      <4>3. QED BY <4>1, <4>2
    <3>7. QED BY <2>2, <3>3, <3>4, <3>6 DEF Within
  <2>3. QED BY <2>1, <2>2
<1>8. QED BY <1>6, <1>7

(* Less held, or a higher limit, is within it all the more. *)
LEMMA WithinLess ==
    ASSUME NEW held \in Nat, NEW less \in Nat, less <= held,
           NEW limit \in Nat, NEW more \in Nat, limit <= more,
           NEW P, IsFiniteSet(P), NEW most \in Nat,
           NEW adds, \A c \in P : adds[c] \in Nat,
           Within(held, P, adds, most, limit)
    PROVE  /\ Within(less, P, adds, most, more)
           /\ held <= limit
<1>1. CASE P = {}
  BY <1>1 DEF Within
<1>2. CASE P # {}
  <2>1. PICK w \in P : held + adds[w] + (Cardinality(P) - 1) * most <= limit
    BY <1>2 DEF Within
  <2>2. Cardinality(P) - 1 \in Nat
    BY <2>1, OneLess
  <2>3. PICK all \in Nat : all = (Cardinality(P) - 1) * most
    BY <2>2, Products
  <2>4. adds[w] \in Nat
    OBVIOUS
  <2>5. less + adds[w] + all <= more /\ held <= limit
    BY <2>1, <2>3, <2>4
  <2>6. QED BY <1>2, <2>3, <2>5 DEF Within
<1>3. QED BY <1>1, <1>2

(* A debit that fits under the cap is pending with at most n others.            *)
LEMMA WithinEnters ==
    ASSUME NEW held \in Nat, NEW P, IsFiniteSet(P), NEW most \in Nat, NEW cap \in Nat,
           NEW n \in Nat, Cardinality(P) <= n + 1,
           NEW adds, NEW c \in P, adds[c] \in Nat, held + adds[c] <= cap
    PROVE  Within(held, P, adds, most, cap + n * most)
<1>1. PICK k \in Nat : k = Cardinality(P) - 1 /\ k <= n
  <2>1. PICK size \in Nat : size = Cardinality(P)
    BY FS_CardinalityType
  <2>2. Cardinality(P) - 1 \in Nat
    BY OneLess
  <2>3. size - 1 \in Nat /\ size - 1 <= n
    BY <2>1, <2>2
  <2>4. QED BY <2>1, <2>3
<1>2. k * most <= n * most /\ k * most \in Nat /\ n * most \in Nat
  BY <1>1, Products
<1>3. held + adds[c] + k * most <= cap + n * most
  <2>1. PICK x \in Nat, y \in Nat : x = k * most /\ y = n * most /\ x <= y
    BY <1>2
  <2>2. QED BY <2>1
<1>4. QED BY <1>1, <1>3 DEF Within

\* What ceilings limit: tokens (NONE), or money in one currency.
Units == Currencies \cup {NONE}

Held(b, key, unit) ==
    IF unit = NONE THEN BalanceIn(b, key).tokens_spent
    ELSE NoneAsZero(BalanceIn(b, key).nanos_by_currency[unit])

Adds(d, unit) ==
    LET delta == contribution_of(d.usage, d.cost)
    IN  IF unit = NONE THEN delta.tokens
        ELSE IF delta.priced /\ delta.currency = unit THEN delta.nanos ELSE 0

Most(unit) == IF unit = NONE THEN MostTokens ELSE MostNanos

Capped(ceiling, unit) ==
    IF unit = NONE THEN ceiling.tokens # NONE
    ELSE ceiling.money # NONE /\ ceiling.money.currency = unit

CapIn(ceiling, unit) == IF unit = NONE THEN ceiling.tokens ELSE ceiling.money.nanos

Touches(d, at, key) == key \in windows_touched(d.run_id, at, d.tags)

Reads(ceiling, key) ==
    key \in ScopeKey /\ \E run_id \in Runs, at \in Instants : key = window_for(ceiling, run_id, at)

Pending(p, at, key) == {c \in Callers : p[c] # NONE /\ Touches(p[c], at, key)}

Adding(p, unit) == [c \in Callers |-> IF p[c] = NONE THEN 0 ELSE Adds(p[c], unit)]

Bounded(b, p, at, n) ==
    \A i \in DOMAIN Ceilings, key \in ScopeKey, unit \in Units :
        Reads(Ceilings[i], key) /\ Capped(Ceilings[i], unit) =>
            Within(Held(b, key, unit), Pending(p, at, key), Adding(p, unit), Most(unit),
                   CapIn(Ceilings[i], unit) + n * Most(unit))

StrictlyComplete(b) ==
    \A i \in DOMAIN Ceilings, key \in ScopeKey :
        Reads(Ceilings[i], key) /\ Ceilings[i].partial_pricing = "strict" =>
            BalanceIn(b, key).untotalled_debit_count = 0

OvershootInv ==
    /\ LedgerInv
    /\ serialised \in BOOLEAN
    /\ now \in Instants
    /\ plan \in [Callers -> Debits \cup {NONE}]
    /\ lost \in Nat
    /\ serialised => \A c \in Callers : plan[c] # NONE => gate = c
    /\ LaterDaysEmpty(book, now)
    /\ \A c \in Callers : plan[c] # NONE => FitsAt(EmptyBook, plan[c], now)
    /\ Bounded(book, plan, now, Unseen)
    /\ StrictlyComplete(book)

(* No debit adds more than the most of any debit. *)
LEMMA MostBounds ==
    ASSUME NEW unit \in Units
    PROVE  /\ Most(unit) \in Nat
           /\ \A d \in Debits : Adds(d, unit) \in Nat /\ Adds(d, unit) <= Most(unit)
<1>1. \A d \in Debits : contribution_of(d.usage, d.cost) \in DebitContribution
  BY LedgerAssumption, ContributionType DEF Debit
<1>2. \A d \in Debits : /\ SumOfReported(d.usage) \in Nat
                        /\ contribution_of(d.usage, d.cost).tokens = SumOfReported(d.usage)
                        /\ contribution_of(d.usage, d.cost).nanos \in Nat
  BY <1>1 DEF contribution_of, DebitContribution
<1>3. MostTokens \in Nat /\ \A d \in Debits : SumOfReported(d.usage) <= MostTokens
  <2>1. TokensOfDebits \subseteq Nat /\ \A d \in Debits : SumOfReported(d.usage) \in TokensOfDebits
    BY <1>2 DEF TokensOfDebits
  <2>2. /\ {0} \cup TokensOfDebits \subseteq Nat /\ {0} \cup TokensOfDebits # {}
        /\ IsFiniteSet({0} \cup TokensOfDebits)
    BY <2>1, AmountsAreBounded, FS_AddElement
  <2>3. Max({0} \cup TokensOfDebits) \in Nat
        /\ \A n \in TokensOfDebits : n <= Max({0} \cup TokensOfDebits)
    BY <2>2, MaxBounds
  <2>4. QED BY <2>1, <2>3 DEF MostTokens
<1>4. /\ MostNanos \in Nat
      /\ \A d \in Debits : contribution_of(d.usage, d.cost).nanos <= MostNanos
  <2>1. /\ NanosOfDebits \subseteq Nat
        /\ \A d \in Debits : contribution_of(d.usage, d.cost).nanos \in NanosOfDebits
    BY <1>2 DEF NanosOfDebits
  <2>2. /\ {0} \cup NanosOfDebits \subseteq Nat /\ {0} \cup NanosOfDebits # {}
        /\ IsFiniteSet({0} \cup NanosOfDebits)
    BY <2>1, AmountsAreBounded, FS_AddElement
  <2>3. Max({0} \cup NanosOfDebits) \in Nat
        /\ \A n \in NanosOfDebits : n <= Max({0} \cup NanosOfDebits)
    BY <2>2, MaxBounds
  <2>4. QED BY <2>1, <2>3 DEF MostNanos
<1>5. \A d \in Debits : Adds(d, unit) \in Nat /\ Adds(d, unit) <= Most(unit)
  BY <1>2, <1>3, <1>4 DEF Adds, Most
<1>6. QED BY <1>3, <1>4, <1>5 DEF Most

(* A window holds an amount, which a debit that touches it raises by what it    *)
(* adds (core.py record).                                                       *)
LEMMA HeldStep ==
    ASSUME NEW b \in Book, NEW key \in ScopeKey, NEW unit \in Units,
           NEW d \in Debits, NEW at \in Instants
    PROVE  LET after == record(b, resolved_debit(d, at))
               delta == contribution_of(d.usage, d.cost)
           IN  /\ Held(b, key, unit) \in Nat
               /\ BalanceIn(b, key).untotalled_debit_count \in Nat
               /\ ~Touches(d, at, key) => BalanceIn(after, key) = BalanceIn(b, key)
               /\ Touches(d, at, key) =>
                    /\ Held(after, key, unit) = Held(b, key, unit) + Adds(d, unit)
                    /\ BalanceIn(after, key).untotalled_debit_count
                        = BalanceIn(b, key).untotalled_debit_count + Count(delta.untotalled)
<1>1. PICK debit : debit = resolved_debit(d, at)
  OBVIOUS
<1>2. /\ debit.usage = d.usage /\ debit.cost = d.cost
      /\ debit.run_id = d.run_id /\ debit.tags = d.tags /\ debit.occurred_at = at
  BY <1>1, ApprovalsAssumption, LedgerAssumption DEF resolved_debit, Debit
<1>3. PICK delta \in DebitContribution : delta = contribution_of(d.usage, d.cost)
  BY LedgerAssumption, ContributionType DEF Debit
<1>4. PICK balance \in ScopeBalance : balance = BalanceIn(b, key)
  BY EmptyBalanceType DEF BalanceIn, Book
<1>5. Touches(d, at, key) <=> key \in WindowsOf(debit)
  BY <1>2 DEF Touches, WindowsOf
<1>6. /\ key \in WindowsOf(debit) =>
            BalanceIn(record(b, debit), key) = Accumulate(balance, delta)
      /\ key \notin WindowsOf(debit) => BalanceIn(record(b, debit), key) = balance
  <2>1. Accumulate(balance, delta) # NONE
    BY AccumulateType, NoneIsNoBalance
  <2>2. key \in WindowsOf(debit) => record(b, debit)[key] = Accumulate(balance, delta)
    BY <1>2, <1>3, <1>4 DEF record
  <2>3. key \notin WindowsOf(debit) => record(b, debit)[key] = b[key]
    BY DEF record
  <2>4. QED BY <1>4, <2>1, <2>2, <2>3 DEF BalanceIn
<1>7. Held(b, key, unit) \in Nat /\ balance.untotalled_debit_count \in Nat
  BY <1>4 DEF Held, NoneAsZero, ScopeBalance, Units
<1>8. /\ Accumulate(balance, delta).tokens_spent = balance.tokens_spent + delta.tokens
      /\ Accumulate(balance, delta).untotalled_debit_count
            = balance.untotalled_debit_count + Count(delta.untotalled)
      /\ unit # NONE =>
            NoneAsZero(Accumulate(balance, delta).nanos_by_currency[unit])
                = NoneAsZero(balance.nanos_by_currency[unit])
                    + IF delta.priced /\ delta.currency = unit THEN delta.nanos ELSE 0
  <2>1. /\ Accumulate(balance, delta).tokens_spent = balance.tokens_spent + delta.tokens
        /\ Accumulate(balance, delta).untotalled_debit_count
            = balance.untotalled_debit_count + Count(delta.untotalled)
    BY DEF Accumulate
  <2>2. ASSUME unit # NONE
        PROVE  NoneAsZero(Accumulate(balance, delta).nanos_by_currency[unit])
                = NoneAsZero(balance.nanos_by_currency[unit])
                    + IF delta.priced /\ delta.currency = unit THEN delta.nanos ELSE 0
    <3>1. PICK m \in Nat : m = NoneAsZero(balance.nanos_by_currency[unit])
      BY <2>2 DEF ScopeBalance, NoneAsZero, Units
    <3>2. delta.nanos \in Nat
      BY DEF DebitContribution
    <3>3. Accumulate(balance, delta).nanos_by_currency[unit]
            = IF delta.priced /\ delta.currency = unit THEN m + delta.nanos
              ELSE balance.nanos_by_currency[unit]
      BY <2>2, <3>1 DEF Accumulate, Units
    <3>4. CASE delta.priced /\ delta.currency = unit
      BY <3>1, <3>2, <3>3, <3>4, NoneIsNoNumber DEF NoneAsZero
    <3>5. CASE ~(delta.priced /\ delta.currency = unit)
      BY <3>1, <3>3, <3>5
    <3>6. QED BY <3>4, <3>5
  <2>3. QED BY <2>1, <2>2
<1>9. QED BY <1>1, <1>3, <1>4, <1>5, <1>6, <1>7, <1>8 DEF Held, Adds

(* The window of a debit that a ceiling reads is the one it is judged over.     *)
LEMMA ReadIsJudged ==
    ASSUME NEW i \in DOMAIN Ceilings, NEW key, Reads(Ceilings[i], key),
           NEW d \in Debits, NEW at \in Instants, Touches(d, at, key)
    PROVE  /\ Ceilings[i] \in BudgetCeiling
           /\ key = window_for(Ceilings[i], d.run_id, at)
<1>1. Ceilings[i] \in BudgetCeiling
  BY ApprovalsAssumption, LedgerAssumption
<1>2. Ceilings[i].scope \in CeilingScope
  BY <1>1 DEF BudgetCeiling
<1>3. QED BY <1>1, <1>2 DEF Reads, Touches, window_for, windows_touched, CeilingScope

(* A debit that fits stays under every cap it is judged by, and a strict        *)
(* ceiling lets neither it nor the window have an estimate that does not total. *)
LEMMA FitIsUnder ==
    ASSUME NEW b \in Book, NEW d \in Debits, NEW at \in Instants, FitsAt(b, d, at),
           NEW i \in DOMAIN Ceilings, NEW key, Reads(Ceilings[i], key), Touches(d, at, key)
    PROVE  /\ \A unit \in Units :
                Capped(Ceilings[i], unit) =>
                    /\ CapIn(Ceilings[i], unit) \in Nat
                    /\ Held(b, key, unit) + Adds(d, unit) <= CapIn(Ceilings[i], unit)
           /\ Ceilings[i].partial_pricing = "strict" =>
                Count(contribution_of(d.usage, d.cost).untotalled) = 0
<1>1. PICK ceiling \in BudgetCeiling : ceiling = Ceilings[i]
  BY ReadIsJudged
<1>2. PICK delta \in DebitContribution : delta = contribution_of(d.usage, d.cost)
  BY LedgerAssumption, ContributionType DEF Debit
<1>3. PICK balance \in ScopeBalance : balance = BalanceIn(b, key)
  BY EmptyBalanceType DEF BalanceIn, Book, Reads
<1>4. ~verdict_over(ceiling, balance, delta).exceeded
  <2>1. ~ProspectIn(b, d, at, i).exceeded
    BY ProspectiveByCeiling
  <2>2. key = window_for(Ceilings[i], d.run_id, at)
    BY ReadIsJudged
  <2>3. QED BY <1>1, <1>2, <1>3, <2>1, <2>2 DEF ProspectIn, Touches
<1>5. /\ ~OverTokens(ceiling, balance.tokens_spent + delta.tokens)
      /\ ~OverMoney(ceiling, MoneyWith(ceiling, balance, delta))
      /\ ~StrictlyUnknown(ceiling, balance.untotalled_debit_count + Count(delta.untotalled))
  BY <1>4 DEF verdict_over
<1>6. ceiling.partial_pricing = "strict" => Count(delta.untotalled) = 0
  <2>1. balance.untotalled_debit_count \in Nat /\ Count(delta.untotalled) \in Nat
    BY DEF ScopeBalance, Count
  <2>2. QED BY <1>5, <2>1 DEF StrictlyUnknown, BudgetCeiling
<1>7. ASSUME NEW unit \in Units, Capped(ceiling, unit)
      PROVE  /\ CapIn(ceiling, unit) \in Nat
             /\ Held(b, key, unit) + Adds(d, unit) <= CapIn(ceiling, unit)
  <2>1. CASE unit = NONE
    <3>1. balance.tokens_spent + delta.tokens <= ceiling.tokens /\ ceiling.tokens \in Nat
      BY <1>5, <1>7, <2>1 DEF OverTokens, Capped, BudgetCeiling, ScopeBalance, DebitContribution
    <3>2. QED BY <1>2, <1>3, <2>1, <3>1 DEF Held, Adds, CapIn
  <2>2. CASE unit # NONE
    <3>1. /\ ceiling.money # NONE /\ ceiling.money.currency = unit
          /\ ceiling.money.nanos \in Nat /\ unit \in Currencies
      BY <1>7, <2>2 DEF Capped, BudgetCeiling, Units
    <3>2. PICK nanos : nanos = balance.nanos_by_currency[unit] /\ nanos \in Nat \cup {NONE}
      BY <3>1 DEF ScopeBalance
    <3>3. delta.nanos \in Nat /\ NoneAsZero(nanos) \in Nat
      BY <3>2 DEF DebitContribution, NoneAsZero
    <3>4. CASE delta.priced /\ delta.currency = unit
      <4>1. MoneyWith(ceiling, balance, delta) = NoneAsZero(nanos) + delta.nanos
        BY <3>1, <3>2, <3>4 DEF MoneyWith
      <4>2. PICK spent \in Nat : spent = NoneAsZero(nanos) + delta.nanos
        BY <3>3
      <4>3. spent <= ceiling.money.nanos
        BY <1>5, <3>1, <4>1, <4>2, NoneIsNoNumber DEF OverMoney
      <4>4. QED BY <1>2, <1>3, <2>2, <3>1, <3>2, <3>4, <4>2, <4>3 DEF Held, Adds, CapIn
    <3>5. CASE ~(delta.priced /\ delta.currency = unit)
      <4>1. MoneyWith(ceiling, balance, delta) = nanos
        BY <3>1, <3>2, <3>5 DEF MoneyWith
      <4>2. NoneAsZero(nanos) <= ceiling.money.nanos
        BY <1>5, <3>1, <3>2, <4>1 DEF OverMoney, NoneAsZero
      <4>3. Adds(d, unit) = 0 /\ Held(b, key, unit) = NoneAsZero(nanos)
        BY <1>2, <1>3, <2>2, <3>2, <3>5 DEF Held, Adds
      <4>4. NoneAsZero(nanos) + 0 <= ceiling.money.nanos
        BY <3>3, <4>2
      <4>5. QED BY <2>2, <3>1, <4>3, <4>4 DEF CapIn
    <3>6. QED BY <3>4, <3>5
  <2>3. QED BY <2>1, <2>2
<1>8. QED BY <1>1, <1>2, <1>6, <1>7

\* Debits approved without seeing each other, as far as the gate lets them.
Slots(behind_gate) == IF behind_gate THEN 0 ELSE Cardinality(Callers) - 1

Plans == [Callers -> Debits \cup {NONE}]

(* No more debits are pending in a window than the gate lets through.           *)
LEMMA Crowd ==
    ASSUME NEW p \in Plans, NEW behind_gate \in BOOLEAN, NEW holder, NEW n \in Nat,
           behind_gate => \A c \in Callers : p[c] # NONE => holder = c,
           NEW at, NEW key
    PROVE  /\ Slots(behind_gate) \in Nat
           /\ IsFiniteSet(Pending(p, at, key))
           /\ Cardinality(Pending(p, at, key)) <= (Slots(behind_gate) + n) + 1
<1>1. PICK P : P = Pending(p, at, key)
  OBVIOUS
<1>2. P \subseteq Callers /\ \A c \in P : p[c] # NONE
  BY <1>1 DEF Pending
<1>3. IsFiniteSet(P) /\ Cardinality(P) \in Nat
  BY <1>2, ApprovalsAssumption, FS_Subset, FS_CardinalityType
<1>4. PICK c \in Callers : TRUE
  BY ApprovalsAssumption
<1>5. PICK all \in Nat : all = Cardinality(Callers) /\ all - 1 \in Nat
  BY ApprovalsAssumption, OneLess, FS_CardinalityType
<1>6. PICK size \in Nat : size = Cardinality(P)
  BY <1>3
<1>7. CASE behind_gate
  <2>1. P \subseteq {holder}
    BY <1>2, <1>7
  <2>2. Cardinality(P) <= Cardinality({holder}) /\ Cardinality({holder}) = 1
    BY <2>1, FS_Singleton, FS_Subset
  <2>3. size <= 1
    BY <1>6, <2>2
  <2>4. QED BY <1>1, <1>3, <1>6, <1>7, <2>3 DEF Slots
<1>8. CASE ~behind_gate
  <2>1. Cardinality(P) <= Cardinality(Callers)
    BY <1>2, ApprovalsAssumption, FS_Subset
  <2>2. size <= all
    BY <1>5, <1>6, <2>1
  <2>3. QED BY <1>1, <1>3, <1>5, <1>6, <1>8, <2>2 DEF Slots
<1>9. QED BY <1>7, <1>8

(* Each pending debit adds an amount, at most the most of any debit.            *)
LEMMA AddingBounds ==
    ASSUME NEW p \in Plans, NEW unit \in Units
    PROVE  /\ Most(unit) \in Nat
           /\ \A c \in Callers : /\ Adding(p, unit)[c] \in Nat
                                 /\ Adding(p, unit)[c] <= Most(unit)
                                 /\ p[c] # NONE => Adding(p, unit)[c] = Adds(p[c], unit)
           /\ \A at, key : /\ Pending(p, at, key) \subseteq Callers
                           /\ IsFiniteSet(Pending(p, at, key))
<1>1. Most(unit) \in Nat /\ 0 <= Most(unit)
  BY MostBounds
<1>2. ASSUME NEW c \in Callers
      PROVE  /\ Adding(p, unit)[c] \in Nat
             /\ Adding(p, unit)[c] <= Most(unit)
             /\ p[c] # NONE => Adding(p, unit)[c] = Adds(p[c], unit)
  <2>1. CASE p[c] = NONE
    BY <1>1, <2>1 DEF Adding
  <2>2. CASE p[c] # NONE
    <3>1. PICK d \in Debits : d = p[c]
      BY <2>2 DEF Plans
    <3>2. QED BY <2>2, <3>1, MostBounds DEF Adding
  <2>3. QED BY <2>1, <2>2
<1>3. \A at, key : Pending(p, at, key) \subseteq Callers
  BY DEF Pending
<1>4. QED BY <1>1, <1>2, <1>3, ApprovalsAssumption, FS_Subset

(* A cap is an amount, and so is what it may be overshot to.                    *)
LEMMA LimitType ==
    ASSUME NEW i \in DOMAIN Ceilings, NEW unit \in Units, Capped(Ceilings[i], unit),
           NEW n \in Nat
    PROVE  /\ CapIn(Ceilings[i], unit) \in Nat
           /\ CapIn(Ceilings[i], unit) + n * Most(unit) \in Nat
           /\ CapIn(Ceilings[i], unit) + (n + 1) * Most(unit)
                = (CapIn(Ceilings[i], unit) + n * Most(unit)) + Most(unit)
<1>1. Ceilings[i] \in BudgetCeiling
  BY ApprovalsAssumption, LedgerAssumption
<1>2. PICK cap \in Nat : cap = CapIn(Ceilings[i], unit)
  BY <1>1 DEF Capped, CapIn, BudgetCeiling
<1>3. PICK most \in Nat : most = Most(unit)
  BY MostBounds
<1>4. n * most \in Nat /\ (n + 1) * most = n * most + most
  BY <1>3, Products
<1>5. PICK all \in Nat : all = n * most
  BY <1>4
<1>6. QED BY <1>2, <1>3, <1>4, <1>5

(* Only what the pending debits add matters. *)
LEMMA WithinCong ==
    ASSUME NEW held, NEW P, NEW most, NEW limit, NEW adds, NEW same,
           \A c \in P : adds[c] = same[c],
           Within(held, P, adds, most, limit)
    PROVE  Within(held, P, same, most, limit)
<1>1. CASE P = {}
  BY <1>1 DEF Within
<1>2. CASE P # {}
  BY <1>2 DEF Within
<1>3. QED BY <1>1, <1>2

(* A debit that lands moves from what is pending to what is held; when nobody   *)
(* learnt that it landed, it stays pending and one more debit is unseen.        *)
LEMMA DebitStaysBounded ==
    ASSUME NEW b \in Book, NEW p \in Plans, NEW at \in Instants, NEW n \in Nat,
           Bounded(b, p, at, n), NEW c \in Callers, p[c] # NONE
    PROVE  LET after == record(b, resolved_debit(p[c], at))
           IN  /\ Bounded(after, [p EXCEPT ![c] = NONE], at, n)
               /\ Bounded(after, p, at, n + 1)
<1>1. PICK d \in Debits : d = p[c]
  BY DEF Plans
<1>2. PICK after : after = record(b, resolved_debit(d, at))
  OBVIOUS
<1>3. PICK rest \in Plans : rest = [p EXCEPT ![c] = NONE]
  BY DEF Plans
<1>4. ASSUME NEW i \in DOMAIN Ceilings, NEW key \in ScopeKey, NEW unit \in Units,
             Reads(Ceilings[i], key), Capped(Ceilings[i], unit)
      PROVE  /\ Within(Held(after, key, unit), Pending(rest, at, key), Adding(rest, unit),
                       Most(unit), CapIn(Ceilings[i], unit) + n * Most(unit))
             /\ Within(Held(after, key, unit), Pending(p, at, key), Adding(p, unit),
                       Most(unit), CapIn(Ceilings[i], unit) + (n + 1) * Most(unit))
  <2>1. PICK limit \in Nat, most \in Nat :
            /\ limit = CapIn(Ceilings[i], unit) + n * Most(unit)
            /\ most = Most(unit)
            /\ limit + most = CapIn(Ceilings[i], unit) + (n + 1) * Most(unit)
    BY <1>4, LimitType, MostBounds
  <2>2. PICK P : P = Pending(p, at, key)
    OBVIOUS
  <2>3. PICK adds : adds = Adding(p, unit)
    OBVIOUS
  <2>4. /\ IsFiniteSet(P) /\ P \subseteq Callers
        /\ \A o \in P : adds[o] \in Nat /\ adds[o] <= most
        /\ adds[c] = Adds(d, unit)
    BY <1>1, <2>1, <2>2, <2>3, AddingBounds
  <2>5. PICK held \in Nat : held = Held(b, key, unit)
    BY <1>1, HeldStep
  <2>6. Within(held, P, adds, most, limit)
    BY <1>4, <2>1, <2>2, <2>3, <2>5 DEF Bounded
  <2>7. /\ Pending(rest, at, key) = P \ {c}
        /\ \A o \in P \ {c} : adds[o] = Adding(rest, unit)[o]
    <3>1. rest[c] = NONE /\ \A o \in Callers : o # c => rest[o] = p[o]
      BY <1>3 DEF Plans
    <3>2. Pending(rest, at, key) = P \ {c}
      BY <2>2, <3>1 DEF Pending
    <3>3. \A o \in P \ {c} : adds[o] = Adding(rest, unit)[o]
      BY <2>3, <2>4, <3>1 DEF Adding
    <3>4. QED BY <3>2, <3>3
  <2>8. CASE Touches(d, at, key)
    <3>1. c \in P
      BY <1>1, <2>2, <2>8 DEF Pending
    <3>2. Held(after, key, unit) = held + adds[c]
      BY <1>2, <2>4, <2>5, <2>8, HeldStep
    <3>3. /\ Within(held + adds[c], P \ {c}, adds, most, limit)
          /\ Within(held + adds[c], P, adds, most, limit + most)
      BY <2>4, <2>6, <3>1, WithinLands
    <3>4. QED BY <2>1, <2>2, <2>3, <2>7, <3>2, <3>3, WithinCong
  <2>9. CASE ~Touches(d, at, key)
    <3>1. c \notin P /\ P \ {c} = P
      BY <1>1, <2>2, <2>9 DEF Pending
    <3>2. Held(after, key, unit) = held
      BY <1>2, <2>5, <2>9, HeldStep DEF Held
    <3>3. Within(held, P, adds, most, limit + most)
      <4>1. PICK more \in Nat : more = limit + most /\ limit <= more /\ held <= held
        BY <2>1
      <4>2. \A o \in P : adds[o] \in Nat
        BY <2>4
      <4>3. QED BY <2>4, <2>6, <4>1, <4>2, WithinLess
    <3>4. QED BY <2>1, <2>2, <2>3, <2>6, <2>7, <3>1, <3>2, <3>3, WithinCong
  <2>10. QED BY <2>8, <2>9
<1>5. QED BY <1>1, <1>2, <1>3, <1>4 DEF Bounded

(* A pending debit that is given up leaves room. *)
LEMMA AbandonStaysBounded ==
    ASSUME NEW b \in Book, NEW p \in Plans, NEW at \in Instants, NEW n \in Nat,
           Bounded(b, p, at, n), NEW c \in Callers, p[c] # NONE
    PROVE  Bounded(b, [p EXCEPT ![c] = NONE], at, n)
<1>1. PICK d \in Debits : d = p[c]
  BY DEF Plans
<1>2. PICK rest \in Plans : rest = [p EXCEPT ![c] = NONE]
  BY DEF Plans
<1>3. ASSUME NEW i \in DOMAIN Ceilings, NEW key \in ScopeKey, NEW unit \in Units,
             Reads(Ceilings[i], key), Capped(Ceilings[i], unit)
      PROVE  Within(Held(b, key, unit), Pending(rest, at, key), Adding(rest, unit),
                    Most(unit), CapIn(Ceilings[i], unit) + n * Most(unit))
  <2>1. PICK limit \in Nat, most \in Nat :
            /\ limit = CapIn(Ceilings[i], unit) + n * Most(unit)
            /\ most = Most(unit)
    BY <1>3, LimitType, MostBounds
  <2>2. PICK P : P = Pending(p, at, key)
    OBVIOUS
  <2>3. PICK adds : adds = Adding(p, unit)
    OBVIOUS
  <2>4. /\ IsFiniteSet(P) /\ P \subseteq Callers /\ IsFiniteSet(P \ {c})
        /\ \A o \in P : adds[o] \in Nat /\ adds[o] <= most
    BY <2>1, <2>2, <2>3, AddingBounds, FS_Subset
  <2>5. PICK held \in Nat : held = Held(b, key, unit)
    BY <1>1, HeldStep
  <2>6. Within(held, P, adds, most, limit)
    BY <1>3, <2>1, <2>2, <2>3, <2>5 DEF Bounded
  <2>7. /\ Pending(rest, at, key) = P \ {c}
        /\ \A o \in P \ {c} : adds[o] = Adding(rest, unit)[o]
    <3>1. rest[c] = NONE /\ \A o \in Callers : o # c => rest[o] = p[o]
      BY <1>2 DEF Plans
    <3>2. Pending(rest, at, key) = P \ {c}
      BY <2>2, <3>1 DEF Pending
    <3>3. \A o \in P \ {c} : adds[o] = Adding(rest, unit)[o]
      BY <2>3, <2>4, <3>1 DEF Adding
    <3>4. QED BY <3>2, <3>3
  <2>8. Within(held, P \ {c}, adds, most, limit)
    <3>1. CASE c \in P
      <4>1. PICK more \in Nat : more = held + adds[c] /\ held <= more
        BY <2>4, <3>1
      <4>2. Within(more, P \ {c}, adds, most, limit)
        BY <2>4, <2>6, <3>1, <4>1, WithinLands
      <4>3. \A o \in P \ {c} : adds[o] \in Nat
        BY <2>4
      <4>4. QED BY <2>4, <4>1, <4>2, <4>3, WithinLess
    <3>2. CASE c \notin P
      <4>1. P \ {c} = P
        BY <3>2
      <4>2. QED BY <2>6, <4>1
    <3>3. QED BY <3>1, <3>2
  <2>9. QED BY <2>1, <2>5, <2>7, <2>8, WithinCong
<1>4. QED BY <1>2, <1>3 DEF Bounded

(* A debit that fits when it is approved is pending with those that had been.   *)
LEMMA ApprovalStaysBounded ==
    ASSUME NEW b \in Book, NEW p \in Plans, NEW at \in Instants, NEW n \in Nat,
           Bounded(b, p, at, n), NEW c \in Callers, p[c] = NONE,
           NEW d \in Debits, FitsAt(b, d, at),
           \A key : Cardinality(Pending([p EXCEPT ![c] = d], at, key)) <= n + 1
    PROVE  Bounded(b, [p EXCEPT ![c] = d], at, n)
<1>1. PICK more \in Plans : more = [p EXCEPT ![c] = d]
  BY DEF Plans
<1>2. d # NONE
  BY ApprovalsAssumption
<1>3. more[c] = d /\ \A o \in Callers : o # c => more[o] = p[o]
  BY <1>1 DEF Plans
<1>4. ASSUME NEW i \in DOMAIN Ceilings, NEW key \in ScopeKey, NEW unit \in Units,
             Reads(Ceilings[i], key), Capped(Ceilings[i], unit)
      PROVE  Within(Held(b, key, unit), Pending(more, at, key), Adding(more, unit),
                    Most(unit), CapIn(Ceilings[i], unit) + n * Most(unit))
  <2>1. PICK cap \in Nat, most \in Nat : cap = CapIn(Ceilings[i], unit) /\ most = Most(unit)
    BY <1>4, LimitType, MostBounds
  <2>2. PICK P : P = Pending(more, at, key)
    OBVIOUS
  <2>3. PICK adds : adds = Adding(more, unit)
    OBVIOUS
  <2>4. /\ IsFiniteSet(P) /\ P \subseteq Callers
        /\ adds[c] = Adds(d, unit) /\ adds[c] \in Nat
    BY <1>2, <1>3, <2>2, <2>3, AddingBounds
  <2>5. PICK held \in Nat : held = Held(b, key, unit)
    BY HeldStep
  <2>6. CASE Touches(d, at, key)
    <3>1. c \in P
      BY <1>2, <1>3, <2>2, <2>6 DEF Pending
    <3>2. held + adds[c] <= cap
      BY <1>4, <2>1, <2>4, <2>5, <2>6, FitIsUnder
    <3>3. Cardinality(P) <= n + 1
      BY <1>1, <2>2
    <3>4. Within(held, P, adds, most, cap + n * most)
      BY <2>4, <3>1, <3>2, <3>3, WithinEnters
    <3>5. QED BY <2>1, <2>2, <2>3, <2>5, <3>4
  <2>7. CASE ~Touches(d, at, key)
    <3>1. P = Pending(p, at, key)
      BY <1>2, <1>3, <2>2, <2>7 DEF Pending
    <3>2. \A o \in P : Adding(p, unit)[o] = adds[o]
      <4>1. ASSUME NEW o \in P PROVE o # c
        BY <1>3, <2>2, <2>7 DEF Pending
      <4>2. QED BY <1>3, <2>3, <2>4, <4>1 DEF Adding
    <3>3. Within(held, P, Adding(p, unit), Most(unit),
                 CapIn(Ceilings[i], unit) + n * Most(unit))
      BY <1>4, <2>5, <3>1 DEF Bounded
    <3>4. QED BY <2>2, <2>3, <2>5, <3>2, <3>3, WithinCong
  <2>8. QED BY <2>6, <2>7
<1>5. QED BY <1>1, <1>4 DEF Bounded

(* Once the clock has moved to a day that nothing has landed in, each pending   *)
(* debit still fits alone.                                                      *)
LEMMA TickStaysBounded ==
    ASSUME NEW b \in Book, NEW p \in Plans, NEW n \in Nat,
           NEW today \in Instants, NEW at \in Instants, today <= at,
           Bounded(b, p, today, n), LaterDaysEmpty(b, today),
           \A c \in Callers : p[c] # NONE => FitsAt(EmptyBook, p[c], at),
           \A key : Cardinality(Pending(p, at, key)) <= n + 1
    PROVE  Bounded(b, p, at, n)
<1>1. ASSUME NEW i \in DOMAIN Ceilings, NEW key \in ScopeKey, NEW unit \in Units,
             Reads(Ceilings[i], key), Capped(Ceilings[i], unit)
      PROVE  Within(Held(b, key, unit), Pending(p, at, key), Adding(p, unit),
                    Most(unit), CapIn(Ceilings[i], unit) + n * Most(unit))
  <2>1. PICK cap \in Nat, most \in Nat, limit \in Nat :
            /\ cap = CapIn(Ceilings[i], unit) /\ most = Most(unit)
            /\ limit = cap + n * most
    BY <1>1, LimitType, MostBounds
  <2>2. PICK P, old : P = Pending(p, at, key) /\ old = Pending(p, today, key)
    OBVIOUS
  <2>3. PICK adds : adds = Adding(p, unit)
    OBVIOUS
  <2>4. /\ IsFiniteSet(P) /\ P \subseteq Callers /\ IsFiniteSet(old) /\ old \subseteq Callers
        /\ \A c \in Callers : /\ adds[c] \in Nat
                              /\ p[c] # NONE => adds[c] = Adds(p[c], unit)
    BY <2>2, <2>3, AddingBounds
  <2>5. PICK held \in Nat : held = Held(b, key, unit)
    <3>1. PICK balance \in ScopeBalance : balance = BalanceIn(b, key)
      BY EmptyBalanceType DEF BalanceIn, Book
    <3>2. QED BY <3>1 DEF Held, NoneAsZero, ScopeBalance, Units
  <2>6. Within(held, old, adds, most, limit)
    BY <1>1, <2>1, <2>2, <2>3, <2>5 DEF Bounded
  <2>7. CASE P = {}
    <3>1. held <= held /\ limit <= limit /\ \A c \in old : adds[c] \in Nat
      BY <2>4
    <3>2. held <= limit
      BY <2>4, <2>6, <3>1, WithinLess
    <3>3. QED BY <2>1, <2>2, <2>5, <2>7, <3>2 DEF Within
  <2>8. CASE P # {} /\ \A day : key # <<"per_day", day>>
    <3>1. P = old
      BY <2>2, <2>8 DEF Pending, Touches, windows_touched
    <3>2. QED BY <2>1, <2>2, <2>3, <2>5, <2>6, <3>1
  <2>9. CASE P # {} /\ \E day : key = <<"per_day", day>>
    <3>1. PICK c \in P : TRUE
      BY <2>9
    <3>2. c \in Callers /\ p[c] # NONE /\ Touches(p[c], at, key)
      BY <2>2, <2>4, <3>1 DEF Pending
    <3>3. PICK d \in Debits : d = p[c]
      BY <3>2 DEF Plans
    <3>4. key = <<"per_day", utc_day_key(at)>>
      BY <2>9, <3>2 DEF Touches, windows_touched
    <3>5. CASE utc_day_key(at) = utc_day_key(today)
      <4>1. P = old
        BY <2>2, <3>5 DEF Pending, Touches, windows_touched
      <4>2. QED BY <2>1, <2>2, <2>3, <2>5, <2>6, <4>1
    <3>6. CASE utc_day_key(at) # utc_day_key(today)
      <4>1. utc_day_key(at) > utc_day_key(today)
        BY <3>6, DayMonotone, DataAssumption
      <4>2. b[key] = NONE /\ EmptyBook[key] = NONE
        BY <3>4, <4>1 DEF LaterDaysEmpty, EmptyBook
      <4>3. Held(b, key, unit) = Held(EmptyBook, key, unit)
        BY <4>2 DEF Held, BalanceIn
      <4>4. EmptyBook \in Book
        BY DEF EmptyBook, Book
      <4>5. FitsAt(EmptyBook, d, at)
        BY <3>2, <3>3
      <4>6. held + adds[c] <= cap
        BY <1>1, <2>1, <2>4, <2>5, <3>2, <3>3, <4>3, <4>4, <4>5, FitIsUnder
      <4>7. Cardinality(P) <= n + 1
        BY <2>2
      <4>8. adds[c] \in Nat
        BY <2>4, <3>2
      <4>9. Within(held, P, adds, most, cap + n * most)
        BY <2>4, <3>1, <4>6, <4>7, <4>8, WithinEnters
      <4>10. QED BY <2>1, <2>2, <2>3, <2>5, <4>9
    <3>7. QED BY <3>5, <3>6
  <2>10. QED BY <2>7, <2>8, <2>9
<1>2. QED BY <1>1 DEF Bounded

(* A debit that fits a book also fits an empty one. *)
LEMMA FitsAlone ==
    ASSUME NEW b \in Book, NEW d \in Debits, NEW at \in Instants, FitsAt(b, d, at)
    PROVE  FitsAt(EmptyBook, d, at)
<1>1. ASSUME NEW i \in DOMAIN Ceilings, ~ProspectIn(b, d, at, i).exceeded
      PROVE  ~ProspectIn(EmptyBook, d, at, i).exceeded
  <2>1. PICK ceiling \in BudgetCeiling : ceiling = Ceilings[i]
    BY ApprovalsAssumption, LedgerAssumption
  <2>2. PICK key : key = window_for(ceiling, d.run_id, at)
    OBVIOUS
  <2>3. key \in ScopeKey
    BY <2>2, LedgerAssumption DEF window_for, ScopeKey, BudgetCeiling, CeilingScope, Debit
  <2>4. PICK delta \in DebitContribution :
            delta = IF key \in windows_touched(d.run_id, at, d.tags)
                    THEN contribution_of(d.usage, d.cost) ELSE NOTHING
    <3>1. NOTHING \in DebitContribution
      BY DEF NOTHING, DebitContribution
    <3>2. contribution_of(d.usage, d.cost) \in DebitContribution
      BY LedgerAssumption, ContributionType DEF Debit
    <3>3. QED BY <3>1, <3>2
  <2>5. PICK balance \in ScopeBalance : balance = BalanceIn(b, key)
    BY <2>3, EmptyBalanceType DEF BalanceIn, Book
  <2>6. BalanceIn(EmptyBook, key) = EMPTY_BALANCE
    BY <2>3 DEF BalanceIn, EmptyBook
  <2>7. /\ ProspectIn(b, d, at, i) = verdict_over(ceiling, balance, delta)
        /\ ProspectIn(EmptyBook, d, at, i) = verdict_over(ceiling, EMPTY_BALANCE, delta)
    BY <2>1, <2>2, <2>4, <2>5, <2>6 DEF ProspectIn
  <2>8. QED BY <1>1, <2>7, EmptyFits
<1>2. EmptyBook \in Book
  BY DEF EmptyBook, Book
<1>3. QED BY <1>1, <1>2, ProspectiveByCeiling

(* A debit that fits leaves no estimate that does not total in the window of a  *)
(* strict ceiling.                                                              *)
LEMMA StaysStrictlyComplete ==
    ASSUME NEW b \in Book, StrictlyComplete(b),
           NEW d \in Debits, NEW at \in Instants, FitsAt(EmptyBook, d, at)
    PROVE  StrictlyComplete(record(b, resolved_debit(d, at)))
<1>1. PICK after : after = record(b, resolved_debit(d, at))
  OBVIOUS
<1>2. ASSUME NEW i \in DOMAIN Ceilings, NEW key \in ScopeKey, Reads(Ceilings[i], key),
             Ceilings[i].partial_pricing = "strict"
      PROVE  BalanceIn(after, key).untotalled_debit_count = 0
  <2>1. BalanceIn(b, key).untotalled_debit_count = 0
    BY <1>2 DEF StrictlyComplete
  <2>2. CASE Touches(d, at, key)
    <3>1. EmptyBook \in Book
      BY DEF EmptyBook, Book
    <3>2. Count(contribution_of(d.usage, d.cost).untotalled) = 0
      BY <1>2, <2>2, <3>1, FitIsUnder
    <3>3. NONE \in Units
      BY DEF Units
    <3>4. BalanceIn(after, key).untotalled_debit_count
            = BalanceIn(b, key).untotalled_debit_count
                + Count(contribution_of(d.usage, d.cost).untotalled)
      BY <1>1, <2>2, <3>3, HeldStep
    <3>5. QED BY <2>1, <3>2, <3>4
  <2>3. CASE ~Touches(d, at, key)
    <3>1. NONE \in Units
      BY DEF Units
    <3>2. QED BY <1>1, <2>1, <2>3, <3>1, HeldStep
  <2>4. QED BY <2>2, <2>3
<1>3. QED BY <1>1, <1>2 DEF StrictlyComplete

LEMMA OvershootInit == ApprovalsInit => OvershootInv
<1> SUFFICES ASSUME ApprovalsInit PROVE OvershootInv
  OBVIOUS
<1>1. LedgerInv /\ LaterDaysEmpty(book, now)
  BY GateInit DEF GateInv
<1>2. /\ book = EmptyBook /\ plan \in Plans /\ lost = 0 /\ serialised \in BOOLEAN
      /\ now \in Instants /\ \A c \in Callers : plan[c] = NONE
  BY DEF ApprovalsInit, Init, Plans
<1>3. /\ Slots(serialised) \in Nat /\ Unseen \in Nat
  BY <1>2, Crowd DEF Slots, Unseen
<1>4. ASSUME NEW i \in DOMAIN Ceilings, NEW key \in ScopeKey, NEW unit \in Units,
             Capped(Ceilings[i], unit)
      PROVE  Within(Held(book, key, unit), Pending(plan, now, key), Adding(plan, unit),
                    Most(unit), CapIn(Ceilings[i], unit) + Unseen * Most(unit))
  <2>1. PICK limit \in Nat : limit = CapIn(Ceilings[i], unit) + Unseen * Most(unit)
    BY <1>3, <1>4, LimitType
  <2>2. Held(book, key, unit) = 0
    BY <1>2 DEF Held, BalanceIn, EmptyBook, EMPTY_BALANCE, NoneAsZero, Units
  <2>3. Pending(plan, now, key) = {}
    BY <1>2 DEF Pending
  <2>4. QED BY <2>1, <2>2, <2>3 DEF Within
<1>5. Bounded(book, plan, now, Unseen)
  BY <1>4 DEF Bounded
<1>6. StrictlyComplete(book)
  BY <1>2 DEF StrictlyComplete, BalanceIn, EmptyBook, EMPTY_BALANCE
<1>7. QED BY <1>1, <1>2, <1>5, <1>6 DEF OvershootInv, Plans

(* A debit of a caller that was approved, whether it learns how that ended or not. *)
LEMMA ApprovedDebit ==
    ASSUME OvershootInv, NEW c \in Callers, plan[c] # NONE,
           RecordDebit(resolved_debit(plan[c], now), Ceilings)
    PROVE  /\ LedgerInv'
           /\ LaterDaysEmpty(book', now)
           /\ Bounded(book', [plan EXCEPT ![c] = NONE], now, Unseen)
           /\ Bounded(book', plan, now, Unseen + 1)
           /\ StrictlyComplete(book')
<1>1. PICK p \in Plans, d \in Debits, today \in Instants :
        p = plan /\ d = p[c] /\ today = now
  BY DEF OvershootInv, Plans
<1>2. RecordDebit(resolved_debit(d, today), Ceilings)
  BY <1>1
<1>3. LedgerInv'
  BY <1>2, ApprovalsAssumption, LedgerStep DEF OvershootInv, Next
<1>4. PICK before \in Book : before = book /\ book' = record(before, resolved_debit(d, today))
  BY <1>2 DEF RecordDebit, OvershootInv, LedgerInv
<1>4a. PICK after : after = book' /\ after = record(before, resolved_debit(d, today))
  BY <1>4
<1>5. LaterDaysEmpty(before, today) /\ FitsAt(EmptyBook, d, today)
      /\ Bounded(before, p, today, Unseen) /\ StrictlyComplete(before)
  BY <1>1, <1>4 DEF OvershootInv
<1>6. LaterDaysEmpty(after, today) /\ StrictlyComplete(after)
  BY <1>4, <1>4a, <1>5, LaterDaysStayEmpty, StaysStrictlyComplete
<1>7. PICK n \in Nat : n = Unseen
  BY Crowd DEF OvershootInv, Plans, Slots, Unseen
<1>8. Bounded(after, [p EXCEPT ![c] = NONE], today, n) /\ Bounded(after, p, today, n + 1)
  BY <1>1, <1>4, <1>4a, <1>5, <1>7, DebitStaysBounded
<1>9. QED BY <1>1, <1>3, <1>4, <1>4a, <1>6, <1>7, <1>8

LEMMA OvershootStep == OvershootInv /\ [ApprovalsNext]_approval_vars => OvershootInv'
<1> SUFFICES ASSUME OvershootInv, [ApprovalsNext]_approval_vars PROVE OvershootInv'
  OBVIOUS
<1>1. PICK n \in Nat : n = Unseen /\ n = Slots(serialised) + lost
  BY Crowd DEF OvershootInv, Plans, Slots, Unseen
<1>2. PICK p \in Plans, before \in Book, today \in Instants :
        p = plan /\ before = book /\ today = now
  BY DEF OvershootInv, LedgerInv, Plans
<1>3. CASE Tick
  <2>1. /\ now' \in Instants /\ now' > now
        /\ UNCHANGED <<vars, book, plan, gate, lost, serialised>>
    BY <1>3 DEF Tick, vars
  <2>2. PICK later \in Instants : later = now' /\ today <= later
    BY <1>2, <2>1, DataAssumption
  <2>3. LedgerInv'
    BY <2>1, LedgerStep DEF OvershootInv
  <2>4. LaterDaysEmpty(before, today) /\ Bounded(before, p, today, n)
    BY <1>1, <1>2 DEF OvershootInv
  <2>5. LaterDaysEmpty(before, later)
    <3>1. ASSUME NEW at \in Instants, utc_day_key(at) > utc_day_key(later)
          PROVE  before[<<"per_day", utc_day_key(at)>>] = NONE
      <4>1. utc_day_key(at) \in Nat /\ utc_day_key(later) \in Nat /\ utc_day_key(today) \in Nat
            /\ utc_day_key(today) <= utc_day_key(later)
        BY <2>2, DayMonotone, DataAssumption
      <4>2. utc_day_key(at) > utc_day_key(today)
        BY <3>1, <4>1
      <4>3. QED BY <2>4, <4>2 DEF LaterDaysEmpty
    <3>2. QED BY <3>1 DEF LaterDaysEmpty
  <2>6. \A c \in Callers : p[c] # NONE => FitsAt(EmptyBook, p[c], later)
    <3>1. ASSUME NEW c \in Callers, p[c] # NONE PROVE FitsAt(EmptyBook, p[c], later)
      <4>1. PICK d \in Debits : d = p[c]
        BY <3>1 DEF Plans
      <4>2. FitsAt(EmptyBook, d, today)
        BY <1>2, <3>1, <4>1 DEF OvershootInv
      <4>3. EmptyBook \in Book /\ LaterDaysEmpty(EmptyBook, today)
        BY DEF EmptyBook, Book, LaterDaysEmpty, ScopeKey
      <4>4. QED BY <2>2, <4>1, <4>2, <4>3, FitsLater
    <3>2. QED BY <3>1
  <2>7. \A key : Cardinality(Pending(p, later, key)) <= n + 1
    BY <1>1, <1>2, Crowd DEF OvershootInv
  <2>8. Bounded(before, p, later, n)
    BY <2>2, <2>4, <2>6, <2>7, TickStaysBounded
  <2>9. Unseen' = n
    BY <1>1, <2>1 DEF Unseen
  <2>10. QED BY <1>2, <2>1, <2>2, <2>3, <2>5, <2>6, <2>8, <2>9 DEF OvershootInv
<1>4. CASE Declare
  <2>1. PICK run_id \in Runs : DeclareRun(run_id)
    BY <1>4 DEF Declare
  <2>2. LedgerInv'
    BY <2>1, LedgerStep DEF OvershootInv, Next
  <2>3. UNCHANGED <<book, now, plan, gate, lost, serialised>>
    BY <1>4 DEF Declare, DeclareRun
  <2>4. Unseen' = Unseen
    BY <2>3 DEF Unseen
  <2>5. QED BY <2>2, <2>3, <2>4 DEF OvershootInv
<1>5. ASSUME NEW c \in Callers, Approve(c) PROVE OvershootInv'
  <2>1. PICK d \in Debits : WouldFit(d) /\ plan' = [p EXCEPT ![c] = d]
    BY <1>2, <1>5 DEF Approve
  <2>2. /\ p[c] = NONE
        /\ serialised => gate = NONE
        /\ gate' = IF serialised THEN c ELSE NONE
        /\ UNCHANGED <<vars, book, now, lost, serialised>>
    BY <1>2, <1>5 DEF Approve, vars
  <2>3. FitsAt(before, d, today)
    BY <1>2, <2>1 DEF WouldFit, FitsAt
  <2>4. FitsAt(EmptyBook, d, today)
    BY <2>3, FitsAlone
  <2>5. PICK more \in Plans : /\ more = plan' /\ more = [p EXCEPT ![c] = d]
                              /\ more[c] = d
                              /\ \A o \in Callers : o # c => more[o] = p[o]
    BY <2>1 DEF Plans
  <2>6. serialised => \A o \in Callers : more[o] # NONE => gate' = o
    BY <1>2, <2>2, <2>5, ApprovalsAssumption DEF OvershootInv
  <2>7. \A key : Cardinality(Pending(more, today, key)) <= n + 1
    BY <1>1, <2>6, Crowd DEF OvershootInv
  <2>8. Bounded(before, more, today, n)
    <3>1. Bounded(before, p, today, n)
      BY <1>1, <1>2 DEF OvershootInv
    <3>2. more = [p EXCEPT ![c] = d]
      BY <2>5
    <3>3. \A key : Cardinality(Pending([p EXCEPT ![c] = d], today, key)) <= n + 1
      BY <2>7, <3>2
    <3>4. Bounded(before, [p EXCEPT ![c] = d], today, n)
      BY <2>2, <2>3, <3>1, <3>3, ApprovalStaysBounded
    <3>5. QED BY <3>2, <3>4
  <2>9. \A o \in Callers : more[o] # NONE => FitsAt(EmptyBook, more[o], today)
    BY <1>2, <2>4, <2>5 DEF OvershootInv
  <2>10. LedgerInv'
    BY <2>2, LedgerStep DEF OvershootInv
  <2>11. Unseen' = n
    BY <1>1, <2>2 DEF Unseen
  <2>12. QED BY <1>2, <2>2, <2>5, <2>6, <2>8, <2>9, <2>10, <2>11 DEF OvershootInv, Plans
<1>6. ASSUME NEW c \in Callers, Finish(c), plan[c] # NONE, UNCHANGED <<now, lost, serialised>>,
             LedgerInv', LaterDaysEmpty(book', now), StrictlyComplete(book'),
             Bounded(book', [plan EXCEPT ![c] = NONE], now, Unseen)
      PROVE  OvershootInv'
  <2>1. PICK rest \in Plans : /\ rest = plan' /\ rest = [plan EXCEPT ![c] = NONE]
                              /\ rest[c] = NONE
                              /\ \A o \in Callers : o # c => rest[o] = plan[o]
    BY <1>2, <1>6 DEF Finish, Plans
  <2>2. \A o \in Callers : rest[o] # NONE => FitsAt(EmptyBook, rest[o], now)
    BY <2>1 DEF OvershootInv
  <2>3. serialised => \A o \in Callers : rest[o] = NONE
    BY <1>6, <2>1 DEF OvershootInv
  <2>4. Unseen' = Unseen
    BY <1>6 DEF Unseen
  <2>5. QED BY <1>6, <2>1, <2>2, <2>3, <2>4 DEF OvershootInv, Plans
<1>7. ASSUME NEW c \in Callers, Spend(c) PROVE OvershootInv'
  BY <1>6, <1>7, ApprovedDebit DEF Spend
<1>8. ASSUME NEW c \in Callers, SpendUnnoticed(c) PROVE OvershootInv'
  <2>1. /\ LedgerInv' /\ LaterDaysEmpty(book', now) /\ StrictlyComplete(book')
        /\ Bounded(book', plan, now, n + 1)
    BY <1>1, <1>8, ApprovedDebit DEF SpendUnnoticed
  <2>2. UNCHANGED <<now, plan, gate, serialised>> /\ lost' = lost + 1
    BY <1>8 DEF SpendUnnoticed
  <2>3. lost' \in Nat /\ Unseen' = n + 1
    <3>1. PICK l \in Nat, s \in Nat : l = lost /\ s = Slots(serialised)
      BY <1>2, Crowd DEF OvershootInv, Plans
    <3>2. Unseen' = s + (l + 1) /\ n = s + l
      BY <1>1, <2>2, <3>1 DEF Unseen, Slots
    <3>3. QED BY <2>2, <3>1, <3>2
  <2>4. QED BY <2>1, <2>2, <2>3 DEF OvershootInv
<1>9. ASSUME NEW c \in Callers, Abandon(c) PROVE OvershootInv'
  <2>1. UNCHANGED <<vars, book>>
    BY <1>9 DEF Abandon, vars
  <2>2. LedgerInv'
    BY <2>1, LedgerStep DEF OvershootInv
  <2>3. Bounded(before, p, today, n) /\ p[c] # NONE
    BY <1>1, <1>2, <1>9 DEF Abandon, OvershootInv
  <2>4. Bounded(before, [p EXCEPT ![c] = NONE], today, n)
    BY <2>3, AbandonStaysBounded
  <2>5. Bounded(book', [plan EXCEPT ![c] = NONE], now, Unseen)
    BY <1>1, <1>2, <2>1, <2>4
  <2>6. LaterDaysEmpty(book', now) /\ StrictlyComplete(book')
    BY <2>1 DEF OvershootInv
  <2>7. QED BY <1>6, <1>9, <2>2, <2>5, <2>6 DEF Abandon
<1>10. CASE UNCHANGED approval_vars
  <2>1. UNCHANGED <<vars, book, now, plan, gate, lost, serialised>>
    BY <1>10 DEF approval_vars, vars
  <2>2. LedgerInv' /\ Unseen' = Unseen
    BY <2>1, LedgerStep DEF OvershootInv, Unseen
  <2>3. QED BY <2>1, <2>2 DEF OvershootInv
<1>11. QED
  BY <1>3, <1>4, <1>5, <1>7, <1>8, <1>9, <1>10 DEF ApprovalsNext

LEMMA OvershootWithin == OvershootInv => OvershootBounded
<1> SUFFICES ASSUME OvershootInv, NEW run_id \in Runs, NEW at \in Instants,
                    NEW i \in DOMAIN Ceilings
             PROVE  LET ceiling == Ceilings[i]
                        balance == BalanceIn(book, window_for(ceiling, run_id, at))
                    IN  /\ ceiling.tokens # NONE =>
                                balance.tokens_spent <= ceiling.tokens + Unseen * MostTokens
                        /\ ceiling.money # NONE =>
                                NoneAsZero(balance.nanos_by_currency[ceiling.money.currency])
                                    <= ceiling.money.nanos + Unseen * MostNanos
                        /\ ceiling.partial_pricing = "strict" =>
                                balance.untotalled_debit_count = 0
  BY DEF OvershootBounded
<1>1. PICK ceiling \in BudgetCeiling : ceiling = Ceilings[i]
  BY ApprovalsAssumption, LedgerAssumption
<1>2. PICK key : key = window_for(ceiling, run_id, at)
  OBVIOUS
<1>3. key \in ScopeKey
  BY <1>2 DEF window_for, ScopeKey, BudgetCeiling, CeilingScope
<1>4. Reads(Ceilings[i], key)
  BY <1>1, <1>2, <1>3 DEF Reads
<1>5. PICK n \in Nat : n = Unseen
  BY Crowd DEF OvershootInv, Plans, Slots, Unseen
<1>6. ASSUME NEW unit \in Units, Capped(ceiling, unit)
      PROVE  Held(book, key, unit) <= CapIn(ceiling, unit) + n * Most(unit)
  <2>1. PICK limit \in Nat, most \in Nat :
            limit = CapIn(ceiling, unit) + n * Most(unit) /\ most = Most(unit)
    BY <1>1, <1>6, LimitType, MostBounds
  <2>2. PICK P, adds : P = Pending(plan, now, key) /\ adds = Adding(plan, unit)
    OBVIOUS
  <2>3. IsFiniteSet(P) /\ \A c \in P : adds[c] \in Nat
    BY <2>2, AddingBounds DEF OvershootInv, Plans
  <2>4. PICK held \in Nat : held = Held(book, key, unit)
    <3>1. PICK balance \in ScopeBalance : balance = BalanceIn(book, key)
      BY <1>3, EmptyBalanceType DEF BalanceIn, Book, OvershootInv, LedgerInv
    <3>2. QED BY <3>1 DEF Held, NoneAsZero, ScopeBalance, Units
  <2>5. Within(held, P, adds, most, limit)
    BY <1>1, <1>3, <1>4, <1>5, <1>6, <2>1, <2>2, <2>4 DEF OvershootInv, Bounded
  <2>6. held <= held /\ limit <= limit
    OBVIOUS
  <2>7. QED BY <2>1, <2>3, <2>4, <2>5, <2>6, WithinLess
<1>7. ceiling.tokens # NONE =>
        BalanceIn(book, key).tokens_spent <= ceiling.tokens + Unseen * MostTokens
  BY <1>5, <1>6 DEF Units, Capped, CapIn, Held, Most
<1>8. ceiling.money # NONE =>
        NoneAsZero(BalanceIn(book, key).nanos_by_currency[ceiling.money.currency])
            <= ceiling.money.nanos + Unseen * MostNanos
  <2>1. ASSUME ceiling.money # NONE
        PROVE  NoneAsZero(BalanceIn(book, key).nanos_by_currency[ceiling.money.currency])
                <= ceiling.money.nanos + Unseen * MostNanos
    <3>1. PICK unit \in Currencies : unit = ceiling.money.currency /\ unit # NONE
      BY <2>1, DataAssumption DEF BudgetCeiling
    <3>2. Held(book, key, unit) <= CapIn(ceiling, unit) + n * Most(unit)
      BY <1>6, <2>1, <3>1 DEF Units, Capped
    <3>3. QED BY <1>5, <3>1, <3>2 DEF CapIn, Held, Most
  <2>2. QED BY <2>1
<1>9. ceiling.partial_pricing = "strict" => BalanceIn(book, key).untotalled_debit_count = 0
  BY <1>1, <1>3, <1>4 DEF OvershootInv, StrictlyComplete
<1>10. QED BY <1>1, <1>2, <1>7, <1>8, <1>9

(* Callers without a gate cross a cap by at most the debits in flight and the   *)
(* retries of commits that had succeeded, and no strict ceiling lets an         *)
(* estimate that does not total into its window (sql.py class docstring).       *)
THEOREM OvershootIsBounded == ApprovalsSpec => []OvershootBounded
<1>1. QED BY OvershootInit, OvershootStep, OvershootWithin, PTL DEF ApprovalsSpec

=============================================================================
