------------------------------- MODULE SqlReads -------------------------------
(***************************************************************************)
(* The reads of SqlLedger (sql.py): would_exceed, remaining, position and   *)
(* balances.  Each runs outside any write transaction and loads its windows *)
(* with two SELECTs, balance_money first and balances second, so debits of  *)
(* other processes may commit between the two.                              *)
(*                                                                          *)
(* The writers are those of module Ledger: SqlLedger is shown to commit     *)
(* each debit as one of its steps.  "entries" and "book" are the committed  *)
(* rows; a read takes no lock and changes no row.                           *)
(***************************************************************************)
EXTENDS Ledger

CONSTANTS Readers,     \* processes that read
          Prospects    \* what would_exceed is asked about: usage, cost and tags

ASSUME ReadsAssumption ==
    Prospects \subseteq [usage : TokenUsage \cup {NONE}, cost : CostEstimate \cup {NONE},
                         tags : SUBSET Tags]

VARIABLES read_pc,     \* what each reader does next
          query,       \* what it was asked
          money_rows,  \* what its SELECT on balance_money returned
          answer,      \* the verdicts, or the window's balance, it returned
          first_book   \* auxiliary: the committed balances at its first SELECT

readers == <<read_pc, query, money_rows, answer, first_book>>
read_vars == <<vars, readers>>

-----------------------------------------------------------------------------
NothingAsked == [usage |-> NONE, cost |-> NONE, tags |-> {}]

NoRunScope(ceilings) == \A i \in DOMAIN ceilings : ceilings[i].scope # "per_run"

\* The calls that get as far as the database: position refuses a per-run ceiling first.
\* position and balances name no run; theirs is any.
Queries ==
    [op : {"would_exceed"}, run_id : Runs, at : Instants, ceilings : CeilingSets,
     asked : Prospects]
    \cup [op : {"remaining"}, run_id : Runs, at : Instants, ceilings : CeilingSets,
          asked : {NothingAsked}]
    \cup [op : {"position"}, run_id : {CHOOSE r \in Runs : TRUE}, at : Instants,
          ceilings : {c \in CeilingSets : NoRunScope(c)}, asked : {NothingAsked}]
    \cup [op : {"balances"}, key : ScopeKey]

\* _windows_read, windows_without_run, or the one window balances was asked for.
KeysRead(q) ==
    IF q.op = "balances" THEN {q.key}
    ELSE {window_for(q.ceilings[i], q.run_id, q.at) : i \in DOMAIN q.ceilings}

NamesRun(q) == q.op \in {"would_exceed", "remaining"}

\* _require_known, then require_currency_compatible; failing either, the call raises.
Answerable(q) ==
    NamesRun(q) => /\ q.run_id \in runs
                   /\ currency_compatible(q.ceilings, q.asked.cost, q.run_id, q.at, q.asked.tags)

\* book.verdicts, verdicts_without_run or balance_for over the book seeded from rows.
Answer(q, seeded) ==
    IF q.op = "balances" THEN BalanceIn(seeded, q.key)
    ELSE prospective_verdicts(q.ceilings, seeded, q.run_id, q.at,
                              q.asked.usage, q.asked.cost, q.asked.tags)

-----------------------------------------------------------------------------
ReadInit ==
    /\ Init
    /\ read_pc = [r \in Readers |-> "idle"]
    /\ query = [r \in Readers |-> NONE]
    /\ money_rows = [r \in Readers |-> NONE]
    /\ answer = [r \in Readers |-> NONE]
    /\ first_book = [r \in Readers |-> NONE]

BeginRead(r) ==
    /\ read_pc[r] = "idle"
    /\ \E q \in Queries : query' = [query EXCEPT ![r] = q]
    /\ read_pc' = [read_pc EXCEPT ![r] = "require_known"]
    /\ UNCHANGED <<vars, money_rows, answer, first_book>>

RequireKnown(r) ==
    /\ read_pc[r] = "require_known"
    /\ Answerable(query[r])
    /\ read_pc' = [read_pc EXCEPT ![r] = "read_money"]
    /\ UNCHANGED <<vars, query, money_rows, answer, first_book>>

\* session.rollback() and close(): the reader is done, with an answer or an exception.
EndRead(r) ==
    /\ \/ read_pc[r] = "answered"
       \/ read_pc[r] = "require_known" /\ ~Answerable(query[r])
    /\ read_pc' = [read_pc EXCEPT ![r] = "idle"]
    /\ query' = [query EXCEPT ![r] = NONE]
    /\ money_rows' = [money_rows EXCEPT ![r] = NONE]
    /\ answer' = [answer EXCEPT ![r] = NONE]
    /\ first_book' = [first_book EXCEPT ![r] = NONE]
    /\ UNCHANGED vars

MoneyIn(rows, key) == BalanceIn(rows, key).nanos_by_currency

ReadMoney(r) ==
    /\ read_pc[r] = "read_money"
    /\ money_rows' = [money_rows EXCEPT ![r] =
                        [key \in KeysRead(query[r]) |-> MoneyIn(book, key)]]
    /\ first_book' = [first_book EXCEPT ![r] = book]
    /\ read_pc' = [read_pc EXCEPT ![r] = "read_balances"]
    /\ UNCHANGED <<vars, query, answer>>

\* Mutant: the balances rows are read first and the money rows last.
SeededMoneyLast(r) ==
    [key \in ScopeKey |->
        IF key \notin KeysRead(query[r]) \/ first_book[r][key] = NONE THEN NONE
        ELSE [first_book[r][key] EXCEPT !.nanos_by_currency = MoneyIn(book, key)]]

\* Mutant: a window that had no money row is taken for one that nothing landed in.
SeededFromMoney(r) ==
    [key \in ScopeKey |->
        IF \/ key \notin KeysRead(query[r])
           \/ \A currency \in Currencies : money_rows[r][key][currency] = NONE
        THEN NONE
        ELSE [book[key] EXCEPT !.nanos_by_currency = money_rows[r][key]]]

\* _seed_from_rows: a window without a balances row is left unseeded.
SeededRows(r) ==
    [key \in ScopeKey |->
        IF key \notin KeysRead(query[r]) \/ book[key] = NONE THEN NONE
        ELSE [book[key] EXCEPT !.nanos_by_currency = money_rows[r][key]]]

ReadBalances(r) ==
    /\ read_pc[r] = "read_balances"
    /\ answer' = [answer EXCEPT ![r] = Answer(query[r], SeededRows(r))]
    /\ read_pc' = [read_pc EXCEPT ![r] = "answered"]
    /\ UNCHANGED <<vars, query, money_rows, first_book>>

ReadStep(r) == BeginRead(r) \/ RequireKnown(r) \/ ReadMoney(r) \/ ReadBalances(r) \/ EndRead(r)

ReadNext ==
    \/ Next /\ UNCHANGED readers
    \/ \E r \in Readers : ReadStep(r)

ReadSpec == ReadInit /\ [][ReadNext]_read_vars

-----------------------------------------------------------------------------
(* Properties *)

Answered(r) == read_pc[r] = "answered"
Verdicts(r) == Answered(r) /\ query[r].op # "balances"

(* Type invariant of the readers (sql.py would_exceed, remaining, position,    *)
(* balances): answers hold well-formed verdicts or a well-formed balance.      *)
ReadTypeOK ==
    /\ TypeOK
    /\ \A r \in Readers :
        /\ read_pc[r] # "idle" => query[r] \in Queries
        /\ Verdicts(r) => \A i \in DOMAIN answer[r] : answer[r][i] \in CeilingVerdict
        /\ Answered(r) /\ ~Verdicts(r) => answer[r] \in ScopeBalance

(* Spend that races the two SELECTs never turns a verdict around (sql.py       *)
(* would_exceed): a ceiling that was exceeded when the read began is answered  *)
(* "exceeded", and one answered "exceeded" is exceeded once the read is over,  *)
(* each with the prospective spend added.                                      *)
AnswerIsBracketed ==
    \A r \in Readers :
        Verdicts(r) =>
            \A i \in DOMAIN answer[r] :
                /\ Answer(query[r], first_book[r])[i].exceeded => answer[r][i].exceeded
                /\ answer[r][i].exceeded => Answer(query[r], book)[i].exceeded

\* What was priced in a currency in a window by the first k entries.
PricedAfter(key, currency, k) ==
    {e \in PricedIn(entries, key, currency) : e <= k}

(* A read that reports no untotalled estimate reports a sum that holds none    *)
(* (sql.py _seed_from_rows reads money before the counts): the money in such a *)
(* balance, and in the verdict of such a ceiling with the prospective spend,   *)
(* is what some prefix of the history priced there, all of it from estimates   *)
(* that total.                                                                 *)
CleanCountMeansCleanSum ==
    \A r \in Readers, currency \in Currencies :
        /\ Answered(r) /\ ~Verdicts(r)
           /\ answer[r].untotalled_debit_count = 0
           => \E k \in 0..Len(entries) :
                LET priced == PricedAfter(query[r].key, currency, k)
                IN  /\ answer[r].nanos_by_currency[currency]
                        = IF priced = {} THEN NONE ELSE SumFunctionOnSet(NanosOf(entries), priced)
                    /\ \A e \in priced : Totalled(entries[e].debit.cost)
        /\ Verdicts(r) =>
            \A i \in DOMAIN answer[r] :
                LET ceiling == query[r].ceilings[i]
                    key     == window_for(ceiling, query[r].run_id, query[r].at)
                IN  /\ ceiling.money # NONE
                    /\ ceiling.money.currency = currency
                    /\ answer[r][i].untotalled_debit_count = 0
                    => \E k \in 0..Len(entries) :
                        /\ answer[r][i].money_spent
                            = Answer(query[r], BookAfter(entries)[k])[i].money_spent
                        /\ \A e \in PricedAfter(key, currency, k) :
                                Totalled(entries[e].debit.cost)

=============================================================================
