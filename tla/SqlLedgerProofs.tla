--------------------------- MODULE SqlLedgerProofs ---------------------------
(***************************************************************************)
(* Theorems about SqlLedger, for every number of sessions, every set of     *)
(* debits, ceilings and windows: its rows and locks are well-formed, it     *)
(* implements Ledger in both dialects, and its rows are what its entries    *)
(* add up to.                                                               *)
(***************************************************************************)
EXTENDS SqlLedger, BalanceBookProofs

-----------------------------------------------------------------------------
(* Type correctness *)

(* What a session's call and uncommitted entry are at each step of the call.   *)
CallOK(s) ==
    /\ pc[s] # "idle" => call[s] \in Call
    /\ pc[s] \in {"advance", "read_money", "read_balances"} => call[s].op = "debit"
    /\ entry[s] # NONE => pc[s] = "commit" /\ call[s].op = "debit"
    /\ pc[s] = "commit" /\ call[s].op = "debit" => entry[s] # NONE

TypeInv == TypeOK /\ \A s \in Sessions : CallOK(s)

(* Upserting a contribution into a row or into no row gives a row (sql.py      *)
(* _upsert_sum).                                                               *)
LEMMA UpsertSumType ==
    ASSUME NEW row \in ScopeBalance \cup {NONE}, NEW c \in DebitContribution
    PROVE  UpsertSum(row, c) \in ScopeBalance
<1>1. CASE row = NONE
  BY <1>1 DEF UpsertSum, InsertedRow, ScopeBalance, DebitContribution, Count
<1>2. CASE row # NONE
  <2>1. row \in ScopeBalance
    BY <1>2
  <2>2. \A currency \in Currencies :
            MoneyUpserted(row.nanos_by_currency[currency], c) \in Nat
    BY <2>1 DEF MoneyUpserted, ScopeBalance, DebitContribution
  <2>3. QED BY <1>2, <2>1, <2>2 DEF UpsertSum, SummedRow, ScopeBalance, DebitContribution, Count
<1>3. QED BY <1>1, <1>2

(* The verdicts over a book are well-formed, one per ceiling (core.py verdicts).*)
LEMMA VerdictsType ==
    ASSUME NEW ceilings \in Seq(BudgetCeiling), NEW book \in Book,
           NEW run_id \in Runs, NEW at \in Instants
    PROVE  verdicts(ceilings, book, run_id, at) \in Seq(CeilingVerdict)
<1>1. NOTHING \in DebitContribution
  BY DEF NOTHING, DebitContribution
<1>2. ASSUME NEW i \in DOMAIN ceilings
      PROVE  verdict_over(ceilings[i], BalanceIn(book, window_for(ceilings[i], run_id, at)), NOTHING)
                \in CeilingVerdict
  <2>1. ceilings[i] \in BudgetCeiling
    OBVIOUS
  <2>2. window_for(ceilings[i], run_id, at) \in ScopeKey
    BY <2>1 DEF window_for, ScopeKey, BudgetCeiling, CeilingScope
  <2>3. BalanceIn(book, window_for(ceilings[i], run_id, at)) \in ScopeBalance
    BY <2>2, EmptyBalanceType DEF BalanceIn, Book
  <2>4. QED BY <1>1, <2>1, <2>3, VerdictType
<1>3. DOMAIN ceilings = 1..Len(ceilings) /\ Len(ceilings) \in Nat
  OBVIOUS
<1>4. QED BY <1>2, <1>3 DEF verdicts

(* A call that is a debit has a debit's fields. *)
LEMMA DebitCallType ==
    ASSUME NEW c \in Call, c.op = "debit"
    PROVE  /\ c.debit \in ResolvedDebit
           /\ c.ceilings \in Seq(BudgetCeiling)
           /\ c.entry_id \in Nat
BY DEF Call

(* Every call names a run and an instant. *)
LEMMA CallDebitType ==
    ASSUME NEW c \in Call
    PROVE  c.debit.run_id \in Runs /\ c.debit.occurred_at \in Instants
BY DEF Call, ResolvedDebit

(* What a statement of a session sees in a window is a row or no row.          *)
LEMMA VisibleType ==
    ASSUME TypeOK, NEW s \in Sessions, NEW key \in ScopeKey
    PROVE  Visible(s, key) \in ScopeBalance \cup {NONE}
BY DEF TypeOK, Visible, Book

LEMMA EmptyMoneyType == EMPTY_BALANCE.nanos_by_currency \in [Currencies -> Nat \cup {NONE}]
BY DEF EMPTY_BALANCE

(* The book a debit reads back is a book (sql.py _seed_from_rows).             *)
LEMMA SeededType ==
    ASSUME TypeOK, NEW s \in Sessions
    PROVE  Seeded(s) \in Book
<1>1. ASSUME NEW key \in ScopeKey, Visible(s, key) # NONE
      PROVE  [Visible(s, key) EXCEPT !.nanos_by_currency = money_rows[s][key]] \in ScopeBalance
  <2>1. Visible(s, key) \in ScopeBalance
    BY <1>1, VisibleType
  <2>2. money_rows[s][key] \in [Currencies -> Nat \cup {NONE}]
    BY DEF TypeOK
  <2>3. QED BY <2>1, <2>2 DEF ScopeBalance
<1>2. QED BY <1>1 DEF Seeded, Book

(* The initial state is well-typed. *)
LEMMA TypeInit == Init => TypeInv
<1> SUFFICES ASSUME Init PROVE TypeInv
  OBVIOUS
<1>1. EmptyBook \in Book /\ NoOwnRows \in Book
  BY DEF EmptyBook, NoOwnRows, Book
<1>2. NoMoney \in [ScopeKey -> [Currencies -> Nat \cup {NONE}]]
  BY EmptyMoneyType DEF NoMoney
<1>3. TypeOK
  BY <1>1, <1>2 DEF Init, TypeOK, PCs
<1>4. \A s \in Sessions : CallOK(s)
  BY DEF Init, CallOK
<1>5. QED BY <1>3, <1>4 DEF TypeInv

(* Closing a session, by commit or by rollback, keeps the types.               *)
LEMMA CloseType ==
    ASSUME TypeInv, NEW s \in Sessions, Close(s), UNCHANGED minted,
           balances' \in Book,
           runs' \in [Runs -> Instants \cup {NONE}],
           entries' \in Seq(LedgerEntry)
    PROVE  TypeInv'
<1>1. NoOwnRows \in Book /\ NoMoney \in [ScopeKey -> [Currencies -> Nat \cup {NONE}]]
  BY EmptyMoneyType DEF NoOwnRows, NoMoney, Book
<1>2. TypeOK'
  BY <1>1 DEF TypeInv, TypeOK, Close, PCs
<1>3. ASSUME NEW t \in Sessions PROVE CallOK(t)'
  BY DEF TypeInv, TypeOK, CallOK, Close
<1>4. QED BY <1>2, <1>3 DEF TypeInv

(* Every step keeps the types. *)
LEMMA TypeStep == TypeInv /\ [Next]_vars => TypeInv'
<1> SUFFICES ASSUME TypeInv, [Next]_vars PROVE TypeInv'
  OBVIOUS
<1> USE DEF TypeInv
<1>1. ASSUME NEW s \in Sessions, BeginDebit(s) PROVE TypeInv'
  <2>1. PICK d \in Debits, now \in Instants, ceilings \in CeilingSets :
            /\ call' = [call EXCEPT ![s] = [op |-> "debit", debit |-> resolved_debit(d, now),
                                            ceilings |-> ceilings, entry_id |-> minted + 1]]
            /\ todo' = [todo EXCEPT ![s] = WindowsOf(resolved_debit(d, now))]
    BY <1>1 DEF BeginDebit
  <2>2. resolved_debit(d, now) \in ResolvedDebit
    BY ResolvedDebitType, SqlAssumption
  <2>3. WindowsOf(resolved_debit(d, now)) \in SUBSET ScopeKey
    BY <2>2, WindowsOfType
  <2>4. [op |-> "debit", debit |-> resolved_debit(d, now),
         ceilings |-> ceilings, entry_id |-> minted + 1] \in Call
    BY <2>2, SqlAssumption DEF Call, TypeOK
  <2>5. TypeOK'
    BY <1>1, <2>1, <2>3, <2>4 DEF TypeOK, BeginDebit, committed, PCs
  <2>6. ASSUME NEW t \in Sessions PROVE CallOK(t)'
    BY <1>1, <2>1, <2>4 DEF TypeOK, BeginDebit, CallOK
  <2>7. QED BY <2>5, <2>6
<1>2. ASSUME NEW s \in Sessions, BeginDeclareRun(s) PROVE TypeInv'
  <2>1. PICK run_id \in DeclaredRuns, now \in Instants :
            call' = [call EXCEPT ![s] = [op |-> "declare_run",
                                         debit |-> [run_id |-> run_id, occurred_at |-> now]]]
    BY <1>2 DEF BeginDeclareRun
  <2>2. [op |-> "declare_run", debit |-> [run_id |-> run_id, occurred_at |-> now]] \in Call
    BY SqlAssumption DEF Call
  <2>3. TypeOK'
    BY <1>2, <2>1, <2>2 DEF TypeOK, BeginDeclareRun, committed, PCs
  <2>4. ASSUME NEW t \in Sessions PROVE CallOK(t)'
    BY <1>2, <2>1, <2>2 DEF TypeOK, BeginDeclareRun, CallOK
  <2>5. QED BY <2>3, <2>4
<1>3. ASSUME NEW s \in Sessions, NoteRun(s) PROVE TypeInv'
  <2>1. call[s] \in Call /\ call[s].debit.occurred_at \in Instants
    BY <1>3, CallDebitType DEF NoteRun, CallOK
  <2>2. TypeOK'
    BY <1>3, <2>1 DEF TypeOK, NoteRun, committed, PCs
  <2>3. ASSUME NEW t \in Sessions PROVE CallOK(t)'
    BY <1>3, <2>1 DEF TypeOK, NoteRun, CallOK
  <2>4. QED BY <2>2, <2>3
<1>4. ASSUME NEW s \in Sessions, AdvanceBalance(s) PROVE TypeInv'
  <2> DEFINE c == contribution_of(call[s].debit.usage, call[s].debit.cost)
  <2>1. PICK key \in ScopeKey :
            /\ own' = [own EXCEPT ![s][key] = UpsertSum(Visible(s, key), c)]
            /\ todo' = [todo EXCEPT ![s] = @ \ {key}]
            /\ pc' = [pc EXCEPT ![s] = IF todo[s] = {key} THEN "read_money" ELSE "advance"]
    BY <1>4 DEF AdvanceBalance
  <2>2. call[s] \in Call /\ call[s].debit \in ResolvedDebit
    BY <1>4, DebitCallType DEF AdvanceBalance, CallOK
  <2>3. c \in DebitContribution
    BY <2>2, ContributionType DEF ResolvedDebit
  <2>4. UpsertSum(Visible(s, key), c) \in ScopeBalance
    BY <2>3, VisibleType, UpsertSumType
  <2> HIDE DEF c
  <2>5. TypeOK'
    BY <1>4, <2>1, <2>4 DEF TypeOK, AdvanceBalance, committed, PCs, Book
  <2>6. ASSUME NEW t \in Sessions PROVE CallOK(t)'
    BY <1>4, <2>1 DEF TypeOK, AdvanceBalance, CallOK
  <2>7. QED BY <2>5, <2>6
<1>5. ASSUME NEW s \in Sessions, ReadMoney(s) PROVE TypeInv'
  <2>1. ASSUME NEW key \in ScopeKey
        PROVE  (IF key \in WindowsRead(s) /\ Visible(s, key) # NONE
                THEN Visible(s, key).nanos_by_currency
                ELSE EMPTY_BALANCE.nanos_by_currency) \in [Currencies -> Nat \cup {NONE}]
    BY VisibleType, EmptyMoneyType DEF ScopeBalance
  <2>2. TypeOK'
    BY <1>5, <2>1 DEF TypeOK, ReadMoney, committed, PCs
  <2>3. ASSUME NEW t \in Sessions PROVE CallOK(t)'
    BY <1>5 DEF TypeOK, ReadMoney, CallOK
  <2>4. QED BY <2>2, <2>3
<1>6. ASSUME NEW s \in Sessions, ReadBalances(s) PROVE TypeInv'
  <2> DEFINE debit == call[s].debit
             new == [entry_id |-> call[s].entry_id,
                     debit    |-> debit,
                     unpriced |-> is_unpriced(debit.cost),
                     verdicts |-> verdicts(call[s].ceilings, Seeded(s), debit.run_id,
                                           debit.occurred_at)]
  <2>1. call[s] \in Call /\ call[s].op = "debit"
    BY <1>6 DEF ReadBalances, CallOK
  <2>2. /\ debit \in ResolvedDebit
        /\ call[s].ceilings \in Seq(BudgetCeiling)
        /\ call[s].entry_id \in Nat
    BY <2>1, DebitCallType
  <2>3. debit.run_id \in Runs /\ debit.occurred_at \in Instants
    BY <2>1, CallDebitType
  <2>4. verdicts(call[s].ceilings, Seeded(s), debit.run_id, debit.occurred_at)
            \in Seq(CeilingVerdict)
    BY <2>2, <2>3, SeededType, VerdictsType
  <2>5. new \in LedgerEntry
    BY <2>2, <2>4 DEF LedgerEntry, is_unpriced
  <2>6. /\ entry' = [entry EXCEPT ![s] = new]
        /\ pc[s] = "read_balances"
        /\ pc' = [pc EXCEPT ![s] = "commit"]
        /\ UNCHANGED <<committed, minted, call, todo, own, own_run, money_rows>>
    BY <1>6 DEF ReadBalances
  <2> HIDE DEF new
  <2>7. TypeOK'
    BY <2>5, <2>6 DEF TypeOK, committed, PCs
  <2>8. ASSUME NEW t \in Sessions PROVE CallOK(t)'
    BY <2>1, <2>5, <2>6, NoneIsNoEntry DEF TypeOK, CallOK
  <2>9. QED BY <2>7, <2>8
<1>7. ASSUME NEW s \in Sessions, Commit(s) PROVE TypeInv'
  <2>1. Close(s) /\ UNCHANGED minted
    BY <1>7 DEF Commit
  <2>2. balances' \in Book
    BY <1>7, VisibleType DEF Commit, Book
  <2>3. runs' \in [Runs -> Instants \cup {NONE}]
    BY <1>7, CallDebitType DEF Commit, TypeOK, CallOK
  <2>4. entries' \in Seq(LedgerEntry)
    BY <1>7 DEF Commit, TypeOK
  <2>5. QED BY <2>1, <2>2, <2>3, <2>4, CloseType
<1>8. ASSUME NEW s \in Sessions, Rollback(s) PROVE TypeInv'
  <2>1. Close(s) /\ UNCHANGED <<committed, minted>>
    BY <1>8 DEF Rollback
  <2>2. QED BY <2>1, CloseType DEF TypeOK, committed
<1>9. CASE UNCHANGED vars
  BY <1>9 DEF vars, committed, TypeOK, CallOK
<1>10. QED
  BY <1>1, <1>2, <1>3, <1>4, <1>5, <1>6, <1>7, <1>8, <1>9 DEF Next, Step

(* Every reachable state of the tables and sessions is well-typed: no NULL,    *)
(* no negative count, no row outside the windows ever reaches the database.    *)
THEOREM TypeCorrect == Spec => []TypeOK
<1>1. TypeInv => TypeOK
  BY DEF TypeInv
<1>2. QED BY TypeInit, TypeStep, <1>1, PTL DEF Spec

-----------------------------------------------------------------------------
(* Locks *)

(* A session holds nothing before its first statement. *)
NothingHeld(s) ==
    pc[s] \in {"idle", "note_run"} => own[s] = NoOwnRows /\ own_run[s] = NONE

(* The windows a session has upserted sort before those it has still to do.     *)
RisingLocks(s) ==
    \A held, next \in ScopeKey :
        own[s][held] # NONE /\ next \in todo[s] => WindowOrder[held] < WindowOrder[next]

LockInv ==
    /\ TypeInv
    /\ RowExclusion
    /\ \A s \in Sessions : NothingHeld(s) /\ RisingLocks(s)

(* A session that holds an uncommitted row is past its first statement.         *)
LEMMA HolderWrites ==
    ASSUME LockInv, NEW s \in Sessions,
           own_run[s] # NONE \/ \E key \in ScopeKey : own[s][key] # NONE
    PROVE  Writing(s)
BY DEF LockInv, TypeInv, TypeOK, PCs, NothingHeld, NoOwnRows, Writing

(* Closing a session gives up what it holds. *)
LEMMA LockClose ==
    ASSUME LockInv, TypeInv', NEW s \in Sessions, Close(s)
    PROVE  LockInv'
<1> USE DEF LockInv, TypeInv, TypeOK, Close
<1>1. \A t \in Sessions : t # s => /\ pc'[t] = pc[t] /\ own'[t] = own[t] /\ todo'[t] = todo[t]
                                   /\ own_run'[t] = own_run[t] /\ call'[t] = call[t]
  OBVIOUS
<1>2. /\ pc'[s] = "idle" /\ own'[s] = NoOwnRows /\ own_run'[s] = NONE /\ todo'[s] = {}
  OBVIOUS
<1> HIDE DEF TypeOK, Close
<1>3. RowExclusion'
  BY <1>1, <1>2 DEF RowExclusion, NoOwnRows, Writing
<1>4. ASSUME NEW t \in Sessions PROVE NothingHeld(t)' /\ RisingLocks(t)'
  BY <1>1, <1>2 DEF NothingHeld, RisingLocks
<1>5. QED BY <1>3, <1>4

(* The initial state holds no lock. *)
LEMMA LockInit == Init => LockInv
<1> SUFFICES ASSUME Init PROVE LockInv
  OBVIOUS
<1>1. RowExclusion
  BY DEF Init, RowExclusion, NoOwnRows, Writing
<1>2. \A s \in Sessions : NothingHeld(s) /\ RisingLocks(s)
  BY DEF Init, NothingHeld, RisingLocks
<1>3. QED BY <1>1, <1>2, TypeInit DEF LockInv

(* A statement that leaves every held row alone keeps the locks. *)
LEMMA LockFrame ==
    ASSUME LockInv, TypeInv', UNCHANGED <<own, own_run>>, NEW s \in Sessions,
           \A t \in Sessions : t # s => pc'[t] = pc[t] /\ call'[t] = call[t] /\ todo'[t] = todo[t],
           \/ pc[s] = "idle" /\ ~Writing(s)'
           \/ Writing(s) /\ Writing(s)' /\ call'[s] = call[s] /\ todo'[s] = todo[s]
    PROVE  LockInv'
<1>1. pc[s] = "idle" => own[s] = NoOwnRows /\ own_run[s] = NONE
  BY DEF LockInv, NothingHeld
<1>2. RowExclusion'
  BY <1>1 DEF LockInv, RowExclusion, Writing
<1>3. ASSUME NEW t \in Sessions PROVE NothingHeld(t)'
  BY <1>1 DEF LockInv, NothingHeld, Writing
<1>4. ASSUME NEW t \in Sessions PROVE RisingLocks(t)'
  BY <1>1 DEF LockInv, RisingLocks, NoOwnRows
<1>5. QED BY <1>2, <1>3, <1>4 DEF LockInv

(* Every step keeps the locks exclusive and in order. *)
LEMMA LockStep == LockInv /\ [Next]_vars => LockInv'
<1> SUFFICES ASSUME LockInv, [Next]_vars PROVE LockInv'
  OBVIOUS
<1>0. TypeInv /\ TypeInv' /\ TypeOK
  BY TypeStep DEF LockInv, TypeInv
<1>1. ASSUME NEW s \in Sessions, BeginDebit(s) PROVE LockInv'
  <2>1. PICK c : call' = [call EXCEPT ![s] = c]
    BY <1>1 DEF BeginDebit
  <2>2. PICK w : todo' = [todo EXCEPT ![s] = w]
    BY <1>1 DEF BeginDebit
  <2>3. QED BY <1>0, <1>1, <2>1, <2>2, LockFrame DEF BeginDebit, Writing, TypeOK
<1>2. ASSUME NEW s \in Sessions, BeginDeclareRun(s) PROVE LockInv'
  <2>1. PICK c : call' = [call EXCEPT ![s] = c]
    BY <1>2 DEF BeginDeclareRun
  <2>2. QED BY <1>0, <1>2, <2>1, LockFrame DEF BeginDeclareRun, Writing, TypeOK
<1>3. ASSUME NEW s \in Sessions, NoteRun(s) PROVE LockInv'
  <2>1. /\ pc[s] = "note_run" /\ pc'[s] \in {"advance", "commit"}
        /\ \A t \in Sessions : ~RunBlockedBy(s, t)
        /\ \A t \in Sessions : t # s => pc'[t] = pc[t] /\ own_run'[t] = own_run[t]
        /\ UNCHANGED <<call, todo, own>>
    BY <1>0, <1>3 DEF NoteRun, TypeOK
  <2>2. ASSUME NEW t \in Sessions, t # s
        PROVE  /\ Dialect = "sqlite" => ~Writing(t)
               /\ own_run[t] # NONE => call[t].debit.run_id # call[s].debit.run_id
    BY <2>1, <2>2, HolderWrites DEF RunBlockedBy
  <2>3. RowExclusion'
    BY <2>1, <2>2 DEF LockInv, RowExclusion, Writing
  <2>4. ASSUME NEW t \in Sessions PROVE NothingHeld(t)' /\ RisingLocks(t)'
    BY <2>1 DEF LockInv, NothingHeld, RisingLocks
  <2>5. QED BY <1>0, <2>3, <2>4 DEF LockInv
<1>4. ASSUME NEW s \in Sessions, AdvanceBalance(s) PROVE LockInv'
  <2> DEFINE row(k) == UpsertSum(Visible(s, k),
                           contribution_of(call[s].debit.usage, call[s].debit.cost))
  <2>1. PICK key \in ScopeKey :
            /\ NextWindow(s, key)
            /\ \A t \in Sessions : ~RowBlockedBy(s, key, t)
            /\ own' = [own EXCEPT ![s][key] = row(key)]
            /\ todo' = [todo EXCEPT ![s] = @ \ {key}]
            /\ pc[s] = "advance" /\ pc'[s] \in {"read_money", "advance"}
            /\ \A t \in Sessions : t # s => pc'[t] = pc[t]
            /\ UNCHANGED <<call, own_run>>
    BY <1>0, <1>4 DEF AdvanceBalance, TypeOK
  <2> HIDE DEF row
  <2>2. /\ \A t \in Sessions : t # s => own'[t] = own[t] /\ todo'[t] = todo[t]
        /\ \A k \in ScopeKey : own'[s][k] = IF k = key THEN row(key) ELSE own[s][k]
        /\ todo'[s] = todo[s] \ {key}
    BY <1>0, <2>1 DEF TypeOK, Book
  <2>3. RowExclusion'
    BY <2>1, <2>2 DEF LockInv, RowExclusion, Writing, RowBlockedBy
  <2>4. ASSUME NEW t \in Sessions PROVE NothingHeld(t)'
    BY <2>1, <2>2 DEF LockInv, NothingHeld
  <2>5. ASSUME NEW t \in Sessions PROVE RisingLocks(t)'
    <3>1. CASE t # s
      BY <2>2, <3>1 DEF LockInv, RisingLocks
    <3>2. CASE t = s
      <4>1. ASSUME NEW next \in todo[s] \ {key}, next \in ScopeKey
            PROVE  WindowOrder[key] < WindowOrder[next]
        BY <2>1, <4>1, SqlAssumption DEF NextWindow
      <4>2. QED BY <2>2, <3>2, <4>1 DEF LockInv, RisingLocks
    <3>3. QED BY <3>1, <3>2
  <2>6. QED BY <1>0, <2>3, <2>4, <2>5 DEF LockInv
<1>5. ASSUME NEW s \in Sessions, ReadMoney(s) PROVE LockInv'
  BY <1>0, <1>5, LockFrame DEF ReadMoney, Writing, TypeOK
<1>6. ASSUME NEW s \in Sessions, ReadBalances(s) PROVE LockInv'
  BY <1>0, <1>6, LockFrame DEF ReadBalances, Writing, TypeOK
<1>7. ASSUME NEW s \in Sessions, Commit(s) PROVE LockInv'
  BY <1>0, <1>7, LockClose DEF Commit
<1>8. ASSUME NEW s \in Sessions, Rollback(s) PROVE LockInv'
  BY <1>0, <1>8, LockClose DEF Rollback
<1>9. CASE UNCHANGED vars
  BY <1>0, <1>9 DEF vars, LockInv, RowExclusion, NothingHeld, RisingLocks, Writing
<1>10. QED
  BY <1>1, <1>2, <1>3, <1>4, <1>5, <1>6, <1>7, <1>8, <1>9 DEF Next, Step

(* Waits climb: a session that is waited for is past its first statement, so it *)
(* can wait only for a window, and all it holds sorts before that window.       *)
LEMMA LocksClimb == LockInv => WaitsClimb
<1> SUFFICES ASSUME LockInv, NEW s \in Sessions, NEW t \in Sessions, NEW u \in Sessions,
                    Waits(s, t), Waits(t, u), NEW m \in WaitsAt(s), NEW n \in WaitsAt(t)
             PROVE  m < n
  BY DEF WaitsClimb
<1>1. Writing(t)
  BY HolderWrites DEF Waits, RunBlockedBy, RowBlockedBy
<1>2. pc[t] = "advance"
  BY <1>1 DEF Waits, Writing
<1>3. PICK next \in ScopeKey : NextWindow(t, next) /\ n = WindowOrder[next]
  BY <1>2 DEF WaitsAt
<1>4. n \in Nat \ {0} /\ next \in todo[t]
  BY <1>3, SqlAssumption DEF NextWindow
<1>5. CASE pc[s] = "note_run"
  BY <1>4, <1>5 DEF WaitsAt
<1>6. CASE pc[s] = "advance"
  <2>1. PICK held \in ScopeKey : NextWindow(s, held) /\ own[t][held] # NONE
    BY <1>6 DEF Waits, RowBlockedBy
  <2>2. PICK k \in ScopeKey : NextWindow(s, k) /\ m = WindowOrder[k]
    BY <1>6 DEF WaitsAt
  <2>3. m <= WindowOrder[held]
    BY <2>1, <2>2 DEF NextWindow
  <2>4. WindowOrder[held] < n
    BY <1>3, <1>4, <2>1 DEF LockInv, RisingLocks
  <2>5. m \in Nat /\ WindowOrder[held] \in Nat
    BY <2>2, SqlAssumption
  <2>6. QED BY <1>4, <2>3, <2>4, <2>5
<1>7. QED BY <1>5, <1>6 DEF Waits

(* No row ever has two uncommitted versions (sql.py class docstring, "a         *)
(* concurrent writer blocks on it until this transaction commits"), for any     *)
(* number of sessions and windows.                                              *)
THEOREM ExclusiveRows == Spec => []RowExclusion
<1>1. LockInv => RowExclusion
  BY DEF LockInv
<1>2. QED BY LockInit, LockStep, <1>1, PTL DEF Spec

(* No cycle of sessions waits for each other (sql.py class docstring, "rows are *)
(* also upserted in sorted key order"), for any number of sessions and windows. *)
THEOREM NoWaitCycle == Spec => []WaitsClimb
<1>1. QED BY LockInit, LockStep, LocksClimb, PTL DEF Spec

-----------------------------------------------------------------------------
(* The refinement's invariant: what a session's uncommitted state says of    *)
(* the committed rows, and goes on saying while other sessions commit.       *)

Debiting(s) == pc[s] # "idle" /\ call[s].op = "debit"

\* A window as a statement of s reads it.
Seen(s, key) == IF Visible(s, key) = NONE THEN EMPTY_BALANCE ELSE Visible(s, key)

\* The windows of which no other session can commit a new version until s is done.
Settled(s) == IF Dialect = "sqlite" THEN ScopeKey ELSE WindowsOf(call[s].debit)

\* BeginDebit accepted the debit, and nothing has changed it since.
CallFits(s) ==
    Debiting(s) =>
        LET debit == call[s].debit
        IN  /\ call[s].ceilings \in CeilingSets
            /\ \E d \in Debits, now \in Instants : debit = resolved_debit(d, now)
            /\ currency_compatible(call[s].ceilings, debit.cost, debit.run_id,
                                   debit.occurred_at, debit.tags)

\* The rows a session holds are the committed rows with its debit added, once.
WindowsFit(s) ==
    /\ ~Debiting(s) => own[s] = NoOwnRows
    /\ Debiting(s) =>
        /\ todo[s] \subseteq WindowsOf(call[s].debit)
        /\ pc[s] \notin {"note_run", "advance"} => todo[s] = {}
        /\ \A key \in ScopeKey :
            IF key \in WindowsOf(call[s].debit) \ todo[s]
            THEN /\ own[s][key] # NONE
                 /\ own[s][key] = UpsertSum(balances[key],
                                     contribution_of(call[s].debit.usage, call[s].debit.cost))
            ELSE own[s][key] = NONE

\* INSERT ... DO NOTHING did nothing only if the run was known.
RunFits(s) == Writing(s) /\ own_run[s] = NONE => runs[call[s].debit.run_id] # NONE

MoneyFits(s) ==
    pc[s] = "read_balances" =>
        \A key \in ScopeKey :
            key \in WindowsRead(s) /\ key \in Settled(s)
            => money_rows[s][key] = Seen(s, key).nanos_by_currency

\* The verdicts of an entry about to commit, over the windows that are settled.
EntryFits(s) ==
    entry[s] # NONE =>
        LET debit == call[s].debit
            vs    == entry[s].verdicts
        IN  /\ entry[s].debit = debit
            /\ entry[s].unpriced = is_unpriced(debit.cost)
            /\ DOMAIN vs = DOMAIN call[s].ceilings
            /\ \A i \in DOMAIN call[s].ceilings :
                LET ceiling == call[s].ceilings[i]
                    key     == window_for(ceiling, debit.run_id, debit.occurred_at)
                IN  /\ vs[i].ceiling = ceiling
                    /\ key \in Settled(s) => vs[i] = verdict_over(ceiling, Seen(s, key), NOTHING)

Fits(s) == CallFits(s) /\ WindowsFit(s) /\ RunFits(s) /\ MoneyFits(s) /\ EntryFits(s)

FitInv == LockInv /\ \A s \in Sessions : Fits(s)

-----------------------------------------------------------------------------
(* Lemmas *)

(* The upsert adds what BalanceBook.record adds (sql.py _upsert_sum, core.py    *)
(* BalanceBook.record), whether or not the row was there.                       *)
LEMMA UpsertAccumulates ==
    ASSUME NEW row \in ScopeBalance \cup {NONE}, NEW c \in DebitContribution
    PROVE  UpsertSum(row, c) = Accumulate(IF row = NONE THEN EMPTY_BALANCE ELSE row, c)
<1>1. /\ c.tokens \in Nat /\ c.nanos \in Nat
      /\ Count(c.unpriced) \in Nat /\ Count(c.untotalled) \in Nat /\ Count(c.unmetered) \in Nat
  BY DEF DebitContribution, Count
<1>2. CASE row = NONE
  <2>1. \A currency \in Currencies :
            (IF c.priced /\ c.currency = currency THEN c.nanos ELSE NONE)
            = (IF c.priced /\ c.currency = currency
               THEN NoneAsZero(EMPTY_BALANCE.nanos_by_currency[currency]) + c.nanos
               ELSE EMPTY_BALANCE.nanos_by_currency[currency])
    BY <1>1 DEF EMPTY_BALANCE, NoneAsZero
  <2>2. QED BY <1>1, <1>2, <2>1 DEF UpsertSum, InsertedRow, Accumulate, EMPTY_BALANCE
<1>3. CASE row # NONE
  <2>1. \A currency \in Currencies :
            MoneyUpserted(row.nanos_by_currency[currency], c)
            = NoneAsZero(row.nanos_by_currency[currency]) + c.nanos
    BY <1>1, <1>3 DEF MoneyUpserted, NoneAsZero, ScopeBalance
  <2>2. QED BY <1>3, <2>1 DEF UpsertSum, SummedRow, Accumulate
<1>4. QED BY <1>2, <1>3

(* A window a ceiling of a debit reads is a window. *)
LEMMA WindowForType ==
    ASSUME NEW ceiling \in BudgetCeiling, NEW run_id \in Runs, NEW at \in Instants
    PROVE  window_for(ceiling, run_id, at) \in ScopeKey
BY DEF window_for, ScopeKey, BudgetCeiling, CeilingScope

(* A debiting session's call is a well-formed debit. *)
LEMMA DebitingType ==
    ASSUME TypeInv, NEW s \in Sessions, Debiting(s)
    PROVE  /\ call[s].debit \in ResolvedDebit
           /\ call[s].debit.run_id \in Runs /\ call[s].debit.occurred_at \in Instants
           /\ call[s].ceilings \in Seq(BudgetCeiling)
           /\ contribution_of(call[s].debit.usage, call[s].debit.cost) \in DebitContribution
<1>1. call[s] \in Call /\ call[s].op = "debit"
  BY DEF Debiting, TypeInv, CallOK
<1>2. QED BY <1>1, DebitCallType, CallDebitType, ContributionType DEF ResolvedDebit

(* A session that has closed fits. *)
LEMMA FitsClose ==
    ASSUME LockInv, NEW s \in Sessions, Close(s)
    PROVE  Fits(s)'
<1>1. /\ pc'[s] = "idle" /\ own'[s] = NoOwnRows /\ entry'[s] = NONE
  BY DEF LockInv, TypeInv, TypeOK, Close
<1>2. QED
  BY <1>1 DEF Fits, CallFits, WindowsFit, RunFits, MoneyFits, EntryFits, Debiting, Writing

\* No step of another session touches the locals of t.
LocalsUnchanged(t) ==
    /\ pc'[t] = pc[t] /\ call'[t] = call[t] /\ todo'[t] = todo[t] /\ own'[t] = own[t]
    /\ own_run'[t] = own_run[t] /\ money_rows'[t] = money_rows[t] /\ entry'[t] = entry[t]

(* While nothing commits, the other sessions go on fitting. *)
LEMMA FitsFrame ==
    ASSUME NEW t \in Sessions, Fits(t), LocalsUnchanged(t), UNCHANGED committed
    PROVE  Fits(t)'
<1>1. \A key : Visible(t, key)' = Visible(t, key) /\ Seen(t, key)' = Seen(t, key)
  BY DEF LocalsUnchanged, committed, Visible, Seen
<1>2. WindowsRead(t)' = WindowsRead(t) /\ Settled(t)' = Settled(t) /\ Debiting(t)' = Debiting(t)
  BY DEF LocalsUnchanged, WindowsRead, Settled, Debiting
<1>3. CallFits(t)'
  BY <1>2 DEF Fits, CallFits, LocalsUnchanged
<1>4. WindowsFit(t)'
  BY <1>2 DEF Fits, WindowsFit, LocalsUnchanged, committed
<1>5. RunFits(t)'
  BY DEF Fits, RunFits, LocalsUnchanged, committed, Writing
<1>6. MoneyFits(t)'
  BY <1>1, <1>2 DEF Fits, MoneyFits, LocalsUnchanged
<1>7. EntryFits(t)'
  BY <1>1, <1>2 DEF Fits, EntryFits, LocalsUnchanged
<1>8. QED BY <1>3, <1>4, <1>5, <1>6, <1>7 DEF Fits

(* A commit of session s changes no row that another session t holds, and no    *)
(* window that is settled for t once t has upserted all of its own.             *)
LEMMA CommitSpares ==
    ASSUME FitInv, NEW s \in Sessions, NEW t \in Sessions, t # s, Commit(s), LocalsUnchanged(t)
    PROVE  /\ \A key \in ScopeKey : own[t][key] # NONE => balances'[key] = balances[key]
           /\ Debiting(t) /\ Writing(t) /\ todo[t] = {}
                => \A key \in Settled(t) \cap ScopeKey : Seen(t, key)' = Seen(t, key)
<1>1. ASSUME NEW key \in ScopeKey, own[t][key] # NONE PROVE balances'[key] = balances[key]
  BY <1>1 DEF FitInv, LockInv, RowExclusion, Commit, Visible
<1>2. ASSUME Debiting(t), Writing(t), todo[t] = {}, NEW key \in Settled(t) \cap ScopeKey
      PROVE  Seen(t, key)' = Seen(t, key)
  <2>1. Dialect # "sqlite"
    BY <1>2 DEF FitInv, LockInv, RowExclusion, Commit, Writing
  <2>2. own[t][key] # NONE
    BY <1>2, <2>1 DEF Settled, FitInv, Fits, WindowsFit
  <2>3. QED BY <2>2 DEF Seen, Visible, LocalsUnchanged
<1>3. QED BY <1>1, <1>2

(* A commit leaves the other sessions fitting the rows it has committed.        *)
LEMMA FitsCommit ==
    ASSUME FitInv, NEW s \in Sessions, NEW t \in Sessions, t # s, Commit(s), LocalsUnchanged(t)
    PROVE  Fits(t)'
<1>1. WindowsRead(t)' = WindowsRead(t) /\ Settled(t)' = Settled(t) /\ Debiting(t)' = Debiting(t)
  BY DEF LocalsUnchanged, WindowsRead, Settled, Debiting
<1>2. Fits(t)
  BY DEF FitInv
<1>3. CallFits(t)'
  BY <1>1, <1>2 DEF Fits, CallFits, LocalsUnchanged
<1>4. WindowsFit(t)'
  BY <1>1, <1>2, CommitSpares DEF Fits, WindowsFit, LocalsUnchanged
<1>5. RunFits(t)'
  <2>1. \A r \in Runs : runs[r] # NONE => runs'[r] # NONE
    BY DEF FitInv, LockInv, TypeInv, TypeOK, Commit
  <2>2. Writing(t) => call[t].debit.run_id \in Runs
    BY CallDebitType DEF FitInv, LockInv, TypeInv, CallOK, Writing
  <2>3. QED BY <1>2, <2>1, <2>2 DEF Fits, RunFits, LocalsUnchanged, Writing
<1>6. ASSUME Debiting(t), pc[t] \in {"read_balances", "commit"}
      PROVE  \A key \in Settled(t) \cap ScopeKey : Seen(t, key)' = Seen(t, key)
  <2>1. todo[t] = {} /\ Writing(t)
    BY <1>2, <1>6 DEF Fits, WindowsFit, Writing
  <2>2. QED BY <1>6, <2>1, CommitSpares
<1>7. MoneyFits(t)'
  <2>1. pc[t] = "read_balances" => Debiting(t)
    BY DEF FitInv, LockInv, TypeInv, CallOK, Debiting
  <2>2. QED BY <1>1, <1>2, <1>6, <2>1 DEF Fits, MoneyFits, LocalsUnchanged
<1>8. EntryFits(t)'
  <2>1. entry[t] # NONE => Debiting(t) /\ pc[t] = "commit"
    BY DEF FitInv, LockInv, TypeInv, CallOK, Debiting
  <2>2. SUFFICES ASSUME entry[t] # NONE PROVE EntryFits(t)'
    BY DEF EntryFits, LocalsUnchanged
  <2>3. ASSUME NEW i \in DOMAIN call[t].ceilings
        PROVE  window_for(call[t].ceilings[i], call[t].debit.run_id, call[t].debit.occurred_at)
                    \in ScopeKey
    BY <2>1, <2>2, DebitingType, WindowForType DEF FitInv, LockInv
  <2>4. QED BY <1>1, <1>2, <1>6, <2>1, <2>2, <2>3 DEF Fits, EntryFits, LocalsUnchanged
<1>9. QED BY <1>3, <1>4, <1>5, <1>7, <1>8 DEF Fits

(* Initially every session fits. *)
LEMMA FitInit == Init => FitInv
<1> SUFFICES ASSUME Init, NEW s \in Sessions PROVE Fits(s)
  BY LockInit DEF FitInv
<1>1. pc[s] = "idle" /\ own[s] = NoOwnRows /\ entry[s] = NONE
  BY DEF Init
<1>2. QED
  BY <1>1 DEF Fits, CallFits, WindowsFit, RunFits, MoneyFits, EntryFits, Debiting, Writing

(* The book a debit seeds is what its statements see, in every settled window   *)
(* its ceilings read: the money it read first still belongs to the row.         *)
LEMMA SeededSeen ==
    ASSUME TypeInv, NEW s \in Sessions, MoneyFits(s), pc[s] = "read_balances",
           NEW key \in ScopeKey, key \in WindowsRead(s), key \in Settled(s)
    PROVE  BalanceIn(Seeded(s), key) = Seen(s, key)
<1>1. money_rows[s][key] = Seen(s, key).nanos_by_currency
  BY DEF MoneyFits
<1>2. Visible(s, key) \in ScopeBalance \cup {NONE}
  BY VisibleType DEF TypeInv
<1>3. CASE Visible(s, key) = NONE
  BY <1>3 DEF BalanceIn, Seeded, Seen
<1>4. CASE Visible(s, key) # NONE
  <2>1. [Visible(s, key) EXCEPT !.nanos_by_currency = money_rows[s][key]] = Visible(s, key)
    BY <1>1, <1>2, <1>4 DEF Seen, ScopeBalance
  <2>2. Seeded(s)[key] = Visible(s, key)
    BY <1>4, <2>1 DEF Seeded
  <2>3. QED BY <1>4, <2>2 DEF BalanceIn, Seen
<1>5. QED BY <1>3, <1>4

(* What the first SELECT returns is the money of the rows it sees.              *)
LEMMA MoneyRead ==
    ASSUME TypeInv, NEW s \in Sessions, ReadMoney(s)
    PROVE  MoneyFits(s)'
<1>1. /\ UNCHANGED <<committed, call, own>>
      /\ money_rows'[s] = [key \in ScopeKey |->
                              IF key \in WindowsRead(s) /\ Visible(s, key) # NONE
                              THEN Visible(s, key).nanos_by_currency
                              ELSE EMPTY_BALANCE.nanos_by_currency]
  BY DEF ReadMoney, TypeInv, TypeOK
<1>2. QED BY <1>1 DEF MoneyFits, WindowsRead, Settled, Seen, Visible, committed

(* The entry a debit inserts holds the verdicts over what it sees, in every     *)
(* settled window (sql.py SqlLedger.debit).                                     *)
LEMMA EntryWritten ==
    ASSUME TypeInv, NEW s \in Sessions, MoneyFits(s), ReadBalances(s)
    PROVE  EntryFits(s)'
<1> DEFINE debit == call[s].debit
           vs == verdicts(call[s].ceilings, Seeded(s), debit.run_id, debit.occurred_at)
           key(i) == window_for(call[s].ceilings[i], debit.run_id, debit.occurred_at)
<1>1. /\ pc[s] = "read_balances"
      /\ UNCHANGED <<committed, call, own>>
      /\ entry'[s] = [entry_id |-> call[s].entry_id, debit |-> debit,
                      unpriced |-> is_unpriced(debit.cost), verdicts |-> vs]
  BY DEF ReadBalances, TypeInv, TypeOK
<1>2. Debiting(s)
  BY <1>1 DEF TypeInv, CallOK, Debiting
<1>3. ASSUME NEW i \in DOMAIN call[s].ceilings
      PROVE  /\ vs[i].ceiling = call[s].ceilings[i]
             /\ key(i) \in Settled(s)
                  => vs[i] = verdict_over(call[s].ceilings[i], Seen(s, key(i)), NOTHING)
  <2>1. vs[i] = verdict_over(call[s].ceilings[i], BalanceIn(Seeded(s), key(i)), NOTHING)
    BY DEF verdicts
  <2>2. key(i) \in ScopeKey
    BY <1>2, DebitingType, WindowForType
  <2>3. key(i) \in WindowsRead(s)
    BY DEF WindowsRead
  <2>4. key(i) \in Settled(s) => BalanceIn(Seeded(s), key(i)) = Seen(s, key(i))
    BY <1>1, <2>2, <2>3, SeededSeen
  <2>5. vs[i].ceiling = call[s].ceilings[i]
    BY <2>1 DEF verdict_over
  <2> HIDE DEF vs, key
  <2>6. QED BY <2>1, <2>4, <2>5
<1>4. DOMAIN vs = DOMAIN call[s].ceilings
  BY DEF verdicts
<1>5. /\ Settled(s)' = Settled(s)
      /\ \A k : Seen(s, k)' = Seen(s, k)
  BY <1>1 DEF Settled, Seen, Visible, committed
<1>6. /\ entry'[s].debit = debit /\ entry'[s].unpriced = is_unpriced(debit.cost)
      /\ entry'[s].verdicts = vs
  BY <1>1
<1> HIDE DEF vs
<1>7. QED BY <1>1, <1>3, <1>4, <1>5, <1>6 DEF EntryFits

(* Every step keeps every session fitting. *)
LEMMA FitStep == FitInv /\ [Next]_vars => FitInv'
<1> SUFFICES ASSUME FitInv, [Next]_vars PROVE FitInv'
  OBVIOUS
<1>0. LockInv /\ LockInv' /\ TypeOK
  BY LockStep DEF FitInv, LockInv, TypeInv
<1>1. ASSUME NEW s \in Sessions, UNCHANGED committed, Fits(s)',
             \A t \in Sessions : t # s => LocalsUnchanged(t)
      PROVE  FitInv'
  <2>1. \A t \in Sessions : Fits(t)'
    BY <1>1, FitsFrame DEF FitInv
  <2>2. QED BY <1>0, <2>1 DEF FitInv
<1>2. ASSUME NEW s \in Sessions, BeginDebit(s) PROVE FitInv'
  <2>1. PICK d \in Debits, now \in Instants, ceilings \in CeilingSets :
            LET debit == resolved_debit(d, now)
            IN  /\ currency_compatible(ceilings, debit.cost, debit.run_id, debit.occurred_at,
                                       debit.tags)
                /\ call' = [call EXCEPT ![s] = [op |-> "debit", debit |-> debit,
                                                ceilings |-> ceilings, entry_id |-> minted + 1]]
                /\ todo' = [todo EXCEPT ![s] = WindowsOf(debit)]
    BY <1>2 DEF BeginDebit
  <2>2. /\ pc'[s] = "note_run" /\ call'[s].op = "debit"
        /\ call'[s].debit = resolved_debit(d, now) /\ call'[s].ceilings = ceilings
        /\ todo'[s] = WindowsOf(call'[s].debit)
        /\ own'[s] = NoOwnRows /\ entry'[s] = NONE
    BY <1>0, <1>2, <2>1 DEF BeginDebit, TypeOK, LockInv, TypeInv, NothingHeld, CallOK
  <2>3. CallFits(s)'
    BY <2>1, <2>2 DEF CallFits
  <2>4. WindowsFit(s)'
    BY <2>2 DEF WindowsFit, Debiting, NoOwnRows
  <2>5. Fits(s)'
    BY <2>2, <2>3, <2>4 DEF Fits, RunFits, MoneyFits, EntryFits, Writing
  <2>6. QED BY <1>0, <1>1, <1>2, <2>1, <2>5 DEF BeginDebit, LocalsUnchanged, TypeOK
<1>3. ASSUME NEW s \in Sessions, BeginDeclareRun(s) PROVE FitInv'
  <2>1. PICK run_id \in DeclaredRuns, now \in Instants :
            call' = [call EXCEPT ![s] = [op |-> "declare_run",
                                         debit |-> [run_id |-> run_id, occurred_at |-> now]]]
    BY <1>3 DEF BeginDeclareRun
  <2>2. /\ pc'[s] = "note_run" /\ call'[s].op = "declare_run"
        /\ own'[s] = NoOwnRows /\ entry'[s] = NONE
    BY <1>0, <1>3, <2>1 DEF BeginDeclareRun, TypeOK, LockInv, TypeInv, NothingHeld, CallOK
  <2>3. Fits(s)'
    BY <2>2 DEF Fits, CallFits, WindowsFit, RunFits, MoneyFits, EntryFits, Debiting, Writing
  <2>4. QED BY <1>0, <1>1, <1>3, <2>1, <2>3 DEF BeginDeclareRun, LocalsUnchanged, TypeOK
<1>4. ASSUME NEW s \in Sessions, NoteRun(s) PROVE FitInv'
  <2>1. /\ pc[s] = "note_run" /\ entry'[s] = NONE
        /\ pc'[s] = IF call[s].op = "debit" THEN "advance" ELSE "commit"
        /\ own_run'[s] = IF runs[call[s].debit.run_id] = NONE
                         THEN call[s].debit.occurred_at ELSE NONE
        /\ UNCHANGED <<committed, call, todo, own>>
    BY <1>0, <1>4 DEF NoteRun, TypeOK, LockInv, TypeInv, CallOK
  <2>2. call[s].debit.occurred_at # NONE
    BY <1>0, <2>1, CallDebitType, DataAssumption DEF LockInv, TypeInv, CallOK
  <2>3. CallFits(s)'
    BY <2>1 DEF FitInv, Fits, CallFits, Debiting
  <2>4. WindowsFit(s)'
    BY <2>1 DEF FitInv, Fits, WindowsFit, Debiting, committed
  <2>5. RunFits(s)'
    BY <2>1, <2>2 DEF RunFits, committed
  <2>6. Fits(s)'
    BY <2>1, <2>3, <2>4, <2>5 DEF Fits, MoneyFits, EntryFits
  <2>7. QED BY <1>0, <1>1, <1>4, <2>6 DEF NoteRun, LocalsUnchanged, TypeOK
<1>5. ASSUME NEW s \in Sessions, AdvanceBalance(s) PROVE FitInv'
  <2> DEFINE debit == call[s].debit
             c == contribution_of(debit.usage, debit.cost)
  <2>1. PICK key \in ScopeKey :
            /\ key \in todo[s]
            /\ own' = [own EXCEPT ![s][key] = UpsertSum(Visible(s, key), c)]
            /\ todo' = [todo EXCEPT ![s] = @ \ {key}]
            /\ pc' = [pc EXCEPT ![s] = IF todo[s] = {key} THEN "read_money" ELSE "advance"]
            /\ pc[s] = "advance"
            /\ UNCHANGED <<committed, minted, call, own_run, money_rows, entry>>
    BY <1>5 DEF AdvanceBalance, NextWindow
  <2>2. Debiting(s) /\ entry[s] = NONE
    BY <1>0, <2>1 DEF LockInv, TypeInv, CallOK, Debiting
  <2>3. c \in DebitContribution /\ Visible(s, key) \in ScopeBalance \cup {NONE}
    BY <1>0, <2>2, DebitingType, VisibleType DEF LockInv
  <2>4. UpsertSum(Visible(s, key), c) # NONE
    BY <2>3, UpsertSumType, NoneIsNoBalance
  <2>5. own[s][key] = NONE /\ Visible(s, key) = balances[key] /\ todo[s] \subseteq WindowsOf(debit)
    BY <2>1, <2>2 DEF FitInv, Fits, WindowsFit, Visible
  <2> HIDE DEF c
  <2>6. /\ \A k \in ScopeKey : own'[s][k] = IF k = key THEN UpsertSum(balances[key], c)
                                           ELSE own[s][k]
        /\ todo'[s] = todo[s] \ {key}
        /\ pc'[s] = IF todo[s] = {key} THEN "read_money" ELSE "advance"
    BY <1>0, <2>1, <2>5 DEF TypeOK, Book
  <2>7. WindowsFit(s)'
    <3>1. Debiting(s)'
      BY <2>1, <2>2, <2>6 DEF Debiting
    <3>2. pc'[s] \notin {"note_run", "advance"} => todo'[s] = {}
      BY <2>6
    <3>3. ASSUME NEW k \in ScopeKey
          PROVE  IF k \in WindowsOf(debit) \ todo'[s]
                 THEN own'[s][k] # NONE /\ own'[s][k] = UpsertSum(balances[k], c)
                 ELSE own'[s][k] = NONE
      BY <2>1, <2>2, <2>4, <2>5, <2>6 DEF FitInv, Fits, WindowsFit, c
    <3>4. QED BY <2>1, <2>5, <2>6, <3>1, <3>2, <3>3 DEF WindowsFit, committed, c
  <2>8. CallFits(s)'
    BY <2>1, <2>2 DEF FitInv, Fits, CallFits
  <2>9. RunFits(s)'
    BY <2>1 DEF FitInv, Fits, RunFits, Writing, committed
  <2>10. Fits(s)'
    BY <2>1, <2>2, <2>6, <2>7, <2>8, <2>9 DEF Fits, MoneyFits, EntryFits
  <2>11. QED BY <1>0, <1>1, <2>1, <2>10 DEF LocalsUnchanged, TypeOK
<1>6. ASSUME NEW s \in Sessions, ReadMoney(s) PROVE FitInv'
  <2>1. /\ pc[s] = "read_money" /\ pc'[s] = "read_balances"
        /\ UNCHANGED <<committed, call, todo, own, own_run, entry>>
        /\ \A t \in Sessions : t # s => LocalsUnchanged(t)
    BY <1>0, <1>6 DEF ReadMoney, LocalsUnchanged, TypeOK
  <2>2. entry'[s] = NONE
    BY <1>0, <2>1 DEF LockInv, TypeInv, CallOK
  <2>3. MoneyFits(s)'
    BY <1>0, <1>6, MoneyRead DEF LockInv
  <2>4. CallFits(s)' /\ WindowsFit(s)'
    BY <2>1 DEF FitInv, Fits, CallFits, WindowsFit, Debiting, committed
  <2>5. RunFits(s)'
    BY <2>1 DEF FitInv, Fits, RunFits, Writing, committed
  <2>6. Fits(s)'
    BY <2>2, <2>3, <2>4, <2>5 DEF Fits, EntryFits
  <2>7. QED BY <1>1, <2>1, <2>6
<1>7. ASSUME NEW s \in Sessions, ReadBalances(s) PROVE FitInv'
  <2>1. /\ pc[s] = "read_balances" /\ pc'[s] = "commit"
        /\ UNCHANGED <<committed, call, todo, own, own_run, money_rows>>
        /\ \A t \in Sessions : t # s => LocalsUnchanged(t)
    BY <1>0, <1>7 DEF ReadBalances, LocalsUnchanged, TypeOK
  <2>2. EntryFits(s)'
    BY <1>0, <1>7, EntryWritten DEF FitInv, Fits, LockInv
  <2>3. CallFits(s)' /\ WindowsFit(s)'
    BY <2>1 DEF FitInv, Fits, CallFits, WindowsFit, Debiting, committed
  <2>4. RunFits(s)'
    BY <2>1 DEF FitInv, Fits, RunFits, Writing, committed
  <2>5. Fits(s)'
    BY <2>1, <2>2, <2>3, <2>4 DEF Fits, MoneyFits
  <2>6. QED BY <1>1, <2>1, <2>5
<1>8. ASSUME NEW s \in Sessions, Commit(s) PROVE FitInv'
  <2>1. Close(s) /\ \A t \in Sessions : t # s => LocalsUnchanged(t)
    BY <1>0, <1>8 DEF Commit, Close, LocalsUnchanged, TypeOK
  <2>2. \A t \in Sessions : Fits(t)'
    BY <1>0, <1>8, <2>1, FitsClose, FitsCommit
  <2>3. QED BY <1>0, <2>2 DEF FitInv
<1>9. ASSUME NEW s \in Sessions, Rollback(s) PROVE FitInv'
  <2>1. Close(s) /\ UNCHANGED committed /\ \A t \in Sessions : t # s => LocalsUnchanged(t)
    BY <1>0, <1>9 DEF Rollback, Close, LocalsUnchanged, TypeOK
  <2>2. QED BY <1>0, <1>1, <2>1, FitsClose
<1>10. CASE UNCHANGED vars
  <2>1. UNCHANGED committed /\ \A t \in Sessions : LocalsUnchanged(t)
    BY <1>10 DEF vars, committed, LocalsUnchanged
  <2>2. QED BY <1>0, <2>1, FitsFrame DEF FitInv
<1>11. QED
  BY <1>2, <1>3, <1>4, <1>5, <1>6, <1>7, <1>8, <1>9, <1>10 DEF Next, Step

-----------------------------------------------------------------------------
(* The operators of BalanceBook that L brings along are those of this module.   *)

LEMMA SameWindows ==
    /\ L!ScopeKey = ScopeKey /\ L!EmptyBook = EmptyBook
    /\ \A debit : L!WindowsOf(debit) = WindowsOf(debit)
    /\ \A run_id, at, tags : L!windows_touched(run_id, at, tags) = windows_touched(run_id, at, tags)
    /\ \A ceiling, run_id, at : L!window_for(ceiling, run_id, at) = window_for(ceiling, run_id, at)
<1>1. \A at : L!utc_day_key(at) = utc_day_key(at)
  BY DEF L!utc_day_key, utc_day_key
<1>2. L!ScopeKey = ScopeKey
  BY <1>1 DEF L!ScopeKey, ScopeKey
<1>3. L!EmptyBook = EmptyBook
  BY <1>2 DEF L!EmptyBook, EmptyBook
<1>4. \A run_id, at, tags : L!windows_touched(run_id, at, tags) = windows_touched(run_id, at, tags)
  BY <1>1 DEF L!windows_touched, windows_touched
<1>5. \A debit : L!WindowsOf(debit) = WindowsOf(debit)
  BY <1>4 DEF L!WindowsOf, WindowsOf
<1>6. \A ceiling, run_id, at : L!window_for(ceiling, run_id, at) = window_for(ceiling, run_id, at)
  BY <1>1 DEF L!window_for, window_for
<1>7. QED BY <1>2, <1>3, <1>4, <1>5, <1>6

LEMMA SameContribution ==
    /\ \A usage, cost : L!contribution_of(usage, cost) = contribution_of(usage, cost)
    /\ \A cost : L!is_unpriced(cost) = is_unpriced(cost)
    /\ L!NOTHING = NOTHING /\ L!EMPTY_BALANCE = EMPTY_BALANCE
<1>1. L!TokenClasses = TokenClasses
  BY DEF L!TokenClasses, TokenClasses
<1>2. \A cost : L!Totalled(cost) = Totalled(cost)
  BY <1>1 DEF L!Totalled, Totalled
<1>3. \A f : L!SumOfReported(f) = SumOfReported(f)
  BY DEF L!SumOfReported, SumOfReported, L!OrZero, OrZero
<1>4. \A usage, cost : L!contribution_of(usage, cost) = contribution_of(usage, cost)
  BY <1>1, <1>2, <1>3 DEF L!contribution_of, contribution_of
<1>5. \A cost : L!is_unpriced(cost) = is_unpriced(cost)
  BY <1>2 DEF L!is_unpriced, is_unpriced
<1>6. QED BY <1>4, <1>5 DEF L!NOTHING, NOTHING, L!EMPTY_BALANCE, EMPTY_BALANCE

LEMMA SameRecord == \A book, debit : L!record(book, debit) = record(book, debit)
<1>1. \A balance, delta : L!Accumulate(balance, delta) = Accumulate(balance, delta)
  BY DEF L!Accumulate, Accumulate, L!NoneAsZero, NoneAsZero, L!Count, Count
<1>2. \A book, key : L!BalanceIn(book, key) = BalanceIn(book, key)
  BY SameContribution DEF L!BalanceIn, BalanceIn
<1>3. QED BY <1>1, <1>2, SameWindows, SameContribution DEF L!record, record

LEMMA SameVerdicts ==
    /\ \A ceilings, book, run_id, at :
            L!verdicts(ceilings, book, run_id, at) = verdicts(ceilings, book, run_id, at)
    /\ \A vs, debit, every : L!report(vs, debit, every) = report(vs, debit, every)
    /\ \A ceilings, cost, run_id, at, tags :
            L!currency_compatible(ceilings, cost, run_id, at, tags)
            = currency_compatible(ceilings, cost, run_id, at, tags)
    /\ \A debit, now : L!resolved_debit(debit, now) = resolved_debit(debit, now)
<1>1. \A ceiling, balance, delta :
        L!verdict_over(ceiling, balance, delta) = verdict_over(ceiling, balance, delta)
  BY DEF L!verdict_over, verdict_over, L!MoneyWith, MoneyWith, L!OverMoney, OverMoney,
         L!OverTokens, OverTokens, L!StrictlyUnknown, StrictlyUnknown,
         L!NoneAsZero, NoneAsZero, L!Count, Count
<1>2. \A book, key : L!BalanceIn(book, key) = BalanceIn(book, key)
  BY SameContribution DEF L!BalanceIn, BalanceIn
<1>3. \A ceilings, book, run_id, at :
        L!verdicts(ceilings, book, run_id, at) = verdicts(ceilings, book, run_id, at)
  BY <1>1, <1>2, SameWindows, SameContribution DEF L!verdicts, verdicts
<1>4. \A vs, debit, every : L!report(vs, debit, every) = report(vs, debit, every)
  BY SameWindows DEF L!report, report, L!answered, answered
<1>5. \A ceilings, cost, run_id, at, tags :
        L!currency_compatible(ceilings, cost, run_id, at, tags)
        = currency_compatible(ceilings, cost, run_id, at, tags)
  BY SameWindows DEF L!currency_compatible, currency_compatible
<1>6. \A debit, now : L!resolved_debit(debit, now) = resolved_debit(debit, now)
  BY DEF L!resolved_debit, resolved_debit
<1>7. QED BY <1>3, <1>4, <1>5, <1>6

-----------------------------------------------------------------------------
(* Refinement *)

(* What a debit commits is the committed rows with its debit recorded. *)
LEMMA CommitRecords ==
    ASSUME FitInv, NEW s \in Sessions, Commit(s), call[s].op = "debit"
    PROVE  balances' = record(balances, call[s].debit)
<1> DEFINE debit == call[s].debit
           c == contribution_of(debit.usage, debit.cost)
<1>1. Debiting(s) /\ todo[s] = {}
  BY DEF Commit, Debiting, FitInv, Fits, WindowsFit
<1>2. c \in DebitContribution /\ balances \in Book
  BY <1>1, DebitingType DEF FitInv, LockInv, TypeInv, TypeOK
<1>3. ASSUME NEW key \in ScopeKey
      PROVE  Visible(s, key) = IF key \in WindowsOf(debit)
                               THEN Accumulate(BalanceIn(balances, key), c) ELSE balances[key]
  <2>1. CASE key \in WindowsOf(debit)
    <3>1. Visible(s, key) = UpsertSum(balances[key], c)
      BY <1>1, <2>1 DEF FitInv, Fits, WindowsFit, Visible
    <3>2. balances[key] \in ScopeBalance \cup {NONE}
      BY <1>2 DEF Book
    <3> HIDE DEF c
    <3>3. QED BY <1>2, <2>1, <3>1, <3>2, UpsertAccumulates DEF BalanceIn
  <2>2. CASE key \notin WindowsOf(debit)
    BY <1>1, <2>2 DEF FitInv, Fits, WindowsFit, Visible
  <2>3. QED BY <2>1, <2>2
<1>4. QED BY <1>3 DEF Commit, record

(* The entry of a debit reports what a book of the rows it sees reports: for    *)
(* the windows it touched and, where they are all settled, for every ceiling.   *)
LEMMA ReportsSeen ==
    ASSUME TypeInv, NEW s \in Sessions, entry[s] # NONE, EntryFits(s), NEW book,
           \A key \in ScopeKey : BalanceIn(book, key) = Seen(s, key)
    PROVE  report(entry[s].verdicts, call[s].debit, Dialect = "sqlite")
           = report(verdicts(call[s].ceilings, book, call[s].debit.run_id,
                             call[s].debit.occurred_at),
                    call[s].debit, Dialect = "sqlite")
<1> DEFINE debit == call[s].debit
           ceilings == call[s].ceilings
           vs == entry[s].verdicts
           ws == verdicts(ceilings, book, debit.run_id, debit.occurred_at)
           key(i) == window_for(ceilings[i], debit.run_id, debit.occurred_at)
<1>1. Debiting(s)
  BY DEF Debiting, TypeInv, CallOK
<1>2. /\ DOMAIN vs = DOMAIN ceilings
      /\ \A i \in DOMAIN ceilings :
            /\ vs[i].ceiling = ceilings[i]
            /\ key(i) \in Settled(s) => vs[i] = verdict_over(ceilings[i], Seen(s, key(i)), NOTHING)
  BY DEF EntryFits
<1>3. ASSUME NEW i \in DOMAIN ceilings
      PROVE  ws[i] = verdict_over(ceilings[i], Seen(s, key(i)), NOTHING)
  <2>1. key(i) \in ScopeKey
    BY <1>1, DebitingType, WindowForType
  <2>2. BalanceIn(book, key(i)) = Seen(s, key(i))
    BY <2>1
  <2>3. QED BY <2>2 DEF verdicts
<1>4. DOMAIN ws = DOMAIN ceilings
  BY DEF verdicts
<1>5. ASSUME NEW i \in DOMAIN ceilings PROVE ws[i].ceiling = ceilings[i]
  <2>1. verdict_over(ceilings[i], Seen(s, key(i)), NOTHING).ceiling = ceilings[i]
    BY DEF verdict_over
  <2> HIDE DEF ws
  <2>2. QED BY <1>3, <2>1
<1>6. ASSUME NEW i \in DOMAIN ceilings, Dialect = "sqlite" \/ key(i) \in WindowsOf(debit)
      PROVE  vs[i] = ws[i]
  <2>1. key(i) \in Settled(s)
    <3>1. key(i) \in ScopeKey
      BY <1>1, DebitingType, WindowForType
    <3>2. QED BY <1>6, <3>1 DEF Settled
  <2> HIDE DEF vs, ws, key
  <2>2. QED BY <1>2, <1>3, <2>1
<1> HIDE DEF vs, ws
<1>7. answered(vs, debit, Dialect = "sqlite") = answered(ws, debit, Dialect = "sqlite")
  BY <1>2, <1>4, <1>5 DEF answered
<1>8. \A i \in answered(vs, debit, Dialect = "sqlite") : vs[i] = ws[i]
  BY <1>2, <1>6 DEF answered
<1>9. report(vs, debit, Dialect = "sqlite") = report(ws, debit, Dialect = "sqlite")
  BY <1>7, <1>8 DEF report
<1>10. QED BY <1>9 DEF vs, ws

(* Its entry, in abstract form, holds the verdicts over the rows it commits.    *)
LEMMA CommitReports ==
    ASSUME FitInv, NEW s \in Sessions, Commit(s), call[s].op = "debit"
    PROVE  report(entry[s].verdicts, call[s].debit, Dialect = "sqlite")
           = report(verdicts(call[s].ceilings, balances', call[s].debit.run_id,
                             call[s].debit.occurred_at),
                    call[s].debit, Dialect = "sqlite")
<1>1. TypeInv /\ entry[s] # NONE /\ EntryFits(s)
  BY DEF Commit, FitInv, Fits, LockInv, TypeInv, CallOK
<1>2. \A key \in ScopeKey : BalanceIn(balances', key) = Seen(s, key)
  BY DEF Commit, BalanceIn, Seen
<1>3. QED BY <1>1, <1>2, ReportsSeen

(* The initial rows are the initial state of the promised ledger. *)
LEMMA RefineInit == Init => L!Init
<1> SUFFICES ASSUME Init PROVE L!Init
  OBVIOUS
<1>1. AbstractEntries = <<>>
  BY DEF Init, AbstractEntries
<1>2. {r \in Runs : runs[r] # NONE} = {}
  BY DEF Init
<1>3. balances = L!EmptyBook
  BY SameWindows DEF Init
<1>4. QED BY <1>1, <1>2, <1>3 DEF L!Init

(* A step that commits no row cannot be seen. *)
LEMMA RefineStutter == UNCHANGED committed => UNCHANGED L!vars
BY DEF committed, L!vars, AbstractEntries

(* Committing a declaration declares the run, or shows nothing if it was known. *)
LEMMA RefineDeclare ==
    ASSUME FitInv, NEW s \in Sessions, Commit(s), call[s].op = "declare_run"
    PROVE  [L!Next]_(L!vars)
<1>1. TypeOK /\ call[s] \in Call /\ entry[s] = NONE
  BY DEF FitInv, LockInv, TypeInv, CallOK, Commit
<1>2. PICK run_id \in Runs : run_id = call[s].debit.run_id
  BY <1>1, CallDebitType
<1>3. own[s] = NoOwnRows
  BY DEF FitInv, Fits, WindowsFit, Debiting
<1>4. balances' = balances
  BY <1>1, <1>3 DEF Commit, Visible, NoOwnRows, TypeOK, Book
<1>5. entries' = entries /\ AbstractEntries' = AbstractEntries
  BY <1>1 DEF Commit, AbstractEntries
<1>6. CASE own_run[s] = NONE
  BY <1>4, <1>5, <1>6, RefineStutter DEF Commit, committed
<1>7. CASE own_run[s] # NONE
  <2>1. {r \in Runs : runs'[r] # NONE} = {r \in Runs : runs[r] # NONE} \cup {run_id}
    BY <1>1, <1>2, <1>7 DEF Commit, TypeOK
  <2>2. L!DeclareRun(run_id)
    BY <1>4, <1>5, <2>1 DEF L!DeclareRun
  <2>3. QED BY <1>2, <2>2 DEF L!Next
<1>8. QED BY <1>6, <1>7

(* Committing a debit is the debit of the promised ledger: the balances move,   *)
(* the run is known and the entry appears, all in this step.                    *)
LEMMA RefineDebit ==
    ASSUME FitInv, NEW s \in Sessions, Commit(s), call[s].op = "debit"
    PROVE  L!Next
<1> DEFINE debit == call[s].debit
           ceilings == call[s].ceilings
           every == Dialect = "sqlite"
           ws == verdicts(ceilings, balances', debit.run_id, debit.occurred_at)
<1>1. /\ TypeOK /\ TypeOK' /\ Debiting(s) /\ entry[s] # NONE
      /\ debit.run_id \in Runs /\ Writing(s)
  <2>1. TypeOK' /\ TypeOK
    BY TypeStep DEF FitInv, LockInv, TypeInv, Next, Step
  <2>2. QED
    BY <2>1, DebitingType DEF Commit, Debiting, FitInv, LockInv, TypeInv, CallOK, Writing
<1>2. PICK d \in Debits, now \in Instants, chosen \in CeilingSets :
            debit = L!resolved_debit(d, now) /\ ceilings = chosen
  BY <1>1, SameVerdicts DEF FitInv, Fits, CallFits
<1>3. currency_compatible(ceilings, debit.cost, debit.run_id, debit.occurred_at, debit.tags)
  BY <1>1 DEF FitInv, Fits, CallFits
<1>4. balances' = L!record(balances, debit)
  BY CommitRecords, SameRecord
<1>5. {r \in Runs : runs'[r] # NONE} = {r \in Runs : runs[r] # NONE} \cup {debit.run_id}
  <2>1. CASE own_run[s] = NONE
    <3>1. runs' = runs /\ runs[debit.run_id] # NONE
      BY <1>1, <2>1 DEF Commit, FitInv, Fits, RunFits
    <3>2. QED BY <1>1, <3>1
  <2>2. CASE own_run[s] # NONE
    BY <1>1, <2>2 DEF Commit, TypeOK
  <2>3. QED BY <2>1, <2>2
<1>6. L!NewEntry(debit, ws)
        = [debit |-> debit, unpriced |-> is_unpriced(debit.cost), report |-> report(ws, debit, every)]
  BY SameContribution, SameVerdicts DEF L!NewEntry
<1>7. /\ entry[s].debit = debit
      /\ entry[s].unpriced = is_unpriced(debit.cost)
      /\ report(entry[s].verdicts, debit, every) = report(ws, debit, every)
  BY <1>1, CommitReports DEF FitInv, Fits, EntryFits
<1> HIDE DEF ws
<1>8. entries' = Append(entries, entry[s]) /\ entries \in Seq(LedgerEntry) /\ entry[s] \in LedgerEntry
  BY <1>1 DEF Commit, TypeOK
<1>9. AbstractEntries' = Append(AbstractEntries, L!NewEntry(debit, ws))
  <2> DEFINE abs(e) == [debit |-> e.debit, unpriced |-> e.unpriced,
                        report |-> report(e.verdicts, e.debit, every)]
             S == {abs(e) : e \in LedgerEntry}
             n == Len(entries)
  <2>1. abs(entry[s]) = L!NewEntry(debit, ws)
    BY <1>6, <1>7
  <2>2. /\ n \in Nat /\ DOMAIN entries = 1..n /\ DOMAIN entries' = 1..(n + 1)
        /\ \A i \in 1..n : entries'[i] = entries[i] /\ entries[i] \in LedgerEntry
        /\ entries'[n + 1] = entry[s]
    BY <1>8
  <2>3. /\ AbstractEntries = [i \in 1..n |-> abs(entries[i])]
        /\ AbstractEntries' = [i \in 1..(n + 1) |-> abs(entries'[i])]
    BY <2>2 DEF AbstractEntries
  <2>4. \A e \in LedgerEntry : abs(e) \in S
    OBVIOUS
  <2> HIDE DEF abs, S, n
  <2>5. AbstractEntries \in Seq(S) /\ Len(AbstractEntries) = n
    BY <2>2, <2>3, <2>4
  <2>6. AbstractEntries' = Append(AbstractEntries, abs(entry[s]))
    BY <2>2, <2>3, <2>5
  <2>7. QED BY <2>1, <2>6
<1>10. Len(AbstractEntries) \in Nat
  BY <1>8 DEF AbstractEntries
<1>11. L!verdicts(ceilings, balances', debit.run_id, debit.occurred_at) = ws
  BY SameVerdicts DEF ws
<1>12. L!RecordDebit(L!resolved_debit(d, now), chosen)
  BY <1>2, <1>3, <1>4, <1>5, <1>9, <1>10, <1>11, SameVerdicts DEF L!RecordDebit
<1>13. QED BY <1>12 DEF L!Next

(* Every step is a step of the promised ledger, or cannot be seen in it. *)
LEMMA RefineStep == FitInv /\ [Next]_vars => [L!Next]_(L!vars)
<1> SUFFICES ASSUME FitInv, [Next]_vars PROVE [L!Next]_(L!vars)
  OBVIOUS
<1>1. ASSUME NEW s \in Sessions, Commit(s) PROVE [L!Next]_(L!vars)
  <2>1. call[s].op \in {"debit", "declare_run"}
    BY <1>1 DEF FitInv, LockInv, TypeInv, CallOK, Commit, Call
  <2>2. QED BY <1>1, <2>1, RefineDebit, RefineDeclare
<1>2. ASSUME NEW s \in Sessions,
             \/ BeginDebit(s) \/ BeginDeclareRun(s) \/ NoteRun(s) \/ AdvanceBalance(s)
             \/ ReadMoney(s) \/ ReadBalances(s) \/ Rollback(s)
      PROVE  UNCHANGED committed
  BY <1>2 DEF BeginDebit, BeginDeclareRun, NoteRun, AdvanceBalance, ReadMoney, ReadBalances, Rollback
<1>3. CASE UNCHANGED vars
  BY <1>3, RefineStutter DEF vars, committed
<1>4. QED BY <1>1, <1>2, <1>3, RefineStutter DEF Next, Step

(* SqlLedger implements the promised ledger (sql.py SqlLedger.debit, "One       *)
(* transaction"; spec.md contract 5): whatever sessions interleave, fail or     *)
(* die, in either dialect, each commit is one atomic debit or declaration, with *)
(* exact balances and, for the windows the dialect settles, exact verdicts.     *)
THEOREM Refinement == Spec => RefinesLedger
<1>1. Spec => L!Spec
  BY FitInit, FitStep, RefineInit, RefineStep, PTL DEF Spec, L!Spec
<1>2. QED BY <1>1 DEF RefinesLedger

-----------------------------------------------------------------------------
(* The committed rows and the committed entries *)

CeilingsOf(one) == [i \in DOMAIN one.verdicts |-> one.verdicts[i].ceiling]

\* An entry holds the verdicts over the rows as its own debit left them.
JudgedInTurn(history, e) ==
    LET debit == history[e].debit
    IN  history[e].verdicts = verdicts(CeilingsOf(history[e]), ReferenceBook(SubSeq(history, 1, e)),
                                       debit.run_id, debit.occurred_at)

RowsInv ==
    /\ FitInv
    /\ Sound(entries)
    /\ AddsUp(balances, entries)
    /\ Dialect = "sqlite" => \A e \in DOMAIN entries : JudgedInTurn(entries, e)

(* On SQLite every verdict of a debit is over the rows it commits. *)
LEMMA CommitVerdicts ==
    ASSUME FitInv, NEW s \in Sessions, Commit(s), call[s].op = "debit", Dialect = "sqlite"
    PROVE  /\ CeilingsOf(entry[s]) = call[s].ceilings
           /\ entry[s].verdicts = verdicts(call[s].ceilings, balances', call[s].debit.run_id,
                                           call[s].debit.occurred_at)
<1> DEFINE debit == call[s].debit
           ceilings == call[s].ceilings
           vs == entry[s].verdicts
           ws == verdicts(ceilings, balances', debit.run_id, debit.occurred_at)
<1>1. entry[s] # NONE /\ entry[s] \in LedgerEntry /\ Debiting(s)
  BY DEF Commit, Debiting, FitInv, LockInv, TypeInv, CallOK, TypeOK
<1>2. vs \in Seq(CeilingVerdict)
  BY <1>1 DEF LedgerEntry
<1>3. /\ DOMAIN vs = DOMAIN ceilings
      /\ \A i \in DOMAIN ceilings : vs[i].ceiling = ceilings[i]
  BY <1>1 DEF FitInv, Fits, EntryFits
<1>4. ceilings \in Seq(BudgetCeiling)
  BY <1>1, DebitingType DEF FitInv, LockInv
<1>5. CeilingsOf(entry[s]) = ceilings
  BY <1>3, <1>4 DEF CeilingsOf
<1>6. report(vs, debit, TRUE) = report(ws, debit, TRUE)
  <2>1. TRUE = (Dialect = "sqlite")
    OBVIOUS
  <2>2. QED BY <2>1, CommitReports
<1>7. ws = [i \in DOMAIN ws |-> ws[i]]
  BY DEF verdicts
<1> HIDE DEF vs, ws
<1>8. vs = [i \in DOMAIN vs |-> vs[i]]
  BY <1>2
<1>9. \A f : f = [i \in DOMAIN f |-> f[i]] => report(f, debit, TRUE) = f
  BY DEF report, answered
<1>10. vs = ws
  <2>1. report(vs, debit, TRUE) = vs
    BY <1>8, <1>9
  <2>2. report(ws, debit, TRUE) = ws
    BY <1>7, <1>9
  <2>3. QED BY <1>6, <2>1, <2>2
<1>11. QED BY <1>5, <1>10 DEF vs, ws

LEMMA RowsInit == Init => RowsInv
BY FitInit, AddsUpInit DEF Init, RowsInv, Sound

LEMMA RowsStep == RowsInv /\ [Next]_vars => RowsInv'
<1> SUFFICES ASSUME RowsInv, [Next]_vars PROVE RowsInv'
  OBVIOUS
<1>1. FitInv /\ FitInv'
  BY FitStep DEF RowsInv
<1>2. balances \in Book /\ balances' \in Book /\ entries \in Seq(LedgerEntry)
  BY <1>1 DEF FitInv, LockInv, TypeInv, TypeOK
<1>3. ASSUME UNCHANGED <<balances, entries>> PROVE RowsInv'
  BY <1>1, <1>3 DEF RowsInv, JudgedInTurn
<1>4. ASSUME NEW s \in Sessions, Commit(s), call[s].op = "declare_run" PROVE RowsInv'
  <2>1. own[s] = NoOwnRows /\ entry[s] = NONE
    BY <1>1, <1>4 DEF FitInv, Fits, WindowsFit, Debiting, LockInv, TypeInv, CallOK
  <2>2. balances' = balances
    BY <1>2, <1>4, <2>1 DEF Commit, Visible, NoOwnRows, Book
  <2>3. QED BY <1>3, <1>4, <2>1, <2>2 DEF Commit
<1>5. ASSUME NEW s \in Sessions, Commit(s), call[s].op = "debit" PROVE RowsInv'
  <2>1. PICK debit : debit = call[s].debit
    OBVIOUS
  <2>2. PICK new \in LedgerEntry : new = entry[s] /\ entry[s] # NONE
    BY <1>1, <1>5 DEF Commit, FitInv, LockInv, TypeInv, CallOK, TypeOK
  <2>3. /\ debit \in ResolvedDebit
        /\ new.debit = debit
        /\ new.unpriced = is_unpriced(debit.cost)
    <3>1. TypeInv /\ EntryFits(s) /\ Debiting(s)
      BY <1>1, <1>5 DEF Commit, Debiting, FitInv, Fits, LockInv
    <3>2. QED BY <2>1, <2>2, <3>1, DebitingType DEF EntryFits
  <2>4. entries' = Append(entries, new) /\ entries' \in Seq(LedgerEntry)
    BY <1>2, <1>5, <2>2 DEF Commit
  <2>5. Len(entries) \in Nat /\ DOMAIN entries' = 1..(Len(entries) + 1)
    BY <1>2, <2>4
  <2>6. /\ entries'[Len(entries) + 1] = new
        /\ \A e \in 1..Len(entries) : e \in DOMAIN entries /\ entries'[e] = entries[e]
    BY <1>2, <2>4
  <2>7. Sound(entries')
    BY <2>3, <2>5, <2>6 DEF RowsInv, Sound
  <2>8. balances' = record(balances, debit)
    BY <1>1, <1>5, <2>1, CommitRecords
  <2>9. AddsUp(balances', entries')
    BY <1>2, <2>3, <2>4, <2>7, <2>8, AddsUpStep DEF RowsInv
  <2>10. ASSUME Dialect = "sqlite", NEW e \in DOMAIN entries' PROVE JudgedInTurn(entries', e)
    <3>1. CASE e = Len(entries) + 1
      <4>1. SubSeq(entries', 1, e) = entries'
        BY <2>4, <2>5, <3>1
      <4>2. balances' = ReferenceBook(entries')
        BY <1>2, <2>9, AddsUpIsReference
      <4>3. new.verdicts = verdicts(CeilingsOf(new), balances', debit.run_id, debit.occurred_at)
        BY <1>1, <1>5, <2>1, <2>2, <2>10, CommitVerdicts
      <4>4. QED BY <2>3, <2>6, <3>1, <4>1, <4>2, <4>3 DEF JudgedInTurn
    <3>2. CASE e # Len(entries) + 1
      <4>1. e \in 1..Len(entries)
        BY <2>5, <3>2
      <4>2. entries'[e] = entries[e] /\ JudgedInTurn(entries, e)
        BY <2>6, <2>10, <4>1 DEF RowsInv
      <4>3. SubSeq(entries', 1, e) = SubSeq(entries, 1, e)
        BY <1>2, <2>4, <4>1
      <4>4. QED BY <4>2, <4>3 DEF JudgedInTurn
    <3>3. QED BY <3>1, <3>2
  <2>11. QED BY <1>1, <2>7, <2>9, <2>10 DEF RowsInv
<1>6. ASSUME NEW s \in Sessions, Commit(s) PROVE RowsInv'
  <2>1. call[s].op \in {"debit", "declare_run"}
    BY <1>1, <1>6 DEF FitInv, LockInv, TypeInv, CallOK, Commit, Call
  <2>2. QED BY <1>4, <1>5, <1>6, <2>1
<1>7. ASSUME NEW s \in Sessions,
             \/ BeginDebit(s) \/ BeginDeclareRun(s) \/ NoteRun(s) \/ AdvanceBalance(s)
             \/ ReadMoney(s) \/ ReadBalances(s) \/ Rollback(s)
      PROVE  UNCHANGED <<balances, entries>>
  BY <1>7 DEF BeginDebit, BeginDeclareRun, NoteRun, AdvanceBalance, ReadMoney, ReadBalances,
              Rollback, committed
<1>8. CASE UNCHANGED vars
  BY <1>3, <1>8 DEF vars, committed
<1>9. QED BY <1>3, <1>6, <1>7, <1>8 DEF Next, Step

(* No lost update and no half-committed debit (sql.py SqlLedger.debit, spec.md  *)
(* contract 5), in either dialect, whatever sessions interleave, fail or die.   *)
THEOREM RowsNeverDrift == Spec => []BooksMatchEntries
<1>1. RowsInv => BooksMatchEntries
  BY DEF RowsInv, BooksMatchEntries
<1>2. QED BY <1>1, RowsInit, RowsStep, PTL DEF Spec

(* On SQLite the verdicts of a debit are one snapshot: the ledger after the     *)
(* entries before it, with its own debit (sql.py class docstring).  PostgreSQL  *)
(* tears them, as the run of SqlTornVerdict shows.                              *)
THEOREM SqliteSnapshots == Dialect = "sqlite" => (Spec => []VerdictsAreSnapshots)
<1> SUFFICES ASSUME Dialect = "sqlite" PROVE Spec => []VerdictsAreSnapshots
  OBVIOUS
<1>1. RowsInv => VerdictsAreSnapshots
  <2> SUFFICES ASSUME RowsInv, NEW e \in DOMAIN entries
               PROVE  LET debit == entries[e].debit
                      IN  \E k \in 0..(e - 1) :
                            entries[e].verdicts
                            = verdicts(CeilingsOf(entries[e]),
                                       record(BookAfter(entries)[k], debit),
                                       debit.run_id, debit.occurred_at)
    BY DEF VerdictsAreSnapshots, CeilingsOf
  <2>1. entries \in Seq(LedgerEntry) /\ Sound(entries)
    BY DEF RowsInv, FitInv, LockInv, TypeInv, TypeOK
  <2>2. e \in 1..Len(entries) /\ e - 1 \in 0..(e - 1) /\ e - 1 \in 0..Len(entries)
    BY <2>1
  <2>3. BookAfter(entries)[e] = record(BookAfter(entries)[e - 1], entries[e].debit)
    BY <2>1, <2>2, BookAfterIsReference
  <2>4. BookAfter(entries)[e] = ReferenceBook(SubSeq(entries, 1, e))
    BY <2>1, <2>2, BookAfterIsReference
  <2>5. JudgedInTurn(entries, e)
    BY DEF RowsInv
  <2>6. QED BY <2>2, <2>3, <2>4, <2>5 DEF JudgedInTurn
<1>2. QED BY <1>1, RowsInit, RowsStep, PTL DEF Spec

=============================================================================
