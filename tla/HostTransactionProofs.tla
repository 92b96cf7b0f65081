------------------------ MODULE HostTransactionProofs ------------------------
(***************************************************************************)
(* Theorems about debits joined to a host's own transaction, for any number *)
(* of hosts, any debits and ceilings, and any number of debits to a         *)
(* transaction.  The argument is that the rows a host holds stand still     *)
(* until it ends: what its debits added to them, and what their verdicts    *)
(* say of them, is true again of whatever rows other hosts have committed   *)
(* in the meantime.                                                         *)
(***************************************************************************)
EXTENDS HostTransaction, SqlLedgerProofs

-----------------------------------------------------------------------------
(* Type correctness *)

HostTypeInv ==
    /\ HostTypeOK
    /\ \A s \in Sessions : CallOK(s) /\ (pc[s] # "idle" => call[s].op = "debit")

LEMMA HostTypeMeaning ==
    ASSUME HostTypeInv
    PROVE  TypeInv /\ TypeOK /\ HostTypeOK
BY DEF HostTypeInv, HostTypeOK, TypeInv

LEMMA NoOwnRowsType == NoOwnRows \in Book
BY DEF NoOwnRows, Book

(* The initial state is well-typed. *)
LEMMA HostTypeInit == HostInit => HostTypeInv
<1> SUFFICES ASSUME HostInit PROVE HostTypeInv
  OBVIOUS
<1>1. EmptyBook \in Book /\ NoOwnRows \in Book
  BY DEF EmptyBook, NoOwnRows, Book
<1>2. NoMoney \in [ScopeKey -> [Currencies -> Nat \cup {NONE}]]
  BY EmptyMoneyType DEF NoMoney
<1>3. runs \in [Runs -> Instants \cup {NONE}]
  BY DEF HostInit
<1>4. TypeOK
  BY <1>1, <1>2, <1>3 DEF HostInit, TypeOK, PCs
<1>5. HostTypeOK
  BY <1>1, <1>4 DEF HostInit, HostTypeOK, NoRuns
<1>6. \A s \in Sessions : CallOK(s) /\ pc[s] = "idle"
  BY DEF HostInit, CallOK
<1>7. QED BY <1>5, <1>6 DEF HostTypeInv

(* Closing the ledger's session keeps the types, whatever rows the host keeps.  *)
LEMMA CloseJoinedType ==
    ASSUME HostTypeInv, NEW s \in Sessions, CloseJoined(s), UNCHANGED <<committed, minted>>,
           own' \in [Sessions -> Book],
           pending' \in [Sessions -> Seq(LedgerEntry)],
           host_runs' \in [Sessions -> [Runs -> Instants \cup {NONE}]]
    PROVE  HostTypeInv'
<1>1. NoMoney \in [ScopeKey -> [Currencies -> Nat \cup {NONE}]]
  BY EmptyMoneyType DEF NoMoney
<1>2. TypeOK'
  BY <1>1 DEF HostTypeInv, HostTypeOK, TypeOK, CloseJoined, PCs, committed
<1>3. HostTypeOK'
  BY <1>2, NoOwnRowsType DEF HostTypeInv, HostTypeOK, CloseJoined
<1>4. ASSUME NEW t \in Sessions
      PROVE  CallOK(t)' /\ (pc'[t] # "idle" => call'[t].op = "debit")
  BY DEF HostTypeInv, HostTypeOK, TypeOK, CallOK, CloseJoined
<1>5. QED BY <1>3, <1>4 DEF HostTypeInv

(* So does ending the host's transaction.                                       *)
LEMMA EndTransactionType ==
    ASSUME HostTypeInv, NEW s \in Sessions, EndTransaction(s), UNCHANGED minted,
           balances' \in Book,
           runs' \in [Runs -> Instants \cup {NONE}],
           entries' \in Seq(LedgerEntry)
    PROVE  HostTypeInv'
<1>1. TypeInv' /\ Close(s)
  BY HostTypeMeaning, CloseType DEF EndTransaction
<1>2. HostTypeOK'
  BY <1>1, NoOwnRowsType DEF HostTypeInv, HostTypeOK, TypeInv, EndTransaction, NoRuns
<1>3. ASSUME NEW t \in Sessions PROVE pc'[t] # "idle" => call'[t].op = "debit"
  BY <1>1 DEF HostTypeInv, HostTypeOK, TypeOK, Close
<1>4. QED BY <1>1, <1>2, <1>3 DEF HostTypeInv, TypeInv

(* A debit about to be released has an entry.                                   *)
LEMMA EntryType ==
    ASSUME HostTypeInv, NEW s \in Sessions, pc[s] = "commit"
    PROVE  entry[s] \in LedgerEntry /\ entry[s] # NONE /\ call[s].debit \in ResolvedDebit
<1>1. /\ entry[s] # NONE /\ call[s] \in Call /\ call[s].op = "debit"
      /\ entry[s] \in LedgerEntry \cup {NONE}
  BY DEF HostTypeInv, HostTypeOK, TypeOK, CallOK
<1>2. QED BY <1>1, DebitCallType

(* Every step keeps the types. *)
LEMMA HostTypeStep == HostTypeInv /\ [HostNext]_host_vars => HostTypeInv'
<1> SUFFICES ASSUME HostTypeInv, [HostNext]_host_vars PROVE HostTypeInv'
  OBVIOUS
<1>0. TypeInv /\ TypeOK /\ HostTypeOK
  BY HostTypeMeaning
<1>1. ASSUME NEW s \in Sessions, JoinDebit(s) PROVE HostTypeInv'
  <2>1. TypeInv' /\ BeginDebit(s)
    BY <1>0, <1>1, TypeStep DEF JoinDebit, Next
  <2>2. HostTypeOK'
    BY <1>0, <1>1, <2>1 DEF HostTypeOK, TypeInv, TypeOK, JoinDebit
  <2>3. PICK d \in Debits, now \in Instants, ceilings \in CeilingSets :
            call' = [call EXCEPT ![s] = [op |-> "debit", debit |-> resolved_debit(d, now),
                                         ceilings |-> ceilings, entry_id |-> minted + 1]]
    BY <2>1 DEF BeginDebit
  <2>4. ASSUME NEW t \in Sessions PROVE pc'[t] # "idle" => call'[t].op = "debit"
    BY <1>0, <2>1, <2>3 DEF HostTypeInv, TypeOK, BeginDebit
  <2>5. QED BY <2>1, <2>2, <2>4 DEF HostTypeInv, TypeInv
<1>2. ASSUME NEW s \in Sessions, HostNoteRun(s) PROVE HostTypeInv'
  <2>1. call[s] \in Call /\ call[s].debit.occurred_at \in Instants
    BY <1>0, <1>2, CallDebitType DEF HostNoteRun, TypeInv, CallOK
  <2>2. TypeOK'
    BY <1>0, <1>2, <2>1 DEF TypeOK, HostNoteRun, committed, PCs
  <2>3. HostTypeOK'
    BY <1>0, <1>2, <2>2 DEF HostTypeOK, HostNoteRun, host
  <2>4. ASSUME NEW t \in Sessions
        PROVE  CallOK(t)' /\ (pc'[t] # "idle" => call'[t].op = "debit")
    BY <1>0, <1>2 DEF HostTypeInv, TypeOK, HostNoteRun, CallOK
  <2>5. QED BY <2>3, <2>4 DEF HostTypeInv
<1>3. ASSUME NEW s \in Sessions, AdvanceBalance(s) \/ ReadMoney(s) \/ ReadBalances(s),
             UNCHANGED host
      PROVE  HostTypeInv'
  <2>1. TypeInv'
    BY <1>0, <1>3, TypeStep DEF Next, Step
  <2>2. HostTypeOK'
    BY <1>0, <1>3, <2>1 DEF HostTypeOK, TypeInv, host
  <2>3. UNCHANGED call /\ pc[s] # "idle" /\ \A t \in Sessions : t # s => pc'[t] = pc[t]
    BY <1>0, <1>3 DEF AdvanceBalance, ReadMoney, ReadBalances, TypeOK
  <2>4. QED BY <2>1, <2>2, <2>3 DEF HostTypeInv, TypeInv
<1>4. ASSUME NEW s \in Sessions, Release(s) PROVE HostTypeInv'
  <2>1. entry[s] \in LedgerEntry
    BY <1>4, EntryType DEF Release
  <2>2. pending' \in [Sessions -> Seq(LedgerEntry)]
    BY <1>0, <1>4, <2>1 DEF HostTypeOK, Release
  <2>3. call[s].debit.run_id \in Runs
    BY <1>0, <1>4, CallDebitType DEF Release, TypeInv, CallOK
  <2>4. host_runs' \in [Sessions -> [Runs -> Instants \cup {NONE}]]
    BY <1>0, <1>4, <2>3 DEF HostTypeOK, TypeOK, Release
  <2>5. QED BY <1>0, <1>4, <2>2, <2>4, CloseJoinedType DEF Release, TypeOK
<1>5. ASSUME NEW s \in Sessions, FailDebit(s) PROVE HostTypeInv'
  <2>1. own' \in [Sessions -> Book]
    BY <1>0, <1>5 DEF HostTypeOK, TypeOK, FailDebit
  <2>2. QED BY <1>0, <1>5, <2>1, CloseJoinedType DEF FailDebit, HostTypeOK
<1>6. ASSUME NEW s \in Sessions, HostCommit(s) PROVE HostTypeInv'
  <2>1. balances' \in Book
    BY <1>0, <1>6, VisibleType DEF HostCommit, Book
  <2>2. runs' \in [Runs -> Instants \cup {NONE}]
    BY <1>0, <1>6 DEF HostCommit, HostTypeOK, TypeOK
  <2>3. entries' \in Seq(LedgerEntry)
    BY <1>0, <1>6 DEF HostCommit, HostTypeOK, TypeOK
  <2>4. QED BY <1>6, <2>1, <2>2, <2>3, EndTransactionType DEF HostCommit
<1>7. ASSUME NEW s \in Sessions, HostRollback(s) PROVE HostTypeInv'
  BY <1>0, <1>7, EndTransactionType DEF HostRollback, committed, TypeOK
<1>8. CASE UNCHANGED host_vars
  BY <1>0, <1>8 DEF host_vars, vars, committed, host, HostTypeInv, HostTypeOK, TypeOK, CallOK
<1>9. QED
  BY <1>1, <1>2, <1>3, <1>4, <1>5, <1>6, <1>7, <1>8 DEF HostNext, JoinedStep

(* Every reachable state of the tables, the ledger's sessions and the hosts'    *)
(* transactions is well-typed (sql.py SqlLedger, sessions joined as savepoints).*)
THEOREM HostTypeCorrect == HostSpec => []HostTypeOK
<1>1. HostTypeInv => HostTypeOK
  BY DEF HostTypeInv
<1>2. QED BY HostTypeInit, HostTypeStep, <1>1, PTL DEF HostSpec

-----------------------------------------------------------------------------
(* A host's rows and the entries it holds back *)

\* A book with the rows of a transaction laid over it.
Over(rows, book) == [key \in ScopeKey |-> IF rows[key] # NONE THEN rows[key] ELSE book[key]]

\* An entry has, over the windows it touched, the verdicts of a book.
Judged(e, book) ==
    report(e.verdicts, e.debit, FALSE)
    = report(verdicts(CeilingsOf(e), book, e.debit.run_id, e.debit.occurred_at), e.debit, FALSE)

\* An entry a transaction holds back was stored for its debit, in windows it holds.
HeldBack(e, rows) ==
    /\ e.debit \in ResolvedDebit
    /\ e.unpriced = is_unpriced(e.debit.cost)
    /\ \A key \in WindowsOf(e.debit) : rows[key] # NONE

\* B[k] is the book after the first k debits of a transaction, which have given it "rows".
Chain(B, rows, held, book) ==
    /\ B \in [0..Len(held) -> Book]
    /\ B[0] = book
    /\ B[Len(held)] = Over(rows, book)
    /\ \A k \in 1..Len(held) :
        /\ HeldBack(held[k], rows)
        /\ B[k] = record(B[k - 1], held[k].debit)
        /\ Judged(held[k], B[k])

LEMMA OverType ==
    ASSUME NEW rows \in Book, NEW book \in Book
    PROVE  Over(rows, book) \in Book
BY DEF Over, Book

(* An entry's verdicts over the windows it touched depend on nothing else of a  *)
(* book (core.py verdicts).                                                     *)
LEMMA JudgedLocally ==
    ASSUME NEW e \in LedgerEntry, NEW b1, NEW b2, Judged(e, b1),
           \A key \in WindowsOf(e.debit) : b2[key] = b1[key]
    PROVE  Judged(e, b2)
<1> DEFINE ws(b) == verdicts(CeilingsOf(e), b, e.debit.run_id, e.debit.occurred_at)
           key(i) == window_for(CeilingsOf(e)[i], e.debit.run_id, e.debit.occurred_at)
<1>1. \A b : /\ DOMAIN ws(b) = DOMAIN CeilingsOf(e)
             /\ \A i \in DOMAIN CeilingsOf(e) :
                    ws(b)[i] = verdict_over(CeilingsOf(e)[i], BalanceIn(b, key(i)), NOTHING)
  BY DEF verdicts
<1>2. ASSUME NEW b, NEW i \in DOMAIN CeilingsOf(e)
      PROVE  ws(b)[i].ceiling = CeilingsOf(e)[i]
  <2>1. verdict_over(CeilingsOf(e)[i], BalanceIn(b, key(i)), NOTHING).ceiling = CeilingsOf(e)[i]
    BY DEF verdict_over
  <2> HIDE DEF ws, key
  <2>2. QED BY <1>1, <2>1
<1>3. \A i \in DOMAIN CeilingsOf(e) :
        key(i) \in WindowsOf(e.debit) => BalanceIn(b2, key(i)) = BalanceIn(b1, key(i))
  BY DEF BalanceIn
<1>4. answered(ws(b1), e.debit, FALSE) = answered(ws(b2), e.debit, FALSE)
  <2> HIDE DEF ws
  <2>1. QED BY <1>1, <1>2 DEF answered
<1>5. \A i \in answered(ws(b1), e.debit, FALSE) : ws(b1)[i] = ws(b2)[i]
  <2>1. \A i \in answered(ws(b1), e.debit, FALSE) :
            i \in DOMAIN CeilingsOf(e) /\ key(i) \in WindowsOf(e.debit)
    <3> HIDE DEF ws
    <3>1. QED BY <1>1, <1>2 DEF answered
  <2> HIDE DEF ws, key
  <2>2. QED BY <1>1, <1>3, <2>1
<1>6. report(ws(b1), e.debit, FALSE) = report(ws(b2), e.debit, FALSE)
  <2> HIDE DEF ws
  <2>1. QED BY <1>4, <1>5 DEF report
<1> HIDE DEF ws
<1>7. QED BY <1>6 DEF Judged, ws

(* A transaction without debits has written nothing. *)
LEMMA ChainStart ==
    ASSUME NEW book \in Book
    PROVE  Chain([k \in {0} |-> book], NoOwnRows, <<>>, book)
<1>1. Over(NoOwnRows, book) = book
  BY DEF Over, NoOwnRows, Book
<1>2. Len(<<>>) = 0 /\ 0..0 = {0} /\ 1..0 = {}
  OBVIOUS
<1>3. QED BY <1>1, <1>2 DEF Chain

(* Whatever other hosts commit, elsewhere than in the rows a host holds, its    *)
(* debits and verdicts are right for the committed rows.                        *)
LEMMA ChainRebase ==
    ASSUME NEW held \in Seq(LedgerEntry), NEW rows \in Book, NEW B,
           NEW book \in Book, NEW book2 \in Book, Chain(B, rows, held, book),
           \A key \in ScopeKey : rows[key] # NONE => book2[key] = book[key]
    PROVE  \E B2 : Chain(B2, rows, held, book2)
<1> DEFINE n == Len(held)
           B2 == [k \in 0..n |-> [key \in ScopeKey |->
                    IF rows[key] = NONE THEN book2[key] ELSE B[k][key]]]
<1>0. n \in Nat /\ \A k \in 1..n : held[k] \in LedgerEntry /\ k - 1 \in 0..n /\ k \in 0..n
  OBVIOUS
<1>1. /\ B \in [0..n -> Book] /\ B[0] = book /\ B[n] = Over(rows, book)
      /\ \A k \in 1..n : /\ HeldBack(held[k], rows)
                         /\ B[k] = record(B[k - 1], held[k].debit)
                         /\ Judged(held[k], B[k])
  BY DEF Chain
<1> HIDE DEF n
<1>2. \A k \in 0..n : B[k] \in Book
  BY <1>1
<1>3. B2 \in [0..n -> Book]
  BY <1>2 DEF Book
<1>4. \A k \in 0..n : \A key \in ScopeKey :
        B2[k][key] = IF rows[key] = NONE THEN book2[key] ELSE B[k][key]
  OBVIOUS
<1>5. \A k \in 0..n : B2[k] \in Book
  BY <1>3
<1> HIDE DEF B2
<1>6. 0 \in 0..n /\ n \in 0..n
  BY <1>0
<1>7. B2[0] = book2
  <2>1. \A key \in ScopeKey : B2[0][key] = book2[key]
    BY <1>1, <1>4, <1>6
  <2>2. QED BY <1>5, <1>6, <2>1 DEF Book
<1>8. B2[n] = Over(rows, book2)
  <2>1. \A key \in ScopeKey : B2[n][key] = Over(rows, book2)[key]
    BY <1>1, <1>4, <1>6 DEF Over
  <2>2. Over(rows, book2) \in Book
    BY OverType
  <2>3. QED BY <1>5, <1>6, <2>1, <2>2 DEF Book
<1>9. ASSUME NEW k \in 1..n
      PROVE  /\ HeldBack(held[k], rows)
             /\ B2[k] = record(B2[k - 1], held[k].debit)
             /\ Judged(held[k], B2[k])
  <2> DEFINE W == WindowsOf(held[k].debit)
             c == contribution_of(held[k].debit.usage, held[k].debit.cost)
  <2>1. /\ HeldBack(held[k], rows)
        /\ B[k] = record(B[k - 1], held[k].debit)
        /\ Judged(held[k], B[k])
        /\ k \in 0..n /\ k - 1 \in 0..n /\ held[k] \in LedgerEntry
    BY <1>0, <1>1
  <2>2. W \in SUBSET ScopeKey /\ \A key \in W : rows[key] # NONE
    BY <2>1, WindowsOfType DEF HeldBack
  <2> HIDE DEF W, c
  <2>3. \A key \in ScopeKey :
            B[k][key] = IF key \in W THEN Accumulate(BalanceIn(B[k - 1], key), c)
                        ELSE B[k - 1][key]
    BY <2>1 DEF record, W, c
  <2>4. \A key \in W : B2[k - 1][key] = B[k - 1][key] /\ B2[k][key] = B[k][key]
    BY <1>4, <2>1, <2>2
  <2>5. \A key \in ScopeKey :
            B2[k][key] = IF key \in W THEN Accumulate(BalanceIn(B2[k - 1], key), c)
                         ELSE B2[k - 1][key]
    BY <1>4, <2>1, <2>2, <2>3, <2>4 DEF BalanceIn
  <2>6. B2[k] = record(B2[k - 1], held[k].debit)
    BY <1>5, <2>1, <2>5 DEF record, Book, W, c
  <2>7. Judged(held[k], B2[k])
    BY <2>1, <2>4, JudgedLocally DEF W
  <2>8. QED BY <2>1, <2>6, <2>7
<1>10. Chain(B2, rows, held, book2)
  BY <1>3, <1>7, <1>8, <1>9 DEF Chain, n
<1>11. QED BY <1>10

(* A released debit joins those the host holds back. *)
LEMMA ChainExtend ==
    ASSUME NEW held \in Seq(LedgerEntry), NEW rows \in Book, NEW B,
           NEW book \in Book, Chain(B, rows, held, book),
           NEW e \in LedgerEntry, NEW rows2 \in Book,
           Over(rows2, book) = record(Over(rows, book), e.debit),
           HeldBack(e, rows2),
           Judged(e, Over(rows2, book)),
           \A key \in ScopeKey : rows[key] # NONE => rows2[key] # NONE
    PROVE  \E B2 : Chain(B2, rows2, Append(held, e), book)
<1> DEFINE n == Len(held)
           B2 == [k \in 0..(n + 1) |-> IF k = n + 1 THEN Over(rows2, book) ELSE B[k]]
           longer == Append(held, e)
<1>0. /\ n \in Nat /\ Len(longer) = n + 1
      /\ longer[n + 1] = e
      /\ \A k \in 1..n : longer[k] = held[k] /\ k \in 0..n /\ k - 1 \in 0..n /\ held[k] \in LedgerEntry
  OBVIOUS
<1>1. /\ B \in [0..n -> Book] /\ B[0] = book /\ B[n] = Over(rows, book)
      /\ \A k \in 1..n : /\ HeldBack(held[k], rows)
                         /\ B[k] = record(B[k - 1], held[k].debit)
                         /\ Judged(held[k], B[k])
  BY DEF Chain
<1> HIDE DEF n, longer
<1>2. /\ \A k \in 0..n : B2[k] = B[k]
      /\ B2[n + 1] = Over(rows2, book)
      /\ B2 \in [0..(n + 1) -> Book]
  <2>1. Over(rows2, book) \in Book
    BY OverType
  <2>2. \A k \in 0..(n + 1) : k # n + 1 => k \in 0..n
    BY <1>0
  <2>3. \A k \in 0..n : B[k] \in Book
    BY <1>1
  <2>4. \A k \in 0..n : k \in 0..(n + 1) /\ k # n + 1
    BY <1>0
  <2>5. n + 1 \in 0..(n + 1)
    BY <1>0
  <2>6. QED BY <2>1, <2>2, <2>3, <2>4, <2>5
<1> HIDE DEF B2
<1>3. 0 \in 0..n /\ n \in 0..n
  BY <1>0
<1>4. \A k \in 1..(n + 1) : k = n + 1 \/ k \in 1..n
  BY <1>0
<1>5. ASSUME NEW k \in 1..(n + 1)
      PROVE  /\ HeldBack(longer[k], rows2)
             /\ B2[k] = record(B2[k - 1], longer[k].debit)
             /\ Judged(longer[k], B2[k])
  <2>1. CASE k = n + 1
    <3>1. k - 1 = n
      BY <1>0, <2>1
    <3>2. QED BY <1>0, <1>1, <1>2, <1>3, <2>1, <3>1
  <2>2. CASE k \in 1..n
    <3>1. longer[k] = held[k] /\ B2[k] = B[k] /\ B2[k - 1] = B[k - 1]
      BY <1>0, <1>2, <2>2
    <3>2. HeldBack(held[k], rows) /\ WindowsOf(held[k].debit) \in SUBSET ScopeKey
      BY <1>1, <2>2, WindowsOfType DEF HeldBack
    <3>3. HeldBack(held[k], rows2)
      BY <3>2 DEF HeldBack
    <3>4. QED BY <1>1, <2>2, <3>1, <3>3
  <2>3. QED BY <1>4, <2>1, <2>2
<1>6. Chain(B2, rows2, longer, book)
  BY <1>0, <1>1, <1>2, <1>3, <1>5 DEF Chain
<1>7. QED BY <1>6 DEF longer

\* Every entry has the verdicts of the history up to and including it.
JudgedInOrder(history) ==
    \A e \in DOMAIN history : Judged(history[e], ReferenceBook(SubSeq(history, 1, e)))

(* The books of a transaction are what the committed entries and its first      *)
(* debits add up to.                                                            *)
LEMMA ChainAddsUp ==
    ASSUME NEW history \in Seq(LedgerEntry), Sound(history),
           NEW held \in Seq(LedgerEntry), NEW rows, NEW B,
           NEW book, Chain(B, rows, held, book), AddsUp(book, history)
    PROVE  /\ Sound(history \o held)
           /\ \A k \in 0..Len(held) : AddsUp(B[k], history \o SubSeq(held, 1, k))
<1> DEFINE n == Len(held)
           upto(k) == history \o SubSeq(held, 1, k)
           Bad == {k \in 0..n : ~AddsUp(B[k], upto(k))}
<1>1. n \in Nat /\ upto(0) = history /\ upto(n) = history \o held
  OBVIOUS
<1>2. ASSUME NEW k \in 1..n
      PROVE  /\ upto(k - 1) \in Seq(LedgerEntry)
             /\ upto(k) = Append(upto(k - 1), held[k])
             /\ held[k] \in LedgerEntry
  OBVIOUS
<1>3. \A k \in 1..n : /\ HeldBack(held[k], rows)
                      /\ B[k] = record(B[k - 1], held[k].debit)
  BY DEF Chain
<1>4. Sound(history \o held)
  <2>1. ASSUME NEW i \in DOMAIN (history \o held)
        PROVE  \/ i \in DOMAIN history /\ (history \o held)[i] = history[i]
               \/ \E k \in 1..n : (history \o held)[i] = held[k]
    <3>1. i \in 1..(Len(history) + n) /\ Len(history) \in Nat
      OBVIOUS
    <3>2. CASE i <= Len(history)
      BY <3>1, <3>2
    <3>3. CASE i > Len(history)
      <4>1. i - Len(history) \in 1..n /\ (history \o held)[i] = held[i - Len(history)]
        BY <1>1, <3>1, <3>3
      <4>2. QED BY <4>1
    <3>4. QED BY <3>1, <3>2, <3>3
  <2> HIDE DEF n
  <2>2. QED BY <1>3, <2>1 DEF Sound, HeldBack
<1>5. ASSUME NEW k \in 0..n PROVE Sound(upto(k))
  <2>1. history \o held \in Seq(LedgerEntry) /\ Len(history) + k \in 0..Len(history \o held)
    OBVIOUS
  <2>2. upto(k) = SubSeq(history \o held, 1, Len(history) + k)
    OBVIOUS
  <2>3. QED BY <1>4, <2>1, <2>2, SoundPrefix
<1> HIDE DEF upto, n
<1>6. Bad = {}
  <2>1. SUFFICES ASSUME Bad # {} PROVE FALSE
    OBVIOUS
  <2>2. Bad \subseteq Nat
    OBVIOUS
  <2>3. PICK m \in Bad : \A k \in Bad : m <= k
    BY <2>1, <2>2, NatMin
  <2>4. m # 0
    BY <1>1, <2>3 DEF Chain
  <2>5. m \in 1..n /\ m - 1 \in 0..n /\ ~(m <= m - 1)
    BY <1>1, <2>3, <2>4
  <2>6. AddsUp(B[m - 1], upto(m - 1))
    BY <2>3, <2>5
  <2>7. Sound(Append(upto(m - 1), held[m])) /\ held[m] \in LedgerEntry
    BY <1>2, <1>5, <2>5
  <2>8. AddsUp(record(B[m - 1], held[m].debit), Append(upto(m - 1), held[m]))
    BY <1>2, <2>5, <2>6, <2>7, AddsUpStep
  <2>9. AddsUp(B[m], upto(m))
    BY <1>2, <1>3, <2>5, <2>8
  <2>10. QED BY <2>3, <2>9
<1>7. QED BY <1>4, <1>6 DEF upto, n

(* When the host commits, its entries end the history, each with the verdicts   *)
(* of the history up to it, and the rows it leaves are what they all add up to. *)
LEMMA ChainCommits ==
    ASSUME NEW history \in Seq(LedgerEntry), Sound(history), JudgedInOrder(history),
           NEW held \in Seq(LedgerEntry), NEW rows \in Book, NEW B,
           NEW book \in Book, Chain(B, rows, held, book), AddsUp(book, history)
    PROVE  /\ Sound(history \o held)
           /\ AddsUp(Over(rows, book), history \o held)
           /\ JudgedInOrder(history \o held)
<1> DEFINE longer == history \o held
           m == Len(history)
           n == Len(held)
<1>1. /\ Sound(longer)
      /\ \A k \in 0..n : AddsUp(B[k], history \o SubSeq(held, 1, k))
  BY ChainAddsUp
<1>2. m \in Nat /\ n \in Nat /\ SubSeq(held, 1, n) = held /\ n \in 0..n
  OBVIOUS
<1>3. /\ B \in [0..n -> Book] /\ B[n] = Over(rows, book)
      /\ \A k \in 1..n : Judged(held[k], B[k])
  BY DEF Chain
<1>4. ASSUME NEW e \in DOMAIN longer
      PROVE  Judged(longer[e], ReferenceBook(SubSeq(longer, 1, e)))
  <2>1. e \in 1..(m + n) /\ DOMAIN history = 1..m
    OBVIOUS
  <2>2. CASE e <= m
    <3>1. e \in DOMAIN history /\ longer[e] = history[e] /\ SubSeq(longer, 1, e) = SubSeq(history, 1, e)
      BY <2>1, <2>2
    <3>2. QED BY <3>1 DEF JudgedInOrder
  <2>3. CASE e > m
    <3>1. PICK k \in 1..n : e = m + k
      <4>1. e - m \in 1..n /\ e = m + (e - m)
        BY <1>2, <2>1, <2>3
      <4>2. QED BY <4>1
    <3>2. longer[e] = held[k] /\ SubSeq(longer, 1, e) = history \o SubSeq(held, 1, k)
      BY <1>2, <3>1
    <3>3. k \in 0..n /\ B[k] \in Book
      BY <1>3, <3>1
    <3>4. B[k] = ReferenceBook(history \o SubSeq(held, 1, k))
      BY <1>1, <3>3, AddsUpIsReference
    <3>5. QED BY <1>3, <3>2, <3>4
  <2>4. QED BY <1>2, <2>1, <2>2, <2>3
<1>5. QED BY <1>1, <1>2, <1>3, <1>4 DEF JudgedInOrder

-----------------------------------------------------------------------------
(* The invariant *)

\* The rows the host had written before its debit in progress.
Base(s) == IF pc[s] = "idle" THEN own[s] ELSE savepoint[s]

\* A debit in progress has added itself, once, to the rows it has upserted.
DebitInProgress(s) ==
    pc[s] # "idle" =>
        LET debit == call[s].debit
        IN  /\ todo[s] \subseteq WindowsOf(debit)
            /\ pc[s] = "note_run" => todo[s] = WindowsOf(debit)
            /\ pc[s] \notin {"note_run", "advance"} => todo[s] = {}
            /\ \A key \in ScopeKey :
                own[s][key] =
                    IF key \in WindowsOf(debit) \ todo[s]
                    THEN UpsertSum(Over(savepoint[s], balances)[key],
                                   contribution_of(debit.usage, debit.cost))
                    ELSE savepoint[s][key]

HostFits(s) ==
    /\ DebitInProgress(s)
    /\ MoneyFits(s)
    /\ EntryFits(s)
    /\ \E B : Chain(B, Base(s), pending[s], balances)

\* Each row has at most one host that has written it and not ended its transaction.
RowsHeldOnce ==
    \A s, t \in Sessions :
        s # t => \A key \in ScopeKey : own[s][key] = NONE \/ own[t][key] = NONE

CommittedFit == Sound(entries) /\ AddsUp(balances, entries) /\ JudgedInOrder(entries)

HostInv ==
    /\ HostTypeInv
    /\ RowsHeldOnce
    /\ CommittedFit
    /\ \A s \in Sessions : HostFits(s)

\* The rows, the debit and the entries of host t.
HostUnchanged(t) ==
    /\ pc'[t] = pc[t] /\ call'[t] = call[t] /\ todo'[t] = todo[t] /\ own'[t] = own[t]
    /\ money_rows'[t] = money_rows[t] /\ entry'[t] = entry[t]
    /\ savepoint'[t] = savepoint[t] /\ pending'[t] = pending[t]

(* The debit of a session in progress is well-formed. *)
LEMMA InProgressType ==
    ASSUME HostTypeInv, NEW s \in Sessions, pc[s] # "idle"
    PROVE  /\ Debiting(s)
           /\ call[s].debit \in ResolvedDebit
           /\ WindowsOf(call[s].debit) \in SUBSET ScopeKey
           /\ contribution_of(call[s].debit.usage, call[s].debit.cost) \in DebitContribution
           /\ savepoint[s] \in Book /\ own[s] \in Book /\ balances \in Book
<1>1. Debiting(s) /\ TypeInv
  BY HostTypeMeaning DEF HostTypeInv, Debiting
<1>2. QED BY <1>1, DebitingType, WindowsOfType DEF HostTypeInv, HostTypeOK, TypeOK

LEMMA BaseType ==
    ASSUME HostTypeInv, NEW s \in Sessions
    PROVE  Base(s) \in Book
BY DEF HostTypeInv, HostTypeOK, TypeOK, Base

(* What a host sees is its rows laid over the committed ones. *)
LEMMA SeenOver ==
    ASSUME NEW s \in Sessions, NEW key \in ScopeKey
    PROVE  /\ Visible(s, key) = Over(own[s], balances)[key]
           /\ Seen(s, key) = BalanceIn(Over(own[s], balances), key)
BY DEF Visible, Over, Seen, BalanceIn

(* A row written before the debit in progress is still held.                    *)
LEMMA BaseIsHeld ==
    ASSUME HostTypeInv, NEW s \in Sessions, DebitInProgress(s), NEW key \in ScopeKey,
           Base(s)[key] # NONE
    PROVE  own[s][key] # NONE
<1>1. CASE pc[s] = "idle"
  BY <1>1 DEF Base
<1>2. CASE pc[s] # "idle"
  <2> DEFINE c == contribution_of(call[s].debit.usage, call[s].debit.cost)
             row == Over(savepoint[s], balances)[key]
  <2>1. c \in DebitContribution /\ row \in ScopeBalance \cup {NONE}
    BY <1>2, InProgressType, OverType DEF Book
  <2>2. own[s][key] = UpsertSum(row, c) \/ own[s][key] = Base(s)[key]
    BY <1>2 DEF DebitInProgress, Base
  <2> HIDE DEF c, row
  <2>3. UpsertSum(row, c) # NONE
    BY <2>1, UpsertSumType, NoneIsNoBalance
  <2>4. QED BY <2>2, <2>3
<1>3. QED BY <1>1, <1>2

(* Once all its windows are upserted, a debit holds every window it touches, and *)
(* the host's rows are what it had with the debit recorded.                      *)
LEMMA DebitDone ==
    ASSUME HostTypeInv, NEW s \in Sessions, DebitInProgress(s), pc[s] # "idle", todo[s] = {}
    PROVE  /\ \A key \in WindowsOf(call[s].debit) : own[s][key] # NONE
           /\ Over(own[s], balances) = record(Over(savepoint[s], balances), call[s].debit)
<1> DEFINE debit == call[s].debit
           W == WindowsOf(debit)
           c == contribution_of(debit.usage, debit.cost)
           before == Over(savepoint[s], balances)
           after == Over(own[s], balances)
<1>1. /\ c \in DebitContribution /\ before \in Book /\ after \in Book /\ W \in SUBSET ScopeKey
  BY InProgressType, OverType
<1>2. \A key \in ScopeKey : own[s][key] = IF key \in W THEN UpsertSum(before[key], c)
                                          ELSE savepoint[s][key]
  BY DEF DebitInProgress
<1>3. \A key \in ScopeKey : /\ after[key] = IF own[s][key] # NONE THEN own[s][key] ELSE balances[key]
                            /\ before[key] = IF savepoint[s][key] # NONE THEN savepoint[s][key]
                                             ELSE balances[key]
  BY DEF Over
<1> HIDE DEF W, c, before, after
<1>4. ASSUME NEW key \in W PROVE own[s][key] # NONE /\ after[key] = Accumulate(BalanceIn(before, key), c)
  <2>1. key \in ScopeKey /\ before[key] \in ScopeBalance \cup {NONE}
    BY <1>1 DEF Book
  <2>2. own[s][key] = Accumulate(BalanceIn(before, key), c) /\ own[s][key] \in ScopeBalance
    BY <1>1, <1>2, <2>1, UpsertAccumulates, UpsertSumType DEF BalanceIn
  <2>3. QED BY <1>3, <2>1, <2>2, NoneIsNoBalance
<1>5. ASSUME NEW key \in ScopeKey, key \notin W PROVE after[key] = before[key]
  BY <1>2, <1>3, <1>5
<1>6. after = record(before, debit)
  BY <1>1, <1>4, <1>5 DEF record, Book, W, c
<1>7. QED BY <1>4, <1>6 DEF W, before, after

(* While nothing commits, the other hosts go on fitting. *)
LEMMA HostFrame ==
    ASSUME NEW t \in Sessions, HostFits(t), HostUnchanged(t), UNCHANGED committed
    PROVE  HostFits(t)'
<1>1. \A key : Visible(t, key)' = Visible(t, key) /\ Seen(t, key)' = Seen(t, key)
  BY DEF HostUnchanged, committed, Visible, Seen
<1>2. WindowsRead(t)' = WindowsRead(t) /\ Settled(t)' = Settled(t) /\ Base(t)' = Base(t)
  BY DEF HostUnchanged, WindowsRead, Settled, Base
<1>3. DebitInProgress(t)'
  BY DEF HostFits, DebitInProgress, HostUnchanged, committed
<1>4. MoneyFits(t)'
  BY <1>1, <1>2 DEF HostFits, MoneyFits, HostUnchanged
<1>5. EntryFits(t)'
  BY <1>1, <1>2 DEF HostFits, EntryFits, HostUnchanged
<1>6. \E B : Chain(B, Base(t)', pending'[t], balances')
  BY <1>2 DEF HostFits, HostUnchanged, committed
<1>7. QED BY <1>3, <1>4, <1>5, <1>6 DEF HostFits

(* A host that commits changes no row another host holds, so the other's debits  *)
(* and verdicts fit the rows it leaves.                                          *)
LEMMA HostCommitFrame ==
    ASSUME HostInv, HostTypeInv', NEW s \in Sessions, NEW t \in Sessions, t # s, HostCommit(s),
           HostUnchanged(t)
    PROVE  HostFits(t)'
<1>1. HostTypeInv /\ HostFits(t) /\ DebitInProgress(t) /\ balances \in Book /\ balances' \in Book
  BY DEF HostInv, HostFits, HostTypeInv, HostTypeOK, TypeOK
<1>2. ASSUME NEW key \in ScopeKey, own[t][key] # NONE PROVE balances'[key] = balances[key]
  BY <1>2 DEF HostInv, RowsHeldOnce, HostCommit, Visible
<1>3. WindowsRead(t)' = WindowsRead(t) /\ Settled(t)' = Settled(t) /\ Base(t)' = Base(t)
  BY DEF HostUnchanged, WindowsRead, Settled, Base
<1>4. \A key \in ScopeKey : Base(t)[key] # NONE => balances'[key] = balances[key]
  BY <1>1, <1>2, BaseIsHeld
<1>5. DebitInProgress(t)'
  <2>1. SUFFICES ASSUME pc[t] # "idle" PROVE DebitInProgress(t)'
    BY DEF DebitInProgress, HostUnchanged
  <2> DEFINE W == WindowsOf(call[t].debit)
             c == contribution_of(call[t].debit.usage, call[t].debit.cost)
             before == Over(savepoint[t], balances)
  <2>2. c \in DebitContribution /\ before \in Book
    BY <1>1, <2>1, InProgressType, OverType
  <2>3. \A key \in ScopeKey :
            own[t][key] = IF key \in W \ todo[t] THEN UpsertSum(before[key], c) ELSE savepoint[t][key]
    BY <1>1, <2>1 DEF DebitInProgress
  <2>4. \A key \in ScopeKey : before[key] = IF savepoint[t][key] # NONE THEN savepoint[t][key]
                                            ELSE balances[key]
    BY DEF Over
  <2> HIDE DEF W, c, before
  <2>5. ASSUME NEW key \in ScopeKey, key \in W \ todo[t] PROVE balances'[key] = balances[key]
    <3>1. own[t][key] = UpsertSum(before[key], c) /\ before[key] \in ScopeBalance \cup {NONE}
      BY <2>2, <2>3, <2>5 DEF Book
    <3>2. own[t][key] # NONE
      BY <2>2, <3>1, UpsertSumType, NoneIsNoBalance
    <3>3. QED BY <1>2, <3>2
  <2>6. \A key \in ScopeKey : key \in W \ todo[t] => Over(savepoint[t], balances')[key] = before[key]
    BY <2>4, <2>5 DEF Over
  <2>7. \A key \in ScopeKey :
            own[t][key] = IF key \in W \ todo[t] THEN UpsertSum(Over(savepoint[t], balances')[key], c)
                          ELSE savepoint[t][key]
    BY <2>3, <2>6
  <2>8. QED BY <1>1, <2>1, <2>7 DEF DebitInProgress, HostUnchanged, W, c
<1>6. ASSUME pc[t] \in {"read_balances", "commit"}, NEW key \in ScopeKey, key \in Settled(t)
      PROVE  Seen(t, key)' = Seen(t, key)
  <2>1. todo[t] = {} /\ key \in WindowsOf(call[t].debit)
    BY <1>1, <1>6, HostAssumption DEF DebitInProgress, Settled
  <2>2. own[t][key] # NONE
    BY <1>1, <1>6, <2>1, DebitDone
  <2>3. QED BY <2>2 DEF Seen, Visible, HostUnchanged
<1>7. MoneyFits(t)'
  BY <1>1, <1>3, <1>6 DEF HostFits, MoneyFits, HostUnchanged
<1>8. EntryFits(t)'
  <2>1. SUFFICES ASSUME entry[t] # NONE PROVE EntryFits(t)'
    BY DEF EntryFits, HostUnchanged
  <2>2. pc[t] = "commit" /\ TypeInv /\ Debiting(t)
    BY <1>1, <2>1, HostTypeMeaning DEF TypeInv, CallOK, Debiting
  <2>3. ASSUME NEW i \in DOMAIN call[t].ceilings
        PROVE  window_for(call[t].ceilings[i], call[t].debit.run_id, call[t].debit.occurred_at)
                    \in ScopeKey
    BY <2>2, DebitingType, WindowForType
  <2>4. QED BY <1>1, <1>3, <1>6, <2>1, <2>2, <2>3 DEF HostFits, EntryFits, HostUnchanged
<1>9. \E B : Chain(B, Base(t)', pending'[t], balances')
  <2>1. PICK B : Chain(B, Base(t), pending[t], balances)
    BY <1>1 DEF HostFits
  <2>2. pending[t] \in Seq(LedgerEntry) /\ Base(t) \in Book
    BY <1>1, BaseType DEF HostTypeInv, HostTypeOK
  <2>3. \E B2 : Chain(B2, Base(t), pending[t], balances')
    BY <1>1, <1>4, <2>1, <2>2, ChainRebase
  <2>4. QED BY <1>3, <2>3 DEF HostUnchanged
<1>10. QED BY <1>5, <1>7, <1>8, <1>9 DEF HostFits

(* A host without a transaction fits any rows. *)
LEMMA ClosedFits ==
    ASSUME HostTypeInv', NEW s \in Sessions, EndTransaction(s), HostTypeInv
    PROVE  HostFits(s)' /\ own'[s] = NoOwnRows
<1>1. /\ pc'[s] = "idle" /\ own'[s] = NoOwnRows /\ entry'[s] = NONE /\ pending'[s] = <<>>
  BY DEF HostTypeInv, HostTypeOK, TypeOK, EndTransaction, Close
<1>2. balances' \in Book
  BY DEF HostTypeInv, HostTypeOK, TypeOK
<1>3. Chain([k \in {0} |-> balances'], NoOwnRows, <<>>, balances')
  BY <1>2, ChainStart
<1>4. Base(s)' = NoOwnRows
  BY <1>1 DEF Base
<1>5. DebitInProgress(s)' /\ MoneyFits(s)' /\ EntryFits(s)'
  BY <1>1 DEF DebitInProgress, MoneyFits, EntryFits
<1>6. \E B : Chain(B, Base(s)', pending'[s], balances')
  BY <1>1, <1>3, <1>4
<1>7. QED BY <1>1, <1>5, <1>6 DEF HostFits

LEMMA HostStart == HostInit => HostInv
<1> SUFFICES ASSUME HostInit PROVE HostInv
  OBVIOUS
<1>1. HostTypeInv
  BY HostTypeInit
<1>2. RowsHeldOnce
  BY DEF HostInit, RowsHeldOnce, NoOwnRows
<1>3. CommittedFit
  BY AddsUpInit DEF HostInit, CommittedFit, Sound, JudgedInOrder
<1>4. ASSUME NEW s \in Sessions PROVE HostFits(s)
  <2>1. pc[s] = "idle" /\ own[s] = NoOwnRows /\ entry[s] = NONE /\ pending[s] = <<>>
    BY DEF HostInit
  <2>2. balances \in Book
    BY <1>1 DEF HostTypeInv, HostTypeOK, TypeOK
  <2>3. Chain([k \in {0} |-> balances], Base(s), pending[s], balances)
    BY <2>1, <2>2, ChainStart DEF Base
  <2>4. DebitInProgress(s) /\ MoneyFits(s) /\ EntryFits(s)
    BY <2>1 DEF DebitInProgress, MoneyFits, EntryFits
  <2>5. QED BY <2>3, <2>4 DEF HostFits
<1>5. QED BY <1>1, <1>2, <1>3, <1>4 DEF HostInv

(* A step of host s that commits nothing and takes no row another host holds.   *)
LEMMA HostLocalStep ==
    ASSUME HostInv, HostTypeInv', NEW s \in Sessions, UNCHANGED committed, HostFits(s)',
           \A t \in Sessions : t # s => HostUnchanged(t),
           \A key \in ScopeKey : own'[s][key] # NONE =>
                own[s][key] # NONE \/ \A t \in Sessions : t # s => own[t][key] = NONE
    PROVE  HostInv'
<1>1. RowsHeldOnce'
  BY DEF HostInv, RowsHeldOnce, HostUnchanged
<1>2. CommittedFit'
  BY DEF HostInv, CommittedFit, committed
<1>3. \A t \in Sessions : HostFits(t)'
  BY HostFrame DEF HostInv
<1>4. QED BY <1>1, <1>2, <1>3 DEF HostInv

(* A step of a debit that leaves the host's rows alone leaves its books alone.   *)
LEMMA BooksKept ==
    ASSUME NEW s \in Sessions, HostFits(s), UNCHANGED committed, Base(s)' = Base(s),
           pending'[s] = pending[s]
    PROVE  \E B : Chain(B, Base(s)', pending'[s], balances')
BY DEF HostFits, committed

(* The step that upserts a window. *)
LEMMA AdvanceFits ==
    ASSUME HostInv, HostTypeInv', NEW s \in Sessions, AdvanceBalance(s), UNCHANGED host
    PROVE  HostInv'
<1> DEFINE debit == call[s].debit
           W == WindowsOf(debit)
           c == contribution_of(debit.usage, debit.cost)
<1>0. HostTypeInv /\ TypeOK /\ HostFits(s) /\ DebitInProgress(s)
  BY HostTypeMeaning DEF HostInv, HostFits
<1>1. PICK key \in ScopeKey :
        /\ key \in todo[s]
        /\ \A t \in Sessions : ~RowBlockedBy(s, key, t)
        /\ own' = [own EXCEPT ![s][key] = UpsertSum(Visible(s, key), c)]
        /\ todo' = [todo EXCEPT ![s] = @ \ {key}]
        /\ pc' = [pc EXCEPT ![s] = IF todo[s] = {key} THEN "read_money" ELSE "advance"]
        /\ pc[s] = "advance"
        /\ UNCHANGED <<committed, minted, call, own_run, money_rows, entry>>
  BY DEF AdvanceBalance, NextWindow
<1>2. /\ todo[s] \subseteq W
      /\ \A k \in ScopeKey : own[s][k] = IF k \in W \ todo[s]
                                         THEN UpsertSum(Over(savepoint[s], balances)[k], c)
                                         ELSE savepoint[s][k]
  BY <1>0, <1>1 DEF DebitInProgress
<1> HIDE DEF W, c
<1>3. Visible(s, key) = Over(savepoint[s], balances)[key]
  BY <1>1, <1>2 DEF Visible, Over
<1>4. /\ \A k \in ScopeKey : own'[s][k] = IF k = key THEN UpsertSum(Visible(s, key), c)
                                         ELSE own[s][k]
      /\ todo'[s] = todo[s] \ {key}
      /\ pc'[s] = IF todo[s] = {key} THEN "read_money" ELSE "advance"
      /\ \A t \in Sessions : t # s => HostUnchanged(t)
  BY <1>0, <1>1 DEF TypeOK, Book, HostUnchanged, host
<1>5. DebitInProgress(s)'
  <2>1. \A k \in ScopeKey : own'[s][k] = IF k \in W \ todo'[s]
                                         THEN UpsertSum(Over(savepoint[s], balances)[k], c)
                                         ELSE savepoint[s][k]
    BY <1>1, <1>2, <1>3, <1>4
  <2>2. todo'[s] \subseteq W /\ pc'[s] # "note_run"
        /\ (pc'[s] \notin {"note_run", "advance"} => todo'[s] = {})
    BY <1>2, <1>4
  <2>3. call' = call /\ balances' = balances /\ savepoint' = savepoint
    BY <1>1 DEF committed, host
  <2>4. QED BY <2>1, <2>2, <2>3 DEF DebitInProgress, W, c
<1>6. entry'[s] = NONE
  BY <1>0, <1>1 DEF HostTypeInv, CallOK
<1>7. MoneyFits(s)' /\ EntryFits(s)'
  BY <1>4, <1>6 DEF MoneyFits, EntryFits
<1>8. Base(s)' = Base(s) /\ pending'[s] = pending[s]
  BY <1>1, <1>4 DEF Base, host
<1>9. HostFits(s)'
  BY <1>0, <1>1, <1>5, <1>7, <1>8, BooksKept DEF HostFits
<1>10. QED
  BY <1>1, <1>4, <1>9, HostLocalStep DEF RowBlockedBy

(* Releasing the savepoint of a debit adds its entry to those held back.        *)
LEMMA ReleaseFits ==
    ASSUME HostInv, HostTypeInv', NEW s \in Sessions, Release(s)
    PROVE  HostInv'
<1> DEFINE debit == call[s].debit
           after == Over(own[s], balances)
<1>0. /\ HostTypeInv /\ TypeInv /\ TypeOK /\ HostTypeOK /\ HostFits(s) /\ DebitInProgress(s)
      /\ EntryFits(s) /\ pc[s] = "commit"
  BY HostTypeMeaning DEF HostInv, HostFits, Release
<1>1. /\ pc'[s] = "idle" /\ entry'[s] = NONE
      /\ UNCHANGED <<committed, own>>
      /\ pending'[s] = Append(pending[s], entry[s])
      /\ \A t \in Sessions : t # s => HostUnchanged(t)
  BY <1>0 DEF Release, CloseJoined, HostTypeOK, TypeOK, HostUnchanged, committed
<1>2. entry[s] \in LedgerEntry /\ entry[s] # NONE /\ debit \in ResolvedDebit
  BY <1>0, EntryType
<1>3. todo[s] = {}
  BY <1>0 DEF DebitInProgress
<1>4. /\ \A key \in WindowsOf(debit) : own[s][key] # NONE
      /\ after = record(Over(savepoint[s], balances), debit)
  BY <1>0, <1>3, DebitDone
<1>5. entry[s].debit = debit /\ entry[s].unpriced = is_unpriced(debit.cost)
  BY <1>0, <1>2 DEF EntryFits
<1>6. CeilingsOf(entry[s]) = call[s].ceilings
  <2>1. call[s].ceilings \in Seq(BudgetCeiling)
    BY <1>0, DebitingType DEF HostTypeInv, Debiting
  <2>2. /\ DOMAIN entry[s].verdicts = DOMAIN call[s].ceilings
        /\ \A i \in DOMAIN call[s].ceilings : entry[s].verdicts[i].ceiling = call[s].ceilings[i]
    BY <1>0, <1>2 DEF EntryFits
  <2>3. QED BY <2>1, <2>2 DEF CeilingsOf
<1>7. Judged(entry[s], after)
  <2>1. \A key \in ScopeKey : BalanceIn(after, key) = Seen(s, key)
    BY SeenOver
  <2>2. (Dialect = "sqlite") = FALSE
    BY HostAssumption
  <2>3. report(entry[s].verdicts, debit, Dialect = "sqlite")
        = report(verdicts(call[s].ceilings, after, debit.run_id, debit.occurred_at),
                 debit, Dialect = "sqlite")
    BY <1>0, <1>2, <2>1, ReportsSeen
  <2> HIDE DEF after
  <2>4. QED BY <1>5, <1>6, <2>2, <2>3 DEF Judged
<1>8. \E B : Chain(B, own[s], Append(pending[s], entry[s]), balances)
  <2>1. PICK B : Chain(B, savepoint[s], pending[s], balances)
    BY <1>0 DEF HostFits, Base
  <2>2. /\ pending[s] \in Seq(LedgerEntry) /\ savepoint[s] \in Book /\ own[s] \in Book
        /\ balances \in Book
    BY <1>0 DEF HostTypeOK, TypeOK
  <2>3. HeldBack(entry[s], own[s])
    BY <1>2, <1>4, <1>5 DEF HeldBack
  <2>4. \A key \in ScopeKey : savepoint[s][key] # NONE => own[s][key] # NONE
    BY <1>0, BaseIsHeld DEF Base
  <2>5. after = record(Over(savepoint[s], balances), entry[s].debit)
    BY <1>4, <1>5
  <2>6. QED BY <1>2, <1>7, <2>1, <2>2, <2>3, <2>4, <2>5, ChainExtend
<1>9. Base(s)' = own[s]
  BY <1>1 DEF Base
<1>10. DebitInProgress(s)' /\ MoneyFits(s)' /\ EntryFits(s)'
  BY <1>1 DEF DebitInProgress, MoneyFits, EntryFits
<1>11. HostFits(s)'
  BY <1>1, <1>8, <1>9, <1>10 DEF HostFits, committed
<1>12. QED BY <1>1, <1>11, HostLocalStep

(* The commit of a host's transaction. *)
LEMMA HostCommitFits ==
    ASSUME HostInv, HostTypeInv', NEW s \in Sessions, HostCommit(s)
    PROVE  HostInv'
<1>0. HostTypeInv /\ TypeOK /\ HostTypeOK /\ HostFits(s) /\ CommittedFit
  BY HostTypeMeaning DEF HostInv
<1>1. /\ pc[s] = "idle" /\ EndTransaction(s)
      /\ entries' = entries \o pending[s]
      /\ \A t \in Sessions : t # s => HostUnchanged(t)
  BY <1>0 DEF HostCommit, EndTransaction, Close, HostTypeOK, TypeOK, HostUnchanged
<1>2. balances' = Over(own[s], balances)
  BY DEF HostCommit, Visible, Over
<1>3. CommittedFit'
  <2>1. PICK B : Chain(B, own[s], pending[s], balances)
    BY <1>0, <1>1 DEF HostFits, Base
  <2>2. /\ pending[s] \in Seq(LedgerEntry) /\ entries \in Seq(LedgerEntry)
        /\ own[s] \in Book /\ balances \in Book
    BY <1>0 DEF HostTypeOK, TypeOK
  <2>3. QED BY <1>0, <1>1, <1>2, <2>1, <2>2, ChainCommits DEF CommittedFit
<1>4. HostFits(s)' /\ own'[s] = NoOwnRows
  BY <1>0, <1>1, ClosedFits
<1>5. RowsHeldOnce'
  BY <1>1, <1>4 DEF HostInv, RowsHeldOnce, HostUnchanged, NoOwnRows
<1>6. \A t \in Sessions : HostFits(t)'
  BY <1>1, <1>4, HostCommitFrame
<1>7. QED BY <1>3, <1>5, <1>6 DEF HostInv

(* Every step keeps every host fitting. *)
LEMMA HostStep == HostInv /\ [HostNext]_host_vars => HostInv'
<1> SUFFICES ASSUME HostInv, [HostNext]_host_vars PROVE HostInv'
  OBVIOUS
<1>0. HostTypeInv /\ HostTypeInv' /\ TypeInv /\ TypeOK /\ HostTypeOK
  BY HostTypeStep, HostTypeMeaning DEF HostInv
<1>1. ASSUME NEW s \in Sessions, JoinDebit(s) PROVE HostInv'
  <2>1. PICK d \in Debits, now \in Instants, ceilings \in CeilingSets :
            /\ call' = [call EXCEPT ![s] = [op |-> "debit", debit |-> resolved_debit(d, now),
                                            ceilings |-> ceilings, entry_id |-> minted + 1]]
            /\ todo' = [todo EXCEPT ![s] = WindowsOf(resolved_debit(d, now))]
    BY <1>1 DEF JoinDebit, BeginDebit
  <2>2. /\ pc[s] = "idle" /\ pc'[s] = "note_run"
        /\ todo'[s] = WindowsOf(call'[s].debit)
        /\ savepoint'[s] = own[s] /\ entry'[s] = NONE
        /\ UNCHANGED <<committed, own, pending>>
        /\ \A t \in Sessions : t # s => HostUnchanged(t)
    BY <1>0, <1>1, <2>1 DEF JoinDebit, BeginDebit, HostTypeInv, HostTypeOK, TypeOK, CallOK,
                            HostUnchanged
  <2>3. DebitInProgress(s)' /\ MoneyFits(s)' /\ EntryFits(s)'
    BY <2>2 DEF DebitInProgress, MoneyFits, EntryFits
  <2>4. Base(s)' = Base(s) /\ HostFits(s)
    BY <2>2 DEF Base, HostInv
  <2>5. HostFits(s)'
    BY <2>2, <2>3, <2>4, BooksKept DEF HostFits
  <2>6. QED BY <1>0, <2>2, <2>5, HostLocalStep
<1>2. ASSUME NEW s \in Sessions, HostNoteRun(s) PROVE HostInv'
  <2>1. /\ pc[s] = "note_run" /\ pc'[s] = "advance" /\ entry'[s] = NONE
        /\ UNCHANGED <<committed, call, todo, own, savepoint, pending>>
        /\ \A t \in Sessions : t # s => HostUnchanged(t)
    BY <1>0, <1>2 DEF HostNoteRun, HostTypeInv, TypeOK, CallOK, HostUnchanged, host
  <2>2. Base(s)' = Base(s) /\ HostFits(s)
    BY <2>1 DEF Base, HostInv
  <2>3. DebitInProgress(s)'
    BY <2>1, <2>2 DEF HostFits, DebitInProgress, committed
  <2>4. MoneyFits(s)' /\ EntryFits(s)'
    BY <2>1 DEF MoneyFits, EntryFits
  <2>5. HostFits(s)'
    BY <2>1, <2>2, <2>3, <2>4, BooksKept DEF HostFits
  <2>6. QED BY <1>0, <2>1, <2>5, HostLocalStep
<1>3. ASSUME NEW s \in Sessions, AdvanceBalance(s), UNCHANGED host PROVE HostInv'
  BY <1>0, <1>3, AdvanceFits
<1>4. ASSUME NEW s \in Sessions, ReadMoney(s), UNCHANGED host PROVE HostInv'
  <2>1. /\ pc[s] = "read_money" /\ pc'[s] = "read_balances" /\ entry'[s] = NONE
        /\ UNCHANGED <<committed, call, todo, own, savepoint, pending>>
        /\ \A t \in Sessions : t # s => HostUnchanged(t)
    BY <1>0, <1>4 DEF ReadMoney, HostTypeInv, TypeOK, CallOK, HostUnchanged, host
  <2>2. Base(s)' = Base(s) /\ HostFits(s)
    BY <2>1 DEF Base, HostInv
  <2>3. DebitInProgress(s)'
    BY <2>1, <2>2 DEF HostFits, DebitInProgress, committed
  <2>4. MoneyFits(s)' /\ EntryFits(s)'
    BY <1>0, <1>4, <2>1, MoneyRead DEF EntryFits
  <2>5. HostFits(s)'
    BY <2>1, <2>2, <2>3, <2>4, BooksKept DEF HostFits
  <2>6. QED BY <1>0, <2>1, <2>5, HostLocalStep
<1>5. ASSUME NEW s \in Sessions, ReadBalances(s), UNCHANGED host PROVE HostInv'
  <2>1. /\ pc[s] = "read_balances" /\ pc'[s] = "commit"
        /\ UNCHANGED <<committed, call, todo, own, savepoint, pending>>
        /\ \A t \in Sessions : t # s => HostUnchanged(t)
    BY <1>0, <1>5 DEF ReadBalances, TypeOK, HostUnchanged, host
  <2>2. Base(s)' = Base(s) /\ HostFits(s)
    BY <2>1 DEF Base, HostInv
  <2>3. DebitInProgress(s)'
    BY <2>1, <2>2 DEF HostFits, DebitInProgress, committed
  <2>4. MoneyFits(s)'
    BY <2>1 DEF MoneyFits
  <2>5. EntryFits(s)'
    BY <1>0, <1>5, <2>2, EntryWritten DEF HostFits
  <2>6. HostFits(s)'
    BY <2>1, <2>2, <2>3, <2>4, <2>5, BooksKept DEF HostFits
  <2>7. QED BY <1>0, <2>1, <2>6, HostLocalStep
<1>6. ASSUME NEW s \in Sessions, Release(s) PROVE HostInv'
  BY <1>0, <1>6, ReleaseFits
<1>7. ASSUME NEW s \in Sessions, FailDebit(s) PROVE HostInv'
  <2>1. /\ pc[s] # "idle" /\ pc'[s] = "idle" /\ entry'[s] = NONE
        /\ own'[s] = savepoint[s]
        /\ UNCHANGED <<committed, pending>>
        /\ \A t \in Sessions : t # s => HostUnchanged(t)
    BY <1>0, <1>7 DEF FailDebit, CloseJoined, HostTypeOK, TypeOK, HostUnchanged
  <2>2. Base(s)' = Base(s) /\ HostFits(s)
    BY <2>1 DEF Base, HostInv
  <2>3. DebitInProgress(s)' /\ MoneyFits(s)' /\ EntryFits(s)'
    BY <2>1 DEF DebitInProgress, MoneyFits, EntryFits
  <2>4. HostFits(s)'
    BY <2>1, <2>2, <2>3, BooksKept DEF HostFits
  <2>5. \A key \in ScopeKey : own'[s][key] # NONE => own[s][key] # NONE
    BY <1>0, <2>1, <2>2, BaseIsHeld DEF Base, HostFits
  <2>6. QED BY <1>0, <2>1, <2>4, <2>5, HostLocalStep
<1>8. ASSUME NEW s \in Sessions, HostCommit(s) PROVE HostInv'
  BY <1>0, <1>8, HostCommitFits
<1>9. ASSUME NEW s \in Sessions, HostRollback(s) PROVE HostInv'
  <2>1. /\ EndTransaction(s) /\ UNCHANGED committed
        /\ \A t \in Sessions : t # s => HostUnchanged(t)
    BY <1>0, <1>9 DEF HostRollback, EndTransaction, Close, HostTypeOK, TypeOK, HostUnchanged
  <2>2. HostFits(s)' /\ own'[s] = NoOwnRows
    BY <1>0, <2>1, ClosedFits
  <2>3. QED BY <1>0, <2>1, <2>2, HostLocalStep DEF NoOwnRows
<1>10. CASE UNCHANGED host_vars
  <2>1. /\ UNCHANGED <<committed, own>>
        /\ \A t \in Sessions : HostUnchanged(t)
    BY <1>10 DEF host_vars, vars, committed, host, HostUnchanged
  <2>2. \A t \in Sessions : HostFits(t)'
    BY <2>1, HostFrame DEF HostInv
  <2>3. QED BY <1>0, <2>1, <2>2 DEF HostInv, RowsHeldOnce, CommittedFit, committed
<1>11. QED
  BY <1>1, <1>2, <1>3, <1>4, <1>5, <1>6, <1>7, <1>8, <1>9, <1>10 DEF HostNext, JoinedStep

(* The committed rows are what the committed entries add up to (sql.py           *)
(* SqlLedger.debit, spec.md contract 5), whatever hosts join to their            *)
(* transactions, whichever debits they lose to a savepoint, and however they end.*)
THEOREM HostRowsNeverDrift == HostSpec => []BooksMatchEntries
<1>1. HostInv => BooksMatchEntries
  BY DEF HostInv, CommittedFit, BooksMatchEntries
<1>2. QED BY <1>1, HostStart, HostStep, PTL DEF HostSpec

(* The verdicts a debit was answered with stay true of the history it is         *)
(* committed in (sql.py debit, "both totals are recorded exactly and the next    *)
(* verdict is correct"), although other hosts commit between the answer and the  *)
(* host's own commit.                                                            *)
THEOREM JoinedVerdictsHold == HostSpec => []VerdictsFollowHistory
<1>1. HostInv => VerdictsFollowHistory
  <2> SUFFICES ASSUME HostInv, NEW e \in DOMAIN entries
               PROVE  LET debit == entries[e].debit
                          vs    == entries[e].verdicts
                      IN  report(vs, debit, FALSE)
                          = report(verdicts(CeilingsOf(entries[e]), BookAfter(entries)[e],
                                            debit.run_id, debit.occurred_at), debit, FALSE)
    BY DEF VerdictsFollowHistory, CeilingsOf
  <2>1. entries \in Seq(LedgerEntry) /\ Sound(entries) /\ JudgedInOrder(entries)
    BY DEF HostInv, CommittedFit, HostTypeInv, HostTypeOK, TypeOK
  <2>2. e \in 0..Len(entries)
    BY <2>1
  <2>3. BookAfter(entries)[e] = ReferenceBook(SubSeq(entries, 1, e))
    BY <2>1, <2>2, BookAfterIsReference
  <2>4. Judged(entries[e], ReferenceBook(SubSeq(entries, 1, e)))
    BY <2>1 DEF JudgedInOrder
  <2>5. QED BY <2>3, <2>4 DEF Judged
<1>2. QED BY <1>1, HostStart, HostStep, PTL DEF HostSpec

-----------------------------------------------------------------------------
(* Hosts that queue.  While every debit falls on one day and is of a declared *)
(* run, a host that holds any row holds the row of the day: it took it first. *)

Days == {utc_day_key(at) : at \in Instants}
DayRow(day) == <<"per_day", day>>

DayHeldFirst(rows, day) == rows[DayRow(day)] = NONE => rows = NoOwnRows

QueueInv(day) ==
    /\ HostInv
    /\ \A r \in KnownRuns : runs[r] # NONE
    /\ \A s \in Sessions : /\ own_run[s] = NONE /\ host_runs[s] = NoRuns
                           /\ DayHeldFirst(own[s], day)
                           /\ DayHeldFirst(savepoint[s], day)

LEMMA DayRowType == ASSUME NEW day \in Days PROVE DayRow(day) \in ScopeKey
BY DEF Days, DayRow, ScopeKey

LEMMA NothingIsHeldFirst == \A day : DayHeldFirst(NoOwnRows, day)
BY DEF DayHeldFirst

LEMMA QueueStart ==
    ASSUME HostInit, NEW day \in Days
    PROVE  QueueInv(day)
<1>1. HostInv
  BY HostStart
<1>2. \A r \in KnownRuns : runs[r] # NONE
  BY HostAssumption, DataAssumption DEF HostInit
<1>3. QED BY <1>1, <1>2, NothingIsHeldFirst DEF HostInit, QueueInv

(* The window a debit upserts next is the row of its day, if it has still to do  *)
(* that one.                                                                     *)
LEMMA DayComesFirst ==
    ASSUME HostTypeInv, NEW s \in Sessions, pc[s] # "idle", DebitInProgress(s),
           NEW day \in Days, utc_day_key(call[s].debit.occurred_at) = day,
           DayRow(day) \in todo[s], NEW key \in ScopeKey, NextWindow(s, key)
    PROVE  key = DayRow(day)
<1>1. key \in WindowsOf(call[s].debit)
  BY DEF DebitInProgress, NextWindow
<1>2. key[1] = "per_day" => key = DayRow(day)
  BY <1>1 DEF WindowsOf, windows_touched, DayRow
<1>3. WindowOrder[key] <= WindowOrder[DayRow(day)]
  BY DEF NextWindow
<1>4. key[1] # "per_day" => WindowOrder[DayRow(day)] < WindowOrder[key]
  BY DayRowType, DaysSortFirst DEF DayRow
<1>5. WindowOrder[key] \in Nat /\ WindowOrder[DayRow(day)] \in Nat
  BY DayRowType, SqlAssumption
<1>6. QED BY <1>2, <1>3, <1>4, <1>5

(* So a debit that has upserted any window holds the row of its day. *)
LEMMA DayIsTaken ==
    ASSUME HostInv, HostTypeInv', NEW s \in Sessions, AdvanceBalance(s), UNCHANGED host,
           NEW day \in Days, utc_day_key(call[s].debit.occurred_at) = day
    PROVE  own'[s][DayRow(day)] # NONE
<1> DEFINE c == contribution_of(call[s].debit.usage, call[s].debit.cost)
           row == DayRow(day)
<1>0. /\ HostTypeInv /\ TypeOK /\ DebitInProgress(s) /\ pc[s] = "advance"
      /\ DebitInProgress(s)' /\ row \in ScopeKey
  BY HostTypeMeaning, AdvanceFits, DayRowType DEF HostInv, HostFits, AdvanceBalance
<1>1. PICK key \in ScopeKey :
        /\ NextWindow(s, key)
        /\ own' = [own EXCEPT ![s][key] = UpsertSum(Visible(s, key), c)]
  BY DEF AdvanceBalance
<1>2. c \in DebitContribution
  BY <1>0, InProgressType
<1>3. own'[s][key] # NONE
  <2>1. UpsertSum(Visible(s, key), c) # NONE
    BY <1>0, <1>2, VisibleType, UpsertSumType, NoneIsNoBalance
  <2> HIDE DEF c
  <2>2. QED BY <1>0, <1>1, <2>1 DEF TypeOK, Book
<1>4. CASE row \in todo[s]
  BY <1>0, <1>1, <1>3, <1>4, DayComesFirst
<1>5. CASE row \notin todo[s]
  <2>1. row \in WindowsOf(call[s].debit)
    BY DEF DayRow, WindowsOf, windows_touched
  <2>2. own[s][row] = UpsertSum(Over(savepoint[s], balances)[row], c)
    BY <1>0, <1>5, <2>1 DEF DebitInProgress
  <2>3. Over(savepoint[s], balances)[row] \in ScopeBalance \cup {NONE}
    BY <1>0, InProgressType, OverType DEF Book
  <2> HIDE DEF c, row
  <2>4. own[s][row] # NONE
    BY <1>2, <2>2, <2>3, UpsertSumType, NoneIsNoBalance
  <2>5. QED BY <1>0, <1>1, <1>3, <2>4 DEF TypeOK, Book, row
<1>6. QED BY <1>4, <1>5

LEMMA QueueStep ==
    ASSUME NEW day \in Days, QueueInv(day), QueuesOn(day), [HostNext]_host_vars
    PROVE  QueueInv(day)'
<1>0. /\ HostInv /\ HostInv' /\ HostTypeInv /\ HostTypeInv' /\ TypeOK /\ HostTypeOK
  BY HostStep, HostTypeMeaning DEF QueueInv, HostInv
<1> DEFINE Queued(t) == /\ own_run[t] = NONE /\ host_runs[t] = NoRuns
                        /\ DayHeldFirst(own[t], day) /\ DayHeldFirst(savepoint[t], day)
<1>1. /\ \A t \in Sessions : Queued(t)
      /\ \A r \in KnownRuns : r \in Runs /\ runs[r] # NONE
  BY HostAssumption DEF QueueInv
<1>2. ASSUME NEW s \in Sessions, Queued(s)', runs' = runs,
             \A t \in Sessions : t # s =>
                /\ own'[t] = own[t] /\ own_run'[t] = own_run[t]
                /\ savepoint'[t] = savepoint[t] /\ host_runs'[t] = host_runs[t]
      PROVE  QueueInv(day)'
  <2>1. \A t \in Sessions : Queued(t)'
    BY <1>1, <1>2
  <2>2. QED BY <1>0, <1>1, <1>2, <2>1 DEF QueueInv
<1> DEFINE Others(s) == \A t \in Sessions : t # s =>
                            /\ own'[t] = own[t] /\ own_run'[t] = own_run[t]
                            /\ savepoint'[t] = savepoint[t] /\ host_runs'[t] = host_runs[t]
<1>3. ASSUME NEW s \in Sessions, JoinDebit(s) PROVE QueueInv(day)'
  <2>1. /\ own' = own /\ own_run' = own_run /\ savepoint'[s] = own[s]
        /\ host_runs' = host_runs /\ runs' = runs /\ Others(s)
    BY <1>0, <1>3 DEF JoinDebit, BeginDebit, committed, HostTypeOK
  <2>2. QED BY <1>1, <1>2, <2>1
<1>4. ASSUME NEW s \in Sessions, HostNoteRun(s) PROVE QueueInv(day)'
  <2>1. call[s].debit.run_id \in KnownRuns
    BY <1>4 DEF HostNoteRun, QueuesOn
  <2>2. /\ own' = own /\ own_run'[s] = NONE /\ UNCHANGED host /\ runs' = runs
        /\ Others(s)
    BY <1>0, <1>1, <1>4, <2>1 DEF HostNoteRun, committed, host, TypeOK
  <2>3. QED BY <1>1, <1>2, <2>2 DEF host
<1>5. ASSUME NEW s \in Sessions, AdvanceBalance(s), UNCHANGED host PROVE QueueInv(day)'
  <2>1. own'[s][DayRow(day)] # NONE
    BY <1>0, <1>5, DayIsTaken DEF AdvanceBalance, QueuesOn
  <2>2. own_run' = own_run /\ runs' = runs /\ Others(s)
    BY <1>0, <1>5 DEF AdvanceBalance, committed, host, TypeOK
  <2>3. Queued(s)'
    BY <1>1, <1>5, <2>1, <2>2 DEF DayHeldFirst, host
  <2>4. QED BY <1>2, <2>2, <2>3
<1>6. ASSUME NEW s \in Sessions, ReadMoney(s) \/ ReadBalances(s), UNCHANGED host
      PROVE  QueueInv(day)'
  <2>1. own' = own /\ own_run' = own_run /\ runs' = runs
    BY <1>6 DEF ReadMoney, ReadBalances, committed
  <2>2. QED BY <1>0, <1>1, <1>6, <2>1 DEF QueueInv, host
<1>7. ASSUME NEW s \in Sessions, Release(s) PROVE QueueInv(day)'
  <2>1. /\ own' = own /\ own_run'[s] = NONE /\ savepoint'[s] = NoOwnRows
        /\ host_runs' = host_runs /\ runs' = runs /\ Others(s)
    BY <1>0, <1>1, <1>7 DEF Release, CloseJoined, committed, HostTypeOK, TypeOK
  <2>2. QED BY <1>1, <1>2, <2>1, NothingIsHeldFirst
<1>8. ASSUME NEW s \in Sessions, FailDebit(s) PROVE QueueInv(day)'
  <2>1. /\ own'[s] = savepoint[s] /\ own_run'[s] = NONE /\ savepoint'[s] = NoOwnRows
        /\ host_runs' = host_runs /\ runs' = runs /\ Others(s)
    BY <1>0, <1>8 DEF FailDebit, CloseJoined, committed, HostTypeOK, TypeOK
  <2>2. QED BY <1>1, <1>2, <2>1, NothingIsHeldFirst
<1>9. ASSUME NEW s \in Sessions, EndTransaction(s), runs' = runs PROVE QueueInv(day)'
  <2>1. /\ own'[s] = NoOwnRows /\ own_run'[s] = NONE /\ savepoint'[s] = NoOwnRows
        /\ host_runs'[s] = NoRuns /\ Others(s)
    BY <1>0, <1>9 DEF EndTransaction, Close, HostTypeOK, TypeOK
  <2>2. QED BY <1>1, <1>2, <1>9, <2>1, NothingIsHeldFirst
<1>10. ASSUME NEW s \in Sessions, HostCommit(s) PROVE QueueInv(day)'
  <2>1. runs' = runs
    BY <1>0, <1>1, <1>10 DEF HostCommit, NoRuns, TypeOK
  <2>2. QED BY <1>9, <1>10, <2>1 DEF HostCommit
<1>11. ASSUME NEW s \in Sessions, HostRollback(s) PROVE QueueInv(day)'
  BY <1>9, <1>11 DEF HostRollback, committed
<1>12. CASE UNCHANGED host_vars
  BY <1>0, <1>1, <1>12 DEF QueueInv, host_vars, vars, committed, host
<1>13. QED
  BY <1>3, <1>4, <1>5, <1>6, <1>7, <1>8, <1>10, <1>11, <1>12 DEF HostNext, JoinedStep

(* Two hosts that are waited for would both hold the row of the day.             *)
LEMMA QueueWaits ==
    ASSUME NEW day \in Days, QueueInv(day)
    PROVE  WaitsAreShort
<1> SUFFICES ASSUME NEW s \in Sessions, NEW t \in Sessions, NEW u \in Sessions,
                    HostWaits(s, t), HostWaits(t, u)
             PROVE  FALSE
  BY DEF WaitsAreShort
<1>1. ASSUME NEW x \in Sessions, NEW y \in Sessions, HostWaits(x, y)
      PROVE  x # y /\ own[y][DayRow(day)] # NONE
  <2>1. TypeInv /\ own_run[y] = NONE /\ host_runs[y] = NoRuns
    BY HostTypeMeaning DEF QueueInv, HostInv
  <2>2. pc[x] = "note_run" => call[x].debit.run_id \in Runs
    BY <2>1, CallDebitType DEF TypeInv, CallOK
  <2>3. ~(pc[x] = "note_run" /\ RunHeldFrom(x, y))
    BY <2>1, <2>2 DEF RunHeldFrom, NoRuns
  <2>4. PICK key \in ScopeKey : RowBlockedBy(x, key, y)
    BY <1>1, <2>3 DEF HostWaits
  <2>5. own[y] # NoOwnRows /\ x # y
    BY <2>4 DEF RowBlockedBy, NoOwnRows
  <2>6. QED BY <2>5 DEF QueueInv, DayHeldFirst
<1>2. t # u /\ own[t][DayRow(day)] # NONE /\ own[u][DayRow(day)] # NONE
  BY <1>1
<1>3. QED BY <1>2, DayRowType DEF QueueInv, HostInv, RowsHeldOnce

(* Hosts that queue on the row of one day never wait for a host that waits, for  *)
(* any number of hosts and of debits to a transaction (sql.py debit, "for key in *)
(* sorted(touched)"): the safety half of QueuingHostsReturn.                     *)
THEOREM QueuesNeverCycle == HostSpec => QueuingHostsNeverCycle
<1>1. ASSUME NEW day \in Days
      PROVE  HostSpec => ([]QueuesOn(day) => []WaitsAreShort)
  <2>1. HostInit => QueueInv(day)
    BY QueueStart
  <2>2. QueueInv(day) /\ QueuesOn(day) /\ [HostNext]_host_vars => QueueInv(day)'
    BY QueueStep
  <2>3. QueueInv(day) => WaitsAreShort
    BY QueueWaits
  <2>4. QED BY <2>1, <2>2, <2>3, PTL DEF HostSpec
<1>2. QED BY <1>1 DEF QueuingHostsNeverCycle, Days

=============================================================================
