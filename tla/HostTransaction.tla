--------------------------- MODULE HostTransaction ---------------------------
(***************************************************************************)
(* SqlLedger over sessions joined to a host's own transaction as savepoints *)
(* (sql.py class docstring, "Sessions"), on PostgreSQL.  The ledger's       *)
(* commit releases a savepoint: the host's transaction keeps the row locks  *)
(* of every debit it has joined and decides the outcome of all of them.     *)
(*                                                                          *)
(* A session of SqlLedger is here a host connection.  "own" and "host_runs" *)
(* are the rows its open transaction has written, "savepoint" is what "own" *)
(* was when the debit in progress began, "pending" the entries of the       *)
(* debits already released.                                                 *)
(***************************************************************************)
EXTENDS SqlLedger

CONSTANT KnownRuns   \* runs declared and committed before the hosts start

ASSUME HostAssumption == KnownRuns \subseteq Runs /\ Dialect = "postgresql"

\* Window keys sort by scope first, and "per_day" before "per_run" and "per_tag".
ASSUME DaysSortFirst ==
    \A k1, k2 \in ScopeKey :
        k1[1] = "per_day" /\ k2[1] # "per_day" => WindowOrder[k1] < WindowOrder[k2]

VARIABLES savepoint,   \* the host's balance rows when its debit in progress began
          pending,     \* entries its open transaction has inserted
          host_runs    \* run rows its open transaction has inserted

host == <<savepoint, pending, host_runs>>
host_vars == <<vars, host>>

NoRuns == [r \in Runs |-> NONE]

-----------------------------------------------------------------------------
HostInit ==
    /\ balances = EmptyBook
    /\ \E at \in Instants : runs = [r \in Runs |-> IF r \in KnownRuns THEN at ELSE NONE]
    /\ entries = <<>>
    /\ minted = 0
    /\ pc = [s \in Sessions |-> "idle"]
    /\ call = [s \in Sessions |-> NONE]
    /\ todo = [s \in Sessions |-> {}]
    /\ own = [s \in Sessions |-> NoOwnRows]
    /\ own_run = [s \in Sessions |-> NONE]
    /\ money_rows = [s \in Sessions |-> NoMoney]
    /\ entry = [s \in Sessions |-> NONE]
    /\ savepoint = [s \in Sessions |-> NoOwnRows]
    /\ pending = [s \in Sessions |-> <<>>]
    /\ host_runs = [s \in Sessions |-> NoRuns]

\* SAVEPOINT.
JoinDebit(s) ==
    /\ BeginDebit(s)
    /\ savepoint' = [savepoint EXCEPT ![s] = own[s]]
    /\ UNCHANGED <<pending, host_runs>>

\* The insert of a run waits for the transaction that has inserted it and is still open.
RunHeldFrom(s, t) ==
    LET run_id == call[s].debit.run_id
    IN  t # s /\ \/ host_runs[t][run_id] # NONE
                 \/ own_run[t] # NONE /\ call[t].debit.run_id = run_id

HostNoteRun(s) ==
    LET debit == call[s].debit
    IN  /\ pc[s] = "note_run"
        /\ \A t \in Sessions : ~RunHeldFrom(s, t)
        /\ own_run' = [own_run EXCEPT ![s] =
                        IF runs[debit.run_id] = NONE /\ host_runs[s][debit.run_id] = NONE
                        THEN debit.occurred_at ELSE NONE]
        /\ pc' = [pc EXCEPT ![s] = "advance"]
        /\ UNCHANGED <<committed, minted, call, todo, own, money_rows, entry, host>>

\* The ledger's session is closed; the host's transaction stays open.
CloseJoined(s) ==
    /\ pc' = [pc EXCEPT ![s] = "idle"]
    /\ call' = [call EXCEPT ![s] = NONE]
    /\ todo' = [todo EXCEPT ![s] = {}]
    /\ own_run' = [own_run EXCEPT ![s] = NONE]
    /\ money_rows' = [money_rows EXCEPT ![s] = NoMoney]
    /\ entry' = [entry EXCEPT ![s] = NONE]
    /\ savepoint' = [savepoint EXCEPT ![s] = NoOwnRows]

\* session.commit(): RELEASE SAVEPOINT.
Release(s) ==
    /\ pc[s] = "commit"
    /\ pending' = [pending EXCEPT ![s] = Append(@, entry[s])]
    /\ host_runs' = IF own_run[s] = NONE THEN host_runs
                    ELSE [host_runs EXCEPT ![s][call[s].debit.run_id] = own_run[s]]
    /\ CloseJoined(s)
    /\ UNCHANGED <<committed, minted, own>>

\* Mutant: a debit that raises is closed without being rolled back.
FailDebitKept(s) ==
    /\ pc[s] # "idle"
    /\ CloseJoined(s)
    /\ UNCHANGED <<committed, minted, own, pending, host_runs>>

\* session.rollback(): ROLLBACK TO SAVEPOINT, which frees the locks taken since.
FailDebit(s) ==
    /\ pc[s] # "idle"
    /\ own' = [own EXCEPT ![s] = savepoint[s]]
    /\ CloseJoined(s)
    /\ UNCHANGED <<committed, minted, pending, host_runs>>

EndTransaction(s) ==
    /\ Close(s)
    /\ savepoint' = [savepoint EXCEPT ![s] = NoOwnRows]
    /\ pending' = [pending EXCEPT ![s] = <<>>]
    /\ host_runs' = [host_runs EXCEPT ![s] = NoRuns]

HostCommit(s) ==
    /\ pc[s] = "idle"
    /\ pending[s] # <<>>
    /\ balances' = [key \in ScopeKey |-> Visible(s, key)]
    /\ runs' = [r \in Runs |-> IF host_runs[s][r] = NONE THEN runs[r] ELSE host_runs[s][r]]
    /\ entries' = entries \o pending[s]
    /\ EndTransaction(s)
    /\ UNCHANGED minted

\* The host rolls back, its connection is lost, or the server breaks a deadlock.
HostRollback(s) ==
    /\ pc[s] # "idle" \/ pending[s] # <<>>
    /\ EndTransaction(s)
    /\ UNCHANGED <<committed, minted>>

JoinedStep(s) ==
    \/ HostNoteRun(s)
    \/ (AdvanceBalance(s) \/ ReadMoney(s) \/ ReadBalances(s)) /\ UNCHANGED host
    \/ Release(s)
    \/ HostCommit(s)

HostNext == \E s \in Sessions :
                JoinDebit(s) \/ JoinedStep(s) \/ FailDebit(s) \/ HostRollback(s)

HostSpec == HostInit /\ [][HostNext]_host_vars

\* Hosts keep executing statements and end their transactions; rows and run ids are
\* granted to their waiters in turn.  Nothing is assumed of failures or rollbacks.
HostFairSpec == HostSpec /\ \A s \in Sessions :
                    SF_host_vars(JoinedStep(s)) /\ SF_host_vars(HostCommit(s))

-----------------------------------------------------------------------------
(* Properties *)

(* Type invariant of the host's transactions (sql.py SqlLedger, sessions       *)
(* joined as savepoints).                                                      *)
HostTypeOK ==
    /\ TypeOK
    /\ savepoint \in [Sessions -> Book]
    /\ pending \in [Sessions -> Seq(LedgerEntry)]
    /\ host_runs \in [Sessions -> [Runs -> Instants \cup {NONE}]]

(* A debit's verdicts are those of the history it is committed in (sql.py      *)
(* debit, "both totals are recorded exactly and the next verdict is correct"), *)
(* although the host decides later and for several debits at once: over the    *)
(* windows it touched, each entry has the verdicts over all entries committed  *)
(* up to and including it.                                                     *)
VerdictsFollowHistory ==
    \A e \in DOMAIN entries :
        LET debit    == entries[e].debit
            vs       == entries[e].verdicts
            ceilings == [i \in DOMAIN vs |-> vs[i].ceiling]
        IN  report(vs, debit, FALSE)
            = report(verdicts(ceilings, BookAfter(entries)[e], debit.run_id, debit.occurred_at),
                     debit, FALSE)

\* Every debit a host has in progress falls on one day and is of a run declared beforehand.
QueuesOn(day) ==
    \A s \in Sessions :
        pc[s] # "idle" => /\ utc_day_key(call[s].debit.occurred_at) = day
                          /\ call[s].debit.run_id \in KnownRuns

(* Hosts whose debits fall on one day, over declared runs, cannot deadlock     *)
(* (sql.py class docstring, "rows are also upserted in sorted key order"):     *)
(* each takes the row of the day first and keeps it to the end of its          *)
(* transaction, so every call returns as long as hosts end theirs.             *)
QueuingHostsReturn ==
    \A day \in {utc_day_key(at) : at \in Instants} : []QueuesOn(day) => EveryCallReturns

HostWaits(s, t) ==
    \/ pc[s] = "note_run" /\ RunHeldFrom(s, t)
    \/ pc[s] = "advance" /\ \E key \in ScopeKey : NextWindow(s, key) /\ RowBlockedBy(s, key, t)

WaitsAreShort == \A s, t, u \in Sessions : ~(HostWaits(s, t) /\ HostWaits(t, u))

(* What that rests on (sql.py debit, "for key in sorted(touched)"): hosts that  *)
(* queue never wait for a host that waits itself, so there is no cycle of       *)
(* waiting hosts, of any length.                                                *)
QueuingHostsNeverCycle ==
    \A day \in {utc_day_key(at) : at \in Instants} : []QueuesOn(day) => []WaitsAreShort

(* Concurrent debits cannot deadlock (README.md, quickstart.md, "rows are      *)
(* locked in sorted key order"): no two connections wait for each other.       *)
NoMutualWait == \A s, t \in Sessions : ~(HostWaits(s, t) /\ HostWaits(t, s))

=============================================================================
